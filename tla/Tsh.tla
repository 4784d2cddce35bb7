-------------------------------- MODULE Tsh --------------------------------
(***************************************************************************)
(* The job control of sh-lab/shlab-handout/tsh.c: the read/eval loop, its  *)
(* built-in commands, and the three signal handlers that interrupt it.     *)
(*                                                                         *)
(* The shell is one thread.  A signal that is pending and not blocked may  *)
(* be delivered between any two steps: its handler is pushed on `stack`    *)
(* and the interrupted code resumes when it returns.  Signal() installs    *)
(* the handlers with an empty sa_mask, so a handler blocks only its own    *)
(* signal and the others may nest on it.  Signals of one kind coalesce:    *)
(* `pending` is a set.  The children run concurrently with the shell.      *)
(***************************************************************************)
EXTENDS JobTable, Sequences

CONSTANTS Keys,      \* the keys the user may type: "INT" ctrl-c, "TSTP" ctrl-z
          JidBound   \* bound of the model: no job is started once nextjid is larger

ASSUME TshAssumption == Keys \subseteq {"INT", "TSTP"} /\ JidBound \in Nat

VARIABLES
  jobs, nextjid,    \* the job list
  proc,             \* the kernel's view of each child
  pending,          \* signals raised for the shell and not delivered
  blocked,          \* SIGCHLD is in the shell's signal mask
  stack,            \* handlers interrupting the main program, innermost first
  hpc, hpid,        \* program counter and `pid` local of each handler
  mpc,              \* program counter of main / eval / do_bgfg / listjobs
  cur, fg, slot,    \* locals: the pid, "in the foreground", the job or index i
  shell             \* "up", or how the shell process ended

vars == <<jobs, nextjid, proc, pending, blocked, stack, hpc, hpid,
          mpc, cur, fg, slot, shell>>

table    == <<jobs, nextjid>>
locals   == <<cur, fg, slot>>
handlers == <<stack, hpc, hpid>>
signals  == <<pending, blocked>>

Sigs == {"CHLD", "INT", "TSTP"}

(***************************************************************************)
(* A child is forked in the shell's process group with the shell's         *)
(* handlers, moves to its own group (setpgid), and runs the program        *)
(* (execve).  A stop is "stopped" until waitpid has reported it, a zombie  *)
(* is "exited" or "killed" until waitpid has reaped it.                    *)
(***************************************************************************)
Zombies    == {"exited", "killed"}
Suspended  == {"stopped", "reported"}
ProcStates == {"none", "forked", "grouped", "running"} \cup Suspended \cup Zombies

Reading  == {"prompt"}
Critical == {"fork", "addjob", "lookup", "setstate", "unblock"}
Waiting  == {"waitfg", "waiting"}
Listing  == {"list", "listprint", "listerror"}

\* chld: the pc after waitpid is the status it returned
HandlerPCs == {"idle", "wait", "sample", "kill", "exited", "killed", "stopped"}

TypeOK ==
  /\ jobs \in [Slots -> JobType]
  /\ nextjid \in Nat
  /\ proc \in [Pids -> ProcStates]
  /\ pending \in SUBSET Sigs
  /\ blocked \in BOOLEAN
  /\ stack \in Seq(Sigs)
  /\ hpc \in [Sigs -> HandlerPCs]
  /\ hpid \in [Sigs -> Pids \cup {NoPid}]
  /\ mpc \in Reading \cup Critical \cup Waiting \cup Listing
  /\ cur \in Pids \cup {NoPid}
  /\ fg \in BOOLEAN
  /\ slot \in Slots \cup {NoSlot}
  /\ shell \in {"up", "exited", "error", "segv"}

Init ==
  /\ jobs = initjobs /\ nextjid = 1
  /\ proc = [p \in Pids |-> "none"]
  /\ pending = {} /\ blocked = FALSE
  /\ stack = <<>>
  /\ hpc = [s \in Sigs |-> "idle"] /\ hpid = [s \in Sigs |-> NoPid]
  /\ mpc = "prompt"
  /\ cur = NoPid /\ fg = FALSE /\ slot = NoSlot
  /\ shell = "up"

----------------------------------------------------------------------------
(* The main program.  It takes a step only when no handler is running.     *)

Main(pc) == shell = "up" /\ stack = <<>> /\ mpc = pc

\* the kernel calls the handler of s
Enter(s) ==
  /\ pending' = pending \ {s}
  /\ stack' = <<s>> \o stack
  /\ hpc' = [hpc EXCEPT ![s] = IF s = "CHLD" THEN "wait" ELSE "sample"]

ToPrompt ==
  /\ mpc' = "prompt"
  /\ cur' = NoPid /\ fg' = FALSE /\ slot' = NoSlot

\* the quit command, or end of file
Quit ==
  /\ Main("prompt")
  /\ shell' = "exited"
  /\ UNCHANGED <<table, proc, signals, handlers, mpc, locals>>

\* MUTANT: eval without sigprocmask(SIG_BLOCK)
EvalCommandUnblocked ==
  /\ Main("prompt")
  /\ nextjid <= JidBound
  /\ fg' \in BOOLEAN
  /\ mpc' = "fork"
  /\ UNCHANGED <<table, proc, signals, handlers, cur, slot, shell>>

\* eval of a command that is not built in, up to sigprocmask(SIG_BLOCK)
EvalCommand ==
  /\ Main("prompt")
  /\ nextjid <= JidBound
  /\ blocked' = TRUE
  /\ fg' \in BOOLEAN
  /\ mpc' = "fork"
  /\ UNCHANGED <<table, proc, pending, handlers, cur, slot, shell>>

\* fork fails when it returns -1, a pid addjob ignores
Fork ==
  /\ Main("fork")
  /\ \/ \E p \in Pids : /\ proc[p] = "none"
                        /\ proc' = [proc EXCEPT ![p] = "forked"]
                        /\ cur' = p
     \/ cur' = NoPid /\ UNCHANGED proc
  /\ mpc' = "addjob"
  /\ UNCHANGED <<table, signals, handlers, fg, slot, shell>>

\* MUTANT: addjob is told FG whatever the command line says
AddJobInForeground ==
  /\ Main("addjob")
  /\ jobs' = addjob(jobs, nextjid, cur, "FG")
  /\ nextjid' = addjobNextjid(jobs, nextjid, cur)
  /\ mpc' = "unblock"
  /\ UNCHANGED <<proc, signals, handlers, locals, shell>>

AddJob ==
  /\ Main("addjob")
  /\ jobs' = addjob(jobs, nextjid, cur, IF fg THEN "FG" ELSE "BG")
  /\ nextjid' = addjobNextjid(jobs, nextjid, cur)
  /\ mpc' = "unblock"
  /\ UNCHANGED <<proc, signals, handlers, locals, shell>>

\* sigprocmask(SIG_SETMASK, &prev_mask) of eval and of do_bgfg: a SIGCHLD that
\* became pending meanwhile is delivered before the call returns
Unblock ==
  /\ Main("unblock")
  /\ blocked' = FALSE
  /\ IF "CHLD" \in pending THEN Enter("CHLD") ELSE UNCHANGED <<pending, stack, hpc>>
  /\ IF fg THEN mpc' = "waitfg" /\ UNCHANGED locals ELSE ToPrompt
  /\ UNCHANGED <<table, proc, hpid, shell>>

WaitFgLookup ==
  /\ Main("waitfg")
  /\ slot' = getjobpid(jobs, cur)
  /\ mpc' = "waiting"
  /\ UNCHANGED <<table, proc, signals, handlers, cur, fg, shell>>

\* MUTANT: waitfg returns after its first sleep
WaitFgReturnEarly ==
  /\ Main("waiting")
  /\ ToPrompt
  /\ UNCHANGED <<table, proc, signals, handlers, shell>>

\* the loop of waitfg ends; an iteration that sleeps changes nothing
WaitFgReturn ==
  /\ Main("waiting")
  /\ slot # NoSlot => jobs[slot].state # "FG"
  /\ ToPrompt
  /\ UNCHANGED <<table, proc, signals, handlers, shell>>

\* MUTANT: do_bgfg without sigprocmask(SIG_BLOCK)
BgFgCommandUnblocked ==
  /\ Main("prompt")
  /\ fg' \in BOOLEAN
  /\ mpc' = "lookup"
  /\ UNCHANGED <<table, proc, signals, handlers, cur, slot, shell>>

\* fg and bg, up to SIG_BLOCK; without a valid argument they only print
BgFgCommand ==
  /\ Main("prompt")
  /\ blocked' = TRUE
  /\ fg' \in BOOLEAN
  /\ mpc' = "lookup"
  /\ UNCHANGED <<table, proc, pending, handlers, cur, slot, shell>>

\* the job an argument, a pid or a %jid, stands for
Arguments == {getjobpid(jobs, p) : p \in Pids}
             \cup {getjobjid(jobs, j) : j \in 1 .. JidBound + 1}

\* kill(-pid, SIGCONT), whose result is not looked at
Continue(p) ==
  IF proc[p] \in Suspended
  THEN /\ proc' = [proc EXCEPT ![p] = "running"]
       /\ pending' = pending \cup {"CHLD"}
  ELSE UNCHANGED <<proc, pending>>

NoSuchJob ==
  /\ Main("lookup")
  /\ NoSlot \in Arguments
  /\ fg' = FALSE
  /\ mpc' = "unblock"
  /\ UNCHANGED <<table, proc, signals, handlers, cur, slot, shell>>

LookupJob ==
  /\ Main("lookup")
  /\ \E i \in Arguments \ {NoSlot} :
       /\ slot' = i
       /\ cur' = jobs[i].pid
       /\ IF jobs[i].state = "ST" THEN Continue(jobs[i].pid)
                                  ELSE UNCHANGED <<proc, pending>>
  /\ mpc' = "setstate"
  /\ UNCHANGED <<table, blocked, handlers, fg, shell>>

SetState ==
  /\ Main("setstate")
  /\ jobs' = [jobs EXCEPT ![slot].state = IF fg THEN "FG" ELSE "BG"]
  /\ mpc' = "unblock"
  /\ UNCHANGED <<nextjid, proc, signals, handlers, locals, shell>>

\* the jobs command: listjobs reads the list with SIGCHLD unblocked
JobsCommand ==
  /\ Main("prompt")
  /\ slot' = 0
  /\ mpc' = "list"
  /\ UNCHANGED <<table, proc, signals, handlers, cur, fg, shell>>

NextSlot ==
  IF slot + 1 < MAXJOBS THEN mpc' = "list" /\ slot' = slot + 1 /\ UNCHANGED <<cur, fg>>
                        ELSE ToPrompt

ListCheck ==
  /\ Main("list")
  /\ IF jobs[slot].pid # NoPid THEN mpc' = "listprint" /\ UNCHANGED locals
                               ELSE NextSlot
  /\ UNCHANGED <<table, proc, signals, handlers, shell>>

ListPrint ==
  /\ Main("listprint")
  /\ IF jobs[slot].state = "UNDEF" THEN mpc' = "listerror" /\ UNCHANGED locals
                                   ELSE NextSlot
  /\ UNCHANGED <<table, proc, signals, handlers, shell>>

\* the default case of the switch: "listjobs: Internal error"
ListError ==
  /\ Main("listerror")
  /\ NextSlot
  /\ UNCHANGED <<table, proc, signals, handlers, shell>>

----------------------------------------------------------------------------
(* Delivery of signals and the handlers.                                   *)

\* sigquit_handler prints and exits, whatever it interrupts
SigQuit ==
  /\ shell = "up"
  /\ shell' = "exited"
  /\ UNCHANGED <<table, proc, signals, handlers, mpc, locals>>

Deliver(s) ==
  /\ shell = "up"
  /\ s \in pending
  /\ hpc[s] = "idle"
  /\ s = "CHLD" => ~blocked
  /\ Enter(s)
  /\ UNCHANGED <<table, proc, blocked, hpid, mpc, locals, shell>>

Handler(s, pc) == shell = "up" /\ stack # <<>> /\ Head(stack) = s /\ hpc[s] = pc

Return(s) ==
  /\ stack' = Tail(stack)
  /\ hpc' = [hpc EXCEPT ![s] = "idle"]
  /\ hpid' = [hpid EXCEPT ![s] = NoPid]

\* waitpid(-1, &status, WNOHANG | WUNTRACED) finds a child
ChldWait ==
  /\ Handler("CHLD", "wait")
  /\ \E p \in Pids :
       /\ proc[p] \in Zombies \cup {"stopped"}
       /\ proc' = [proc EXCEPT ![p] = IF @ = "stopped" THEN "reported" ELSE "none"]
       /\ hpc' = [hpc EXCEPT !["CHLD"] = proc[p]]
       /\ hpid' = [hpid EXCEPT !["CHLD"] = p]
  /\ UNCHANGED <<table, signals, stack, mpc, locals, shell>>

\* waitpid returns 0 or fails with ECHILD: the loop and the handler end
ChldReturn ==
  /\ Handler("CHLD", "wait")
  /\ \A p \in Pids : proc[p] \notin Zombies \cup {"stopped"}
  /\ Return("CHLD")
  /\ UNCHANGED <<table, proc, signals, mpc, locals, shell>>

\* MUTANT: the handler collects one child and returns
NextChildReturns == Return("CHLD")

\* the loop of the handler goes round
NextChild ==
  /\ hpc' = [hpc EXCEPT !["CHLD"] = "wait"]
  /\ hpid' = [hpid EXCEPT !["CHLD"] = NoPid]
  /\ UNCHANGED stack

\* WIFSIGNALED and WIFEXITED; the former reads job->jid before it deletes
ChldDelete ==
  /\ \E st \in Zombies :
       /\ Handler("CHLD", st)
       /\ st = "killed" => getjobpid(jobs, hpid["CHLD"]) # NoSlot
  /\ jobs' = deletejob(jobs, hpid["CHLD"])
  /\ nextjid' = deletejobNextjid(jobs, nextjid, hpid["CHLD"])
  /\ NextChild
  /\ UNCHANGED <<proc, signals, mpc, locals, shell>>

\* MUTANT: a stopped child is deleted like one that ended
ChldStopDeletes ==
  /\ Handler("CHLD", "stopped")
  /\ getjobpid(jobs, hpid["CHLD"]) # NoSlot
  /\ jobs' = deletejob(jobs, hpid["CHLD"])
  /\ NextChild
  /\ UNCHANGED <<nextjid, proc, signals, mpc, locals, shell>>

\* MUTANT: the stop is not recorded
ChldStopIgnored ==
  /\ Handler("CHLD", "stopped")
  /\ getjobpid(jobs, hpid["CHLD"]) # NoSlot
  /\ NextChild
  /\ UNCHANGED <<table, proc, signals, mpc, locals, shell>>

\* WIFSTOPPED
ChldStop ==
  /\ Handler("CHLD", "stopped")
  /\ getjobpid(jobs, hpid["CHLD"]) # NoSlot
  /\ jobs' = [jobs EXCEPT ![getjobpid(jobs, hpid["CHLD"])].state = "ST"]
  /\ NextChild
  /\ UNCHANGED <<nextjid, proc, signals, mpc, locals, shell>>

\* the job of a killed or stopped child is not on the list: job is NULL
ChldNullJob ==
  /\ \E st \in {"killed", "stopped"} : Handler("CHLD", st)
  /\ getjobpid(jobs, hpid["CHLD"]) = NoSlot
  /\ shell' = "segv"
  /\ UNCHANGED <<table, proc, signals, handlers, mpc, locals>>

\* sigint_handler and sigtstp_handler read fgpid ...
Sample(s) ==
  /\ Handler(s, "sample")
  /\ IF fgpid(jobs) = NoPid
     THEN Return(s)
     ELSE /\ hpid' = [hpid EXCEPT ![s] = fgpid(jobs)]
          /\ hpc' = [hpc EXCEPT ![s] = "kill"]
          /\ UNCHANGED stack
  /\ UNCHANGED <<table, proc, signals, mpc, locals, shell>>

\* ... and signal that process group.  A child before its execve catches the
\* signal with the shell's handler; a program may also handle it.
KillFg(s) ==
  /\ Handler(s, "kill")
  /\ LET p == hpid[s] IN
     /\ proc[p] \notin {"none", "forked"}
     /\ \/ UNCHANGED <<proc, pending>>
        \/ /\ proc[p] = "running"
           /\ proc' = [proc EXCEPT ![p] = IF s = "INT" THEN "killed" ELSE "stopped"]
           /\ pending' = pending \cup {"CHLD"}
  /\ Return(s)
  /\ UNCHANGED <<table, blocked, mpc, locals, shell>>

\* kill fails with ESRCH when no process is in the group: unix_error exits
KillFgFails(s) ==
  /\ Handler(s, "kill")
  /\ proc[hpid[s]] \in {"none", "forked"}
  /\ shell' = "error"
  /\ UNCHANGED <<table, proc, signals, handlers, mpc, locals>>

----------------------------------------------------------------------------
(* The children and the terminal.                                          *)

ProcStep(p, from, to, raised) ==
  /\ shell = "up"
  /\ proc[p] \in from
  /\ proc' = [proc EXCEPT ![p] = to]
  /\ pending' = pending \cup raised
  /\ UNCHANGED <<table, blocked, handlers, mpc, locals, shell>>

ChildSetpgid(p) == ProcStep(p, {"forked"}, "grouped", {})
ChildExec(p)    == ProcStep(p, {"grouped"}, "running", {})
ChildExecFails(p) == ProcStep(p, {"grouped"}, "exited", {"CHLD"})

ProcExit(p)   == ProcStep(p, {"running"}, "exited", {"CHLD"})
ProcKilled(p) == ProcStep(p, {"running"} \cup Suspended, "killed", {"CHLD"})
ProcStop(p)   == ProcStep(p, {"running"}, "stopped", {"CHLD"})
ProcCont(p)   == ProcStep(p, Suspended, "running", {"CHLD"})

\* ctrl-c and ctrl-z
Keystroke(s) ==
  /\ shell = "up"
  /\ s \notin pending
  /\ pending' = pending \cup {s}
  /\ UNCHANGED <<table, proc, blocked, handlers, mpc, locals, shell>>

----------------------------------------------------------------------------
ReadCommand == Quit \/ EvalCommand \/ BgFgCommand \/ JobsCommand

MainStep == \/ Fork \/ AddJob \/ Unblock \/ WaitFgLookup \/ WaitFgReturn
            \/ NoSuchJob \/ LookupJob \/ SetState
            \/ ListCheck \/ ListPrint \/ ListError

HandlerStep == \/ ChldWait \/ ChldReturn \/ ChldDelete \/ ChldStop \/ ChldNullJob
               \/ \E s \in {"INT", "TSTP"} : Sample(s) \/ KillFg(s) \/ KillFgFails(s)

ChildStep == \E p \in Pids : \/ ChildSetpgid(p) \/ ChildExec(p) \/ ChildExecFails(p)
                             \/ ProcExit(p) \/ ProcKilled(p)

\* what the outside may repeat for ever: keystrokes, stops and continues
Noise == \/ \E s \in Keys : Keystroke(s)
         \/ \E p \in Pids : ProcStop(p) \/ ProcCont(p)

\* the shell has ended; its children are no longer followed
Ended == shell # "up" /\ UNCHANGED vars

Next == \/ ReadCommand \/ MainStep \/ SigQuit
        \/ \E s \in Sigs : Deliver(s)
        \/ HandlerStep \/ ChildStep \/ Noise \/ Ended

Spec == Init /\ [][Next]_vars

(***************************************************************************)
(* The scheduler runs the shell: the main program goes on until it reads   *)
(* the next command, deliverable signals are delivered, handlers run to    *)
(* their end.  Nothing is assumed of the children or of the user.          *)
(***************************************************************************)
Fairness == /\ WF_vars(MainStep)
            /\ WF_vars(HandlerStep)
            /\ WF_vars(\E s \in Sigs : Deliver(s))

FairSpec == Spec /\ Fairness

----------------------------------------------------------------------------
(* What the shell promises.                                                *)

\* pid is a child that waitpid has just removed and whose job the SIGCHLD
\* handler is about to delete
BeingReaped(p) == hpc["CHLD"] \in Zombies /\ hpid["CHLD"] = p

(***************************************************************************)
(* "At most 1 job can be in the FG state" (tsh.c, comment on job states),  *)
(* whatever eval, fg, bg and the three handlers do in between.             *)
(***************************************************************************)
AtMostOneFG == \A i, k \in FGSlots(jobs) : i = k

(***************************************************************************)
(* A foreground job is one the shell is waiting for: eval and do_bgfg do   *)
(* not get back to the prompt while a job is FG, so ctrl-c at the prompt   *)
(* has no job to reach, and a child that runs the inherited handler        *)
(* before its execve finds no foreground job in its copy of the list.      *)
(***************************************************************************)
FGIsWaitedFor ==
  \A i \in FGSlots(jobs) :
    fg /\ jobs[i].pid = cur /\ mpc \in {"unblock"} \cup Waiting

(***************************************************************************)
(* Blocking SIGCHLD around fork and addjob: no job outlives its child.  A  *)
(* child that ended before addjob ran would stay on the list for ever, and *)
(* waitfg would wait for it for ever.                                      *)
(***************************************************************************)
NoStaleJob ==
  \A i \in Slots : jobs[i].pid # NoPid =>
    proc[jobs[i].pid] # "none" \/ BeingReaped(jobs[i].pid)

(***************************************************************************)
(* Every stop that waitpid reported is on the list: the job of a child     *)
(* whose stop is reported is ST, except while the handler is on its way to *)
(* record it.  do_bgfg resumes only jobs it finds ST, so a stop that was   *)
(* lost, or overwritten by FG or BG, would leave the child stopped.        *)
(***************************************************************************)
StopIsRecorded ==
  \A i \in Slots : LET p == jobs[i].pid IN
    (p # NoPid /\ proc[p] = "reported") =>
      jobs[i].state = "ST" \/ (hpc["CHLD"] = "stopped" /\ hpid["CHLD"] = p)

(***************************************************************************)
(* As long as there are at most MAXJOBS children, every child has its      *)
(* slot, from addjob until the SIGCHLD handler deletes it: none escapes    *)
(* fg, bg, jobs and ctrl-c.                                                *)
(***************************************************************************)
BeingHandled(p) ==
  hpc["CHLD"] \in {"exited", "killed", "stopped"} /\ hpid["CHLD"] = p

EveryChildHasSlot ==
  Cardinality(Pids) <= MAXJOBS =>
    \A p \in Pids : (proc[p] # "none" \/ BeingHandled(p)) =>
      \/ \E i \in Slots : jobs[i].pid = p
      \/ mpc = "addjob" /\ cur = p

(***************************************************************************)
(* The handler never dereferences the NULL that getjobpid may return: as   *)
(* long as there are at most MAXJOBS children, each has its slot when      *)
(* SIGCHLD is handled.                                                     *)
(***************************************************************************)
NoNullJob == Cardinality(Pids) <= MAXJOBS => shell # "segv"

(***************************************************************************)
(* A job leaves the list only after waitpid has removed its child: a       *)
(* stopped or running child is never forgotten.                            *)
(***************************************************************************)
ForgetsOnlyReaped ==
  [][\A p \in Tracked(jobs) \ Tracked(jobs)' : proc[p] = "none"]_vars

(***************************************************************************)
(* No child has two slots, also when the kernel reuses its pid: getjobpid  *)
(* and deletejob look at the first slot only.                              *)
(***************************************************************************)
OneSlotPerPid ==
  \A i, k \in Slots : (jobs[i].pid = jobs[k].pid /\ jobs[i].pid # NoPid) => i = k

(***************************************************************************)
(* Every job can be looked up: getjobpid returns its slot, and getjobjid   *)
(* finds a job, never an empty slot, for the id that is printed for it.    *)
(* (It may be another job: ids collide once nextjid has wrapped around.)   *)
(***************************************************************************)
LookupFindsUsed ==
  \A i \in Slots : jobs[i].pid # NoPid =>
    LET k == getjobjid(jobs, jobs[i].jid)
    IN  getjobpid(jobs, jobs[i].pid) = i /\ k # NoSlot /\ jobs[k].pid # NoPid

\* what it needs besides IInv: ids start at 1
JidsArePositive ==
  nextjid >= 1 /\ \A i \in Slots : jobs[i].pid # NoPid => jobs[i].jid >= 1

(***************************************************************************)
(* The invariant the proofs of TshProofs go through: what holds between    *)
(* any two steps, at every program counter.                                *)
(***************************************************************************)
\* the main program runs only when every handler is idle
HandlersOnStack ==
  \A s \in Sigs : hpc[s] # "idle" => \E i \in 1 .. Len(stack) : stack[i] = s

\* in a critical section SIGCHLD is blocked and its handler does not run
CriticalIsBlocked ==
  mpc \in Critical => blocked /\ hpc["CHLD"] = "idle"

\* an empty slot is UNDEF and has no jid
SlotShape ==
  \A i \in Slots : /\ jobs[i].pid = NoPid <=> jobs[i].state = "UNDEF"
                   /\ jobs[i].pid = NoPid => jobs[i].jid = 0

\* the child eval has just forked is not on the list and was never reported
ForkedIsNew ==
  (mpc = "addjob" /\ cur # NoPid) =>
    /\ proc[cur] \notin {"none", "reported"}
    /\ \A i \in Slots : jobs[i].pid # cur

\* the job do_bgfg found is still there, and no longer reported stopped
FoundIsThere ==
  mpc = "setstate" =>
    /\ cur # NoPid /\ slot # NoSlot /\ jobs[slot].pid = cur
    /\ proc[cur] # "reported"

\* waitfg looks at the slot of its job as long as the job is on the list
WaitsForItsJob ==
  mpc = "waiting" =>
    \A i \in Slots : (jobs[i].pid = cur /\ cur # NoPid) => slot = i

\* the child waitpid removed has no process left
ReapedIsGone ==
  /\ hpc["CHLD"] \in {"idle", "wait", "exited", "killed", "stopped"}
  /\ hpc["CHLD"] \in Zombies =>
       hpid["CHLD"] \in Pids /\ proc[hpid["CHLD"]] = "none"
  /\ hpc["CHLD"] = "stopped" => hpid["CHLD"] \in Pids

IInv == /\ TypeOK /\ HandlersOnStack /\ CriticalIsBlocked /\ SlotShape /\ OneSlotPerPid
        /\ ForkedIsNew /\ FoundIsThere /\ WaitsForItsJob /\ ReapedIsGone
        /\ FGIsWaitedFor /\ NoStaleJob /\ StopIsRecorded

(***************************************************************************)
(* The shell implements JobControl: with the job state of a process read   *)
(* off its slot, every step of the shell, of a handler or of a child is a  *)
(* step of JobControl or changes nothing there.                            *)
(***************************************************************************)
JobState(p) ==
  IF \E i \in Slots : jobs[i].pid = p
  THEN jobs[CHOOSE i \in Slots : jobs[i].pid = p].state ELSE "UNDEF"

JC == INSTANCE JobControl WITH state <- [p \in Pids |-> JobState(p)],
                               busy  <- mpc # "prompt"

ImplementsJobControl == JC!JCSpec

(***************************************************************************)
(* Liveness, once keystrokes, stops and continues from outside cease for   *)
(* good: without that a handler could be interrupted for ever.             *)
(***************************************************************************)
Quiet == <>[][~Noise]_vars

Down == shell # "up"

(***************************************************************************)
(* A zombie is reaped, although SIGCHLDs coalesce: the loop of the handler *)
(* collects the children whose signal was merged with another one.         *)
(***************************************************************************)
ZombiesReaped ==
  Quiet => \A p \in Pids : (proc[p] \in Zombies) ~> (proc[p] \notin Zombies \/ Down)

(***************************************************************************)
(* The shell does not wait for a child that does not run: when the         *)
(* foreground job ends or stops, and does not go on, the prompt comes      *)
(* back.                                                                   *)
(***************************************************************************)
FgRuns == cur # NoPid /\ proc[cur] \in {"forked", "grouped", "running"}

FgReturns ==
  Quiet => ((mpc \in Waiting /\ ~FgRuns) ~> (mpc \notin Waiting \/ FgRuns \/ Down))

=============================================================================

------------------------------ MODULE JobTable ------------------------------
(***************************************************************************)
(* The job list of sh-lab/shlab-handout/tsh.c: the array jobs[MAXJOBS] and *)
(* the helper routines that read and update it.  The helpers scan the      *)
(* array from slot 0 upwards and stop at the first match, so each of them  *)
(* is a choice of the smallest slot of a set.  They are operators here;    *)
(* module Tsh is the shell around them.                                    *)
(***************************************************************************)
EXTENDS Integers, FiniteSets

CONSTANTS Pids,     \* process ids fork may return
          NoPid,    \* pid 0: an empty slot, or "no process"
          MAXJOBS   \* number of slots of the job list

ASSUME JobTableAssumption ==
  /\ NoPid \notin Pids
  /\ MAXJOBS \in Nat \ {0}

Slots  == 0 .. MAXJOBS - 1
NoSlot == -1                             \* the NULL of getjobpid, getjobjid
States == {"UNDEF", "FG", "BG", "ST"}

JobType  == [pid : Pids \cup {NoPid}, jid : Nat, state : States]
Job(p, j, s) == [pid |-> p, jid |-> j, state |-> s]
clearjob == Job(NoPid, 0, "UNDEF")
initjobs == [i \in Slots |-> clearjob]

FirstSlot(S) == CHOOSE i \in S : \A k \in S : i <= k

\* the first slot of S, NULL when there is none
Scan(S) == IF S = {} THEN NoSlot ELSE FirstSlot(S)

FreeSlots(jobs)   == {i \in Slots : jobs[i].pid = NoPid}
SlotsOf(jobs, p)  == {i \in Slots : jobs[i].pid = p}
FGSlots(jobs)     == {i \in Slots : jobs[i].state = "FG"}
Tracked(jobs)     == {jobs[i].pid : i \in Slots} \ {NoPid}

getjobpid(jobs, p) == IF p = NoPid THEN NoSlot ELSE Scan(SlotsOf(jobs, p))
getjobjid(jobs, j) ==
  IF j < 1 THEN NoSlot ELSE Scan({i \in Slots : jobs[i].jid = j})
fgpid(jobs) ==
  IF FGSlots(jobs) = {} THEN NoPid ELSE jobs[FirstSlot(FGSlots(jobs))].pid

\* maxjid starts its scan with max = 0
maxjid(jobs) ==
  LET jids == {jobs[i].jid : i \in Slots} \cup {0}
  IN  CHOOSE m \in jids : \A j \in jids : j <= m

(***************************************************************************)
(* addjob and deletejob change the pair (jobs, nextjid): each is split     *)
(* into the new array and the new counter.  addjob does nothing for pid    *)
(* < 1 and when no slot is free; deletejob nothing when p has no slot.     *)
(***************************************************************************)
AddFails(jobs, p) == p = NoPid \/ FreeSlots(jobs) = {}

addjob(jobs, nextjid, p, s) ==
  IF AddFails(jobs, p) THEN jobs
  ELSE [jobs EXCEPT ![FirstSlot(FreeSlots(jobs))] = Job(p, nextjid, s)]

addjobNextjid(jobs, nextjid, p) ==
  IF AddFails(jobs, p) THEN nextjid
  ELSE IF nextjid + 1 > MAXJOBS THEN 1 ELSE nextjid + 1

deletejob(jobs, p) ==
  IF getjobpid(jobs, p) = NoSlot THEN jobs
  ELSE [jobs EXCEPT ![getjobpid(jobs, p)] = clearjob]

\* MUTANT: the largest jid itself
deletejobNextjidMax(jobs, nextjid, p) ==
  IF getjobpid(jobs, p) = NoSlot THEN nextjid
  ELSE maxjid(deletejob(jobs, p))

deletejobNextjid(jobs, nextjid, p) ==
  IF getjobpid(jobs, p) = NoSlot THEN nextjid
  ELSE maxjid(deletejob(jobs, p)) + 1
=============================================================================

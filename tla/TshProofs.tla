----------------------------- MODULE TshProofs -----------------------------
(***************************************************************************)
(* Proofs about Tsh, for every set of pids, every MAXJOBS, every keyboard  *)
(* and every JidBound: the invariant IInv is inductive, and with it the    *)
(* safety properties of the shell's job control.                           *)
(***************************************************************************)
EXTENDS Tsh, LeastNumber, SequenceTheorems

----------------------------------------------------------------------------
\* What the helpers on the job list return, for every list and MAXJOBS.

(***************************************************************************)
(* A scan of the array that finds a match returns the first one.           *)
(***************************************************************************)
LEMMA FirstSlotIsFirst ==
  ASSUME NEW S \in SUBSET Slots, S # {}
  PROVE  FirstSlot(S) \in S /\ \A k \in S : FirstSlot(S) <= k
<1>1. S \in SUBSET Nat
  BY JobTableAssumption DEF Slots
<1>2. \E m \in S : \A k \in S : m <= k
  BY <1>1, SmallestExists
<1>3. QED
  BY <1>2 DEF FirstSlot

(***************************************************************************)
(* A scan returns a match, or NULL exactly when there is none.             *)
(***************************************************************************)
LEMMA ScanFinds ==
  ASSUME NEW S \in SUBSET Slots
  PROVE  /\ Scan(S) \in Slots \cup {NoSlot}
         /\ Scan(S) = NoSlot <=> S = {}
         /\ Scan(S) # NoSlot => Scan(S) \in S
<1>1. NoSlot \notin Slots
  BY JobTableAssumption DEF NoSlot, Slots
<1>2. CASE S = {}
  BY <1>2 DEF Scan
<1>3. CASE S # {}
  BY <1>1, <1>3, FirstSlotIsFirst DEF Scan
<1>4. QED
  BY <1>2, <1>3

(***************************************************************************)
(* getjobpid returns a slot that holds the pid, or NULL when none does.    *)
(***************************************************************************)
LEMMA GetJobPid ==
  ASSUME NEW js \in [Slots -> JobType], NEW p \in Pids \cup {NoPid}
  PROVE  /\ getjobpid(js, p) \in Slots \cup {NoSlot}
         /\ getjobpid(js, p) # NoSlot =>
              getjobpid(js, p) \in Slots /\ js[getjobpid(js, p)].pid = p /\ p # NoPid
         /\ p # NoPid /\ getjobpid(js, p) = NoSlot => \A i \in Slots : js[i].pid # p
<1>1. SlotsOf(js, p) \in SUBSET Slots
  BY DEF SlotsOf
<1>2. CASE p = NoPid
  BY <1>2 DEF getjobpid
<1>3. CASE p # NoPid
  <2>1. getjobpid(js, p) = Scan(SlotsOf(js, p))
    BY <1>3 DEF getjobpid
  <2>2. QED
    BY <1>1, <1>3, <2>1, ScanFinds DEF SlotsOf
<1>4. QED
  BY <1>2, <1>3

(***************************************************************************)
(* getjobjid returns a slot with that jid, or NULL.                        *)
(***************************************************************************)
LEMMA GetJobJid ==
  ASSUME NEW js \in [Slots -> JobType], NEW j \in Nat
  PROVE  /\ getjobjid(js, j) \in Slots \cup {NoSlot}
         /\ getjobjid(js, j) # NoSlot =>
              getjobjid(js, j) \in Slots /\ js[getjobjid(js, j)].jid = j /\ j >= 1
<1> DEFINE S == {i \in Slots : js[i].jid = j}
<1>1. S \in SUBSET Slots
  OBVIOUS
<1>2. CASE j < 1
  BY <1>2 DEF getjobjid
<1>3. CASE ~(j < 1)
  <2>1. getjobjid(js, j) = Scan(S)
    BY <1>3 DEF getjobjid
  <2>2. Scan(S) \in Slots \cup {NoSlot} /\ (Scan(S) # NoSlot => Scan(S) \in S)
    <3> HIDE DEF S
    <3> QED BY <1>1, ScanFinds
  <2>3. QED
    BY <1>3, <2>1, <2>2
<1>4. QED
  BY <1>2, <1>3

(***************************************************************************)
(* fgpid returns 0 exactly when no job is in the foreground (an FG slot is *)
(* not empty), and otherwise the pid of a foreground job.                  *)
(***************************************************************************)
LEMMA FgPid ==
  ASSUME NEW js \in [Slots -> JobType]
  PROVE  /\ fgpid(js) \in Pids \cup {NoPid}
         /\ fgpid(js) # NoPid => \E i \in FGSlots(js) : js[i].pid = fgpid(js)
<1>1. FGSlots(js) \in SUBSET Slots
  BY DEF FGSlots
<1>2. CASE FGSlots(js) = {}
  BY <1>2 DEF fgpid
<1>3. CASE FGSlots(js) # {}
  <2>1. FirstSlot(FGSlots(js)) \in FGSlots(js)
    BY <1>1, <1>3, FirstSlotIsFirst
  <2>2. QED
    BY <1>1, <1>3, <2>1 DEF fgpid, JobType
<1>4. QED
  BY <1>2, <1>3

(***************************************************************************)
(* maxjid returns a natural number no jid on the list exceeds, so that     *)
(* after deletejob the next jid is not in use.                             *)
(***************************************************************************)
LEMMA MaxJid ==
  ASSUME NEW js \in [Slots -> JobType]
  PROVE  maxjid(js) \in Nat /\ \A i \in Slots : js[i].jid <= maxjid(js)
<1> DEFINE J == {js[i].jid : i \in Slots}
           f == [i \in Slots |-> js[i].jid]
<1>1. IsFiniteSet(Slots)
  BY FS_Interval, JobTableAssumption DEF Slots
<1>2. J \in SUBSET Nat
  BY DEF JobType
<1>3. f \in Surjection(Slots, J)
  BY DEF Surjection
<1>4. IsFiniteSet(J)
  <2> HIDE DEF f, J
  <2> QED BY <1>1, <1>3, FS_Surjection
<1>5. IsFiniteSet(J \cup {0}) /\ J \cup {0} \in SUBSET Nat /\ J \cup {0} # {}
  BY <1>2, <1>4, FS_AddElement
<1>6. \E m \in J \cup {0} : \A j \in J \cup {0} : j <= m
  <2> HIDE DEF J
  <2> QED BY <1>5, LargestExists
<1>7. maxjid(js) = CHOOSE m \in J \cup {0} : \A j \in J \cup {0} : j <= m
  BY DEF maxjid
<1>8. maxjid(js) \in J \cup {0} /\ \A j \in J \cup {0} : j <= maxjid(js)
  <2> HIDE DEF J
  <2> QED BY <1>6, <1>7
<1>9. QED
  BY <1>2, <1>8

(***************************************************************************)
(* addjob either leaves the list alone, when the pid is none or every slot *)
(* is taken, or writes the new job into one free slot.                     *)
(***************************************************************************)
LEMMA AddJobWrites ==
  ASSUME NEW js \in [Slots -> JobType], NEW n \in Nat,
         NEW p \in Pids \cup {NoPid}, NEW s \in States
  PROVE  /\ addjob(js, n, p, s) \in [Slots -> JobType]
         /\ addjobNextjid(js, n, p) \in Nat
         /\ \/ addjob(js, n, p, s) = js
            \/ /\ p # NoPid
               /\ \E i \in Slots : /\ js[i].pid = NoPid
                                   /\ addjob(js, n, p, s) = [js EXCEPT ![i] = Job(p, n, s)]
<1>1. FreeSlots(js) \in SUBSET Slots
  BY DEF FreeSlots
<1>2. addjobNextjid(js, n, p) \in Nat
  BY DEF addjobNextjid
<1>3. CASE AddFails(js, p)
  BY <1>2, <1>3 DEF addjob
<1>4. CASE ~AddFails(js, p)
  <2>1. p # NoPid /\ FirstSlot(FreeSlots(js)) \in FreeSlots(js)
    BY <1>1, <1>4, FirstSlotIsFirst DEF AddFails
  <2>2. Job(p, n, s) \in JobType
    BY DEF Job, JobType
  <2>3. QED
    BY <1>2, <1>4, <2>1, <2>2 DEF addjob, FreeSlots
<1>5. QED
  BY <1>3, <1>4

(***************************************************************************)
(* deletejob leaves the list alone when the pid has no slot, and clears a  *)
(* slot that holds it otherwise.                                           *)
(***************************************************************************)
LEMMA DeleteJobClears ==
  ASSUME NEW js \in [Slots -> JobType], NEW n \in Nat, NEW p \in Pids \cup {NoPid}
  PROVE  /\ deletejob(js, p) \in [Slots -> JobType]
         /\ deletejobNextjid(js, n, p) \in Nat
         /\ \/ /\ deletejob(js, p) = js
               /\ p # NoPid => \A i \in Slots : js[i].pid # p
            \/ \E i \in Slots : /\ js[i].pid = p
                                /\ deletejob(js, p) = [js EXCEPT ![i] = clearjob]
<1>1. clearjob \in JobType
  BY DEF clearjob, Job, JobType, States
<1>2. deletejob(js, p) \in [Slots -> JobType]
  BY <1>1, GetJobPid DEF deletejob
<1>3. deletejobNextjid(js, n, p) \in Nat
  <2>1. maxjid(deletejob(js, p)) \in Nat
    BY <1>2, MaxJid
  <2>2. QED
    BY <2>1 DEF deletejobNextjid
<1>4. QED
  BY <1>2, <1>3, GetJobPid DEF deletejob

----------------------------------------------------------------------------
\* what a step of a child, of the terminal or of the user may change
USE DEF table, locals, handlers, signals

----------------------------------------------------------------------------
(***************************************************************************)
(* Delivery of a signal pushes its handler on top of those that run.       *)
(***************************************************************************)
LEMMA PushHandler ==
  ASSUME NEW st \in Seq(Sigs), NEW s \in Sigs
  PROVE  /\ <<s>> \o st \in Seq(Sigs)
         /\ <<s>> \o st # <<>>
         /\ Len(<<s>> \o st) = Len(st) + 1
         /\ (<<s>> \o st)[1] = s
         /\ \A i \in 1 .. Len(st) : (<<s>> \o st)[i + 1] = st[i]
  OBVIOUS

(***************************************************************************)
(* The return of the innermost handler leaves the others on the stack.     *)
(***************************************************************************)
LEMMA PopHandler ==
  ASSUME NEW st \in Seq(Sigs), st # <<>>
  PROVE  /\ Tail(st) \in Seq(Sigs)
         /\ \A i \in 1 .. Len(st) :
              st[i] # Head(st) => \E k \in 1 .. Len(Tail(st)) : Tail(st)[k] = st[i]
<1>1. /\ Tail(st) \in Seq(Sigs)
      /\ Len(Tail(st)) = Len(st) - 1
      /\ \A k \in 1 .. Len(Tail(st)) : Tail(st)[k] = st[k + 1]
  OBVIOUS
<1>2. Head(st) = st[1]
  OBVIOUS
<1>3. ASSUME NEW i \in 1 .. Len(st), st[i] # Head(st)
      PROVE  \E k \in 1 .. Len(Tail(st)) : Tail(st)[k] = st[i]
  <2>1. i - 1 \in 1 .. Len(Tail(st)) /\ Tail(st)[i - 1] = st[i]
    BY <1>1, <1>2, <1>3
  <2>2. QED
    BY <2>1
<1>4. QED
  BY <1>1, <1>3

----------------------------------------------------------------------------
(***************************************************************************)
(* The main program takes its steps only while every handler is idle.      *)
(***************************************************************************)
LEMMA HandlersIdle ==
  ASSUME TypeOK, HandlersOnStack, stack = <<>>
  PROVE  \A s \in Sigs : hpc[s] = "idle"
<1>1. 1 .. Len(stack) = {}
  OBVIOUS
<1>2. QED
  BY <1>1 DEF HandlersOnStack

(***************************************************************************)
(* The invariant holds initially.                                          *)
(***************************************************************************)
LEMMA InitIInv == Init => IInv
<1> SUFFICES ASSUME Init PROVE IInv
  OBVIOUS
<1> USE DEF Init, initjobs, clearjob, Job, Sigs, Reading, Critical, Waiting, Zombies
<1>1. TypeOK
  <2>1. <<>> \in Seq(Sigs)
    OBVIOUS
  <2>2. QED
    BY <2>1 DEF TypeOK, JobType, States, ProcStates, HandlerPCs, Slots, NoSlot
<1>2. SlotShape /\ OneSlotPerPid /\ FGIsWaitedFor /\ NoStaleJob /\ StopIsRecorded
  BY DEF SlotShape, OneSlotPerPid, FGIsWaitedFor, FGSlots, NoStaleJob, StopIsRecorded
<1>3. HandlersOnStack /\ CriticalIsBlocked /\ ForkedIsNew /\ FoundIsThere
      /\ WaitsForItsJob /\ ReapedIsGone
  BY DEF HandlersOnStack, CriticalIsBlocked, ForkedIsNew, FoundIsThere, WaitsForItsJob,
         ReapedIsGone
<1>4. QED
  BY <1>1, <1>2, <1>3 DEF IInv

(***************************************************************************)
(* A step of a child changes the table of processes only: it neither reaps *)
(* a child nor reports a stop, which only waitpid does.                    *)
(***************************************************************************)
LEMMA ProcStepIInv ==
  ASSUME IInv, NEW p \in Pids, NEW from \in SUBSET (ProcStates \ {"none"}),
         NEW to \in ProcStates \ {"none", "reported"}, NEW raised \in SUBSET Sigs,
         ProcStep(p, from, to, raised)
  PROVE  IInv'
<1> USE DEF IInv, ProcStep
<1>1. TypeOK'
  BY DEF TypeOK
<1>2. /\ \A q \in Pids : proc'[q] = "none" <=> proc[q] = "none"
      /\ \A q \in Pids : proc'[q] = "reported" => proc[q] = "reported"
  BY DEF TypeOK
<1>3. (HandlersOnStack /\ CriticalIsBlocked /\ SlotShape /\ OneSlotPerPid)'
  BY DEF HandlersOnStack, CriticalIsBlocked, SlotShape, OneSlotPerPid
<1>4. (ForkedIsNew /\ FoundIsThere /\ WaitsForItsJob /\ ReapedIsGone)'
  BY <1>2 DEF TypeOK, ForkedIsNew, FoundIsThere, WaitsForItsJob, ReapedIsGone
<1>5. (FGIsWaitedFor /\ NoStaleJob /\ StopIsRecorded)'
  BY <1>2 DEF TypeOK, JobType, FGIsWaitedFor, FGSlots, NoStaleJob, BeingReaped,
              StopIsRecorded
<1>6. QED
  BY <1>1, <1>3, <1>4, <1>5

(***************************************************************************)
(* A step that touches neither the lists nor the handlers and goes to a    *)
(* program counter of the read/eval loop or of listjobs needs only that no *)
(* job is in the foreground.                                               *)
(***************************************************************************)
LEMMA ToReadingIInv ==
  ASSUME IInv, FGSlots(jobs) = {}, UNCHANGED <<table, proc, handlers, pending, shell>>,
         mpc' \in Reading \cup Listing, blocked' \in BOOLEAN,
         cur' \in Pids \cup {NoPid}, fg' \in BOOLEAN, slot' \in Slots \cup {NoSlot}
  PROVE  IInv'
<1> USE DEF IInv, Reading, Listing, Critical, Waiting
<1>1. TypeOK'
  BY DEF TypeOK
<1>2. (HandlersOnStack /\ CriticalIsBlocked /\ SlotShape /\ OneSlotPerPid)'
  BY DEF HandlersOnStack, CriticalIsBlocked, SlotShape, OneSlotPerPid
<1>3. (ForkedIsNew /\ FoundIsThere /\ WaitsForItsJob /\ ReapedIsGone)'
  BY DEF ForkedIsNew, FoundIsThere, WaitsForItsJob, ReapedIsGone
<1>4. (FGIsWaitedFor /\ NoStaleJob /\ StopIsRecorded)'
  BY DEF FGIsWaitedFor, FGSlots, NoStaleJob, BeingReaped, StopIsRecorded
<1>5. QED
  BY <1>1, <1>2, <1>3, <1>4

(***************************************************************************)
(* listjobs and the jobs command.                                          *)
(***************************************************************************)
LEMMA ListingIInv ==
  ASSUME IInv, JobsCommand \/ ListCheck \/ ListPrint \/ ListError
  PROVE  IInv'
<1>1. FGSlots(jobs) = {}
  BY DEF IInv, FGIsWaitedFor, FGSlots, Waiting, JobsCommand, ListCheck, ListPrint,
         ListError, Main
<1>2. slot \in Slots \cup {NoSlot} /\ cur \in Pids \cup {NoPid} /\ fg \in BOOLEAN
  BY DEF IInv, TypeOK
<1>3. 0 \in Slots /\ (slot + 1 < MAXJOBS => slot + 1 \in Slots)
  BY <1>2, JobTableAssumption DEF Slots, NoSlot
<1>4. NextSlot => /\ mpc' \in Reading \cup Listing
                  /\ cur' \in Pids \cup {NoPid} /\ fg' \in BOOLEAN
                  /\ slot' \in Slots \cup {NoSlot}
  BY <1>2, <1>3 DEF NextSlot, ToPrompt, Reading, Listing
<1>5. /\ UNCHANGED <<table, proc, handlers, signals, shell>>
      /\ mpc' \in Reading \cup Listing
      /\ cur' \in Pids \cup {NoPid} /\ fg' \in BOOLEAN /\ slot' \in Slots \cup {NoSlot}
  <2>1. CASE JobsCommand
    BY <1>2, <1>3, <2>1 DEF JobsCommand, Listing
  <2>2. CASE ListCheck
    BY <1>2, <1>4, <2>2 DEF ListCheck, Listing
  <2>3. CASE ListPrint
    BY <1>2, <1>4, <2>3 DEF ListPrint, Listing
  <2>4. CASE ListError
    BY <1>4, <2>4 DEF ListError
  <2>5. QED
    BY <2>1, <2>2, <2>3, <2>4
<1>6. blocked' \in BOOLEAN
  BY <1>5 DEF IInv, TypeOK
<1>7. QED
  BY <1>1, <1>5, <1>6, ToReadingIInv

(***************************************************************************)
(* The end of the shell process changes nothing else.                      *)
(***************************************************************************)
LEMMA EndIInv ==
  ASSUME IInv, UNCHANGED <<table, proc, signals, handlers, mpc, locals>>,
         shell' \in {"up", "exited", "error", "segv"}
  PROVE  IInv'
<1> USE DEF IInv
<1>1. TypeOK'
  BY DEF TypeOK
<1>2. QED
  BY <1>1 DEF HandlersOnStack, CriticalIsBlocked, SlotShape, OneSlotPerPid, ForkedIsNew,
         FoundIsThere, WaitsForItsJob, ReapedIsGone, FGIsWaitedFor, FGSlots, NoStaleJob,
         BeingReaped, StopIsRecorded

(***************************************************************************)
(* eval, fg and bg enter a critical section with SIGCHLD blocked and its   *)
(* handler idle.                                                           *)
(***************************************************************************)
LEMMA CommandIInv ==
  ASSUME IInv, EvalCommand \/ BgFgCommand
  PROVE  IInv'
<1> USE DEF IInv, Main, EvalCommand, BgFgCommand
<1>1. \A s \in Sigs : hpc[s] = "idle"
  BY HandlersIdle
<1>2. FGSlots(jobs) = {}
  BY DEF FGIsWaitedFor, FGSlots, Waiting
<1>3. TypeOK'
  BY DEF TypeOK, Critical
<1>4. (HandlersOnStack /\ CriticalIsBlocked /\ SlotShape /\ OneSlotPerPid)'
  BY <1>1 DEF HandlersOnStack, CriticalIsBlocked, SlotShape, OneSlotPerPid, Sigs
<1>5. (ForkedIsNew /\ FoundIsThere /\ WaitsForItsJob /\ ReapedIsGone)'
  BY DEF ForkedIsNew, FoundIsThere, WaitsForItsJob, ReapedIsGone
<1>6. (FGIsWaitedFor /\ NoStaleJob /\ StopIsRecorded)'
  BY <1>2 DEF FGIsWaitedFor, FGSlots, NoStaleJob, BeingReaped, StopIsRecorded
<1>7. QED
  BY <1>3, <1>4, <1>5, <1>6

(***************************************************************************)
(* fork: the pid it returns is in use by no child, hence on no slot.       *)
(***************************************************************************)
LEMMA ForkIInv ==
  ASSUME IInv, Fork
  PROVE  IInv'
<1> USE DEF IInv, Main, Fork, Critical
<1>1. \A s \in Sigs : hpc[s] = "idle"
  BY HandlersIdle
<1>2. hpc["CHLD"] = "idle"
  BY <1>1 DEF Sigs
<1>3. FGSlots(jobs) = {}
  BY DEF FGIsWaitedFor, FGSlots, Waiting
<1>4. TypeOK'
  BY DEF TypeOK, ProcStates
<1>5. (HandlersOnStack /\ CriticalIsBlocked /\ SlotShape /\ OneSlotPerPid)'
  BY DEF HandlersOnStack, CriticalIsBlocked, SlotShape, OneSlotPerPid
<1>6. \A i \in Slots : jobs[i].pid # NoPid => proc[jobs[i].pid] # "none"
  BY <1>2 DEF NoStaleJob, BeingReaped, Zombies
<1>7. ForkedIsNew'
  BY <1>6 DEF ForkedIsNew, TypeOK
<1>8. (FoundIsThere /\ WaitsForItsJob /\ ReapedIsGone)'
  BY <1>2 DEF FoundIsThere, WaitsForItsJob, ReapedIsGone, Zombies
<1>9. (FGIsWaitedFor /\ NoStaleJob /\ StopIsRecorded)'
  BY <1>3, <1>6 DEF TypeOK, JobType, FGIsWaitedFor, FGSlots, NoStaleJob, BeingReaped,
                    StopIsRecorded
<1>10. QED
  BY <1>4, <1>5, <1>7, <1>8, <1>9

(***************************************************************************)
(* addjob: the child is new to the list and still there, because SIGCHLD   *)
(* has been blocked since before the fork.                                 *)
(***************************************************************************)
LEMMA AddJobIInv ==
  ASSUME IInv, AddJob
  PROVE  IInv'
<1> USE DEF IInv, Main, AddJob, Critical
<1> DEFINE st == IF fg THEN "FG" ELSE "BG"
<1>1. hpc["CHLD"] = "idle"
  BY HandlersIdle DEF Sigs
<1>2. FGSlots(jobs) = {}
  BY DEF FGIsWaitedFor, FGSlots, Waiting
<1>3. /\ jobs' \in [Slots -> JobType]
      /\ nextjid' \in Nat
      /\ \/ jobs' = jobs
         \/ /\ cur # NoPid
            /\ \E i \in Slots : /\ jobs[i].pid = NoPid
                                /\ jobs' = [jobs EXCEPT ![i] = Job(cur, nextjid, st)]
  <2>1. /\ jobs \in [Slots -> JobType] /\ nextjid \in Nat /\ cur \in Pids \cup {NoPid}
        /\ st \in States
        /\ jobs' = addjob(jobs, nextjid, cur, st)
        /\ nextjid' = addjobNextjid(jobs, nextjid, cur)
    BY DEF TypeOK, States
  <2>2. QED
    <3> HIDE DEF st
    <3>1. /\ addjob(jobs, nextjid, cur, st) \in [Slots -> JobType]
          /\ addjobNextjid(jobs, nextjid, cur) \in Nat
          /\ \/ addjob(jobs, nextjid, cur, st) = jobs
             \/ /\ cur # NoPid
                /\ \E i \in Slots :
                     /\ jobs[i].pid = NoPid
                     /\ addjob(jobs, nextjid, cur, st)
                          = [jobs EXCEPT ![i] = Job(cur, nextjid, st)]
      BY <2>1, AddJobWrites
    <3>2. QED
      BY <2>1, <3>1
<1>4. TypeOK'
  BY <1>3 DEF TypeOK
<1>5. (HandlersOnStack /\ CriticalIsBlocked)'
  BY DEF HandlersOnStack, CriticalIsBlocked
<1>6. (ForkedIsNew /\ FoundIsThere /\ WaitsForItsJob /\ ReapedIsGone)'
  BY DEF ForkedIsNew, FoundIsThere, WaitsForItsJob, ReapedIsGone
<1>7. CASE jobs' = jobs
  BY <1>2, <1>4, <1>5, <1>6, <1>7
     DEF SlotShape, OneSlotPerPid, FGIsWaitedFor, FGSlots, NoStaleJob, BeingReaped,
         StopIsRecorded
<1>8. ASSUME NEW i \in Slots, cur # NoPid, jobs[i].pid = NoPid,
             jobs' = [jobs EXCEPT ![i] = Job(cur, nextjid, st)]
      PROVE  IInv'
  <2>1. /\ jobs'[i] = [pid |-> cur, jid |-> nextjid, state |-> st]
        /\ \A k \in Slots : k # i => jobs'[k] = jobs[k]
    BY <1>8 DEF TypeOK, Job
  <2>2. \A k \in Slots : jobs[k].pid # cur
    BY <1>8 DEF ForkedIsNew
  <2>3. (SlotShape /\ OneSlotPerPid)'
    BY <1>8, <2>1, <2>2 DEF SlotShape, OneSlotPerPid
  <2>4. FGIsWaitedFor'
    BY <1>2, <2>1 DEF FGIsWaitedFor, FGSlots
  <2>5. (NoStaleJob /\ StopIsRecorded)'
    BY <1>8, <2>1 DEF NoStaleJob, BeingReaped, StopIsRecorded, ForkedIsNew
  <2>6. QED
    BY <1>4, <1>5, <1>6, <2>3, <2>4, <2>5
<1>9. QED
  BY <1>3, <1>7, <1>8

(***************************************************************************)
(* The mask is restored: the SIGCHLD handler may start at once.            *)
(***************************************************************************)
LEMMA UnblockIInv ==
  ASSUME IInv, Unblock
  PROVE  IInv'
<1> USE DEF IInv, Main, Unblock, ToPrompt, Enter
<1>1. \A s \in Sigs : hpc[s] = "idle"
  BY HandlersIdle
<1>2. "CHLD" \in Sigs
  BY DEF Sigs
<1>3. stack' \in Seq(Sigs) /\ hpc' \in [Sigs -> HandlerPCs]
  <2>1. stack \in Seq(Sigs) /\ hpc \in [Sigs -> HandlerPCs]
    BY DEF TypeOK
  <2>2. \/ stack' = <<"CHLD">> \o stack /\ hpc' = [hpc EXCEPT !["CHLD"] = "wait"]
        \/ stack' = stack /\ hpc' = hpc
    OBVIOUS
  <2> HIDE DEF IInv, Main, Unblock, ToPrompt, Enter
  <2>3. <<"CHLD">> \o stack \in Seq(Sigs)
    BY <1>2, <2>1, PushHandler
  <2>4. [hpc EXCEPT !["CHLD"] = "wait"] \in [Sigs -> HandlerPCs]
    BY <2>1 DEF HandlerPCs
  <2>5. QED
    BY <2>1, <2>2, <2>3, <2>4
<1>4. TypeOK'
  BY <1>3 DEF TypeOK, Reading, Waiting
<1>5. HandlersOnStack'
  BY <1>1, <1>2, PushHandler DEF HandlersOnStack, TypeOK
<1>6. (CriticalIsBlocked /\ SlotShape /\ OneSlotPerPid)'
  BY DEF CriticalIsBlocked, SlotShape, OneSlotPerPid, Critical
<1>7. hpc["CHLD"] = "idle" /\ hpc'["CHLD"] \in {"idle", "wait"}
  BY <1>1, <1>2 DEF TypeOK
<1>8. (ForkedIsNew /\ FoundIsThere /\ WaitsForItsJob /\ ReapedIsGone)'
  BY <1>7 DEF ForkedIsNew, FoundIsThere, WaitsForItsJob, ReapedIsGone, Zombies
<1>9. FGIsWaitedFor'
  BY DEF FGIsWaitedFor, FGSlots, Waiting
<1>10. (NoStaleJob /\ StopIsRecorded)'
  BY <1>7 DEF NoStaleJob, BeingReaped, StopIsRecorded, Zombies
<1>11. QED
  BY <1>4, <1>5, <1>6, <1>8, <1>9, <1>10

(***************************************************************************)
(* waitfg looks its job up: the slot it gets is the one its job has.       *)
(***************************************************************************)
LEMMA WaitFgLookupIInv ==
  ASSUME IInv, WaitFgLookup
  PROVE  IInv'
<1> USE DEF IInv, Main, WaitFgLookup, Waiting
<1>1. /\ getjobpid(jobs, cur) \in Slots \cup {NoSlot}
      /\ getjobpid(jobs, cur) # NoSlot =>
           getjobpid(jobs, cur) \in Slots /\ jobs[getjobpid(jobs, cur)].pid = cur
      /\ cur # NoPid /\ getjobpid(jobs, cur) = NoSlot => \A i \in Slots : jobs[i].pid # cur
  BY GetJobPid DEF TypeOK
<1>2. TypeOK'
  BY <1>1 DEF TypeOK
<1>3. WaitsForItsJob'
  BY <1>1 DEF WaitsForItsJob, OneSlotPerPid
<1>4. (HandlersOnStack /\ CriticalIsBlocked /\ SlotShape /\ OneSlotPerPid)'
  BY DEF HandlersOnStack, CriticalIsBlocked, SlotShape, OneSlotPerPid, Critical
<1>5. (ForkedIsNew /\ FoundIsThere /\ ReapedIsGone)'
  BY DEF ForkedIsNew, FoundIsThere, ReapedIsGone
<1>6. (FGIsWaitedFor /\ NoStaleJob /\ StopIsRecorded)'
  BY DEF FGIsWaitedFor, FGSlots, NoStaleJob, BeingReaped, StopIsRecorded
<1>7. QED
  BY <1>2, <1>3, <1>4, <1>5, <1>6

(***************************************************************************)
(* waitfg returns only when no job is in the foreground: its own slot is   *)
(* not, and any other foreground job would have the same pid.              *)
(***************************************************************************)
LEMMA WaitFgReturnIInv ==
  ASSUME IInv, WaitFgReturn
  PROVE  IInv' /\ FGSlots(jobs) = {}
<1> USE DEF WaitFgReturn, Main
<1>1. ASSUME NEW i \in FGSlots(jobs)
      PROVE  FALSE
  <2>1. i \in Slots /\ jobs[i].state = "FG" /\ jobs[i].pid = cur
    BY <1>1 DEF IInv, FGIsWaitedFor, FGSlots
  <2>2. cur # NoPid
    BY <2>1 DEF IInv, SlotShape
  <2>3. slot = i
    BY <2>1, <2>2 DEF IInv, WaitsForItsJob
  <2>4. i # NoSlot
    BY <2>1, JobTableAssumption DEF Slots, NoSlot
  <2>5. QED
    BY <2>1, <2>3, <2>4
<1>2. FGSlots(jobs) = {}
  BY <1>1
<1>3. blocked' \in BOOLEAN
  BY DEF IInv, TypeOK
<1>4. mpc' \in Reading \cup Listing /\ cur' \in Pids \cup {NoPid} /\ fg' \in BOOLEAN
      /\ slot' \in Slots \cup {NoSlot}
  BY DEF ToPrompt, Reading
<1>5. QED
  BY <1>2, <1>3, <1>4, ToReadingIInv

(***************************************************************************)
(* do_bgfg finds no job.                                                   *)
(***************************************************************************)
LEMMA NoSuchJobIInv ==
  ASSUME IInv, NoSuchJob
  PROVE  IInv'
<1> USE DEF IInv, Main, NoSuchJob, Critical
<1>1. FGSlots(jobs) = {}
  BY DEF FGIsWaitedFor, FGSlots, Waiting
<1>2. TypeOK'
  BY DEF TypeOK
<1>3. (HandlersOnStack /\ CriticalIsBlocked /\ SlotShape /\ OneSlotPerPid)'
  BY DEF HandlersOnStack, CriticalIsBlocked, SlotShape, OneSlotPerPid
<1>4. (ForkedIsNew /\ FoundIsThere /\ WaitsForItsJob /\ ReapedIsGone)'
  BY DEF ForkedIsNew, FoundIsThere, WaitsForItsJob, ReapedIsGone
<1>5. (FGIsWaitedFor /\ NoStaleJob /\ StopIsRecorded)'
  BY <1>1 DEF FGIsWaitedFor, FGSlots, NoStaleJob, BeingReaped, StopIsRecorded
<1>6. QED
  BY <1>2, <1>3, <1>4, <1>5

(***************************************************************************)
(* What an argument of fg or bg stands for is a slot in use.               *)
(***************************************************************************)
LEMMA ArgumentsInUse ==
  ASSUME IInv, NEW i \in Arguments \ {NoSlot}
  PROVE  i \in Slots /\ jobs[i].pid \in Pids /\ jobs[i].pid # NoPid
<1>1. jobs \in [Slots -> JobType]
  BY DEF IInv, TypeOK
<1>2. CASE \E p \in Pids : i = getjobpid(jobs, p)
  BY <1>1, <1>2, GetJobPid
<1>3. CASE \E j \in 1 .. JidBound + 1 : i = getjobjid(jobs, j)
  <2>1. PICK j \in 1 .. JidBound + 1 : i = getjobjid(jobs, j)
    BY <1>3
  <2>2. j \in Nat
    BY <2>1, TshAssumption
  <2>3. i \in Slots /\ jobs[i].jid = j /\ j >= 1
    BY <1>1, <2>1, <2>2, GetJobJid
  <2>4. jobs[i].pid # NoPid
    BY <2>2, <2>3 DEF IInv, SlotShape
  <2>5. QED
    BY <1>1, <2>3, <2>4 DEF JobType
<1>4. QED
  BY <1>2, <1>3 DEF Arguments

(***************************************************************************)
(* do_bgfg finds its job: afterwards the child is not reported stopped,    *)
(* because a job that was ST has been continued.                           *)
(***************************************************************************)
LEMMA LookupJobIInv ==
  ASSUME IInv, LookupJob
  PROVE  IInv'
<1> USE DEF IInv, Main, LookupJob, Critical
<1>1. hpc["CHLD"] = "idle"
  BY HandlersIdle DEF Sigs
<1>2. FGSlots(jobs) = {}
  BY DEF FGIsWaitedFor, FGSlots, Waiting
<1>3. PICK i \in Arguments \ {NoSlot} :
        /\ slot' = i
        /\ cur' = jobs[i].pid
        /\ IF jobs[i].state = "ST" THEN Continue(jobs[i].pid) ELSE UNCHANGED <<proc, pending>>
  OBVIOUS
<1>4. i \in Slots /\ jobs[i].pid \in Pids /\ jobs[i].pid # NoPid /\ i # NoSlot
  BY ArgumentsInUse
<1>5. TypeOK'
  BY <1>3, <1>4 DEF TypeOK, Continue, Sigs, ProcStates
<1>6. /\ \A q \in Pids : proc'[q] = "none" <=> proc[q] = "none"
      /\ \A q \in Pids : proc'[q] = "reported" => proc[q] = "reported"
  BY <1>3, <1>4 DEF TypeOK, Continue, Suspended
<1>7. proc'[cur'] # "reported"
  <2>1. CASE jobs[i].state = "ST"
    BY <1>3, <1>4, <2>1 DEF TypeOK, Continue, Suspended
  <2>2. CASE jobs[i].state # "ST"
    BY <1>1, <1>3, <1>4, <2>2 DEF StopIsRecorded
  <2>3. QED
    BY <2>1, <2>2
<1>8. FoundIsThere'
  BY <1>3, <1>4, <1>7 DEF FoundIsThere
<1>9. (HandlersOnStack /\ CriticalIsBlocked /\ SlotShape /\ OneSlotPerPid)'
  BY <1>1 DEF HandlersOnStack, CriticalIsBlocked, SlotShape, OneSlotPerPid
<1>10. (ForkedIsNew /\ WaitsForItsJob /\ ReapedIsGone)'
  BY <1>1 DEF ForkedIsNew, WaitsForItsJob, ReapedIsGone, Zombies
<1>11. (FGIsWaitedFor /\ NoStaleJob /\ StopIsRecorded)'
  BY <1>2, <1>6 DEF TypeOK, JobType, FGIsWaitedFor, FGSlots, NoStaleJob, BeingReaped,
                    StopIsRecorded
<1>12. QED
  BY <1>5, <1>8, <1>9, <1>10, <1>11

(***************************************************************************)
(* do_bgfg writes the new state into the slot it found, which still holds  *)
(* its job.                                                                *)
(***************************************************************************)
LEMMA SetStateIInv ==
  ASSUME IInv, SetState
  PROVE  IInv'
<1> USE DEF IInv, Main, SetState, Critical
<1> DEFINE st == IF fg THEN "FG" ELSE "BG"
<1>1. hpc["CHLD"] = "idle"
  BY HandlersIdle DEF Sigs
<1>2. FGSlots(jobs) = {}
  BY DEF FGIsWaitedFor, FGSlots, Waiting
<1>3. slot \in Slots /\ cur # NoPid /\ jobs[slot].pid = cur /\ proc[cur] # "reported"
  BY DEF FoundIsThere, TypeOK
<1>4. /\ jobs' \in [Slots -> JobType]
      /\ \A k \in Slots : jobs'[k].pid = jobs[k].pid /\ jobs'[k].jid = jobs[k].jid
      /\ \A k \in Slots \ {slot} : jobs'[k] = jobs[k]
      /\ jobs'[slot].state = st
  BY <1>3 DEF TypeOK, JobType, States
<1>5. TypeOK'
  BY <1>4 DEF TypeOK
<1>6. (HandlersOnStack /\ CriticalIsBlocked)'
  BY DEF HandlersOnStack, CriticalIsBlocked
<1>7. (SlotShape /\ OneSlotPerPid)'
  BY <1>3, <1>4 DEF SlotShape, OneSlotPerPid
<1>8. (ForkedIsNew /\ FoundIsThere /\ WaitsForItsJob /\ ReapedIsGone)'
  BY DEF ForkedIsNew, FoundIsThere, WaitsForItsJob, ReapedIsGone
<1>9. FGIsWaitedFor'
  BY <1>2, <1>3, <1>4 DEF FGIsWaitedFor, FGSlots
<1>10. (NoStaleJob /\ StopIsRecorded)'
  BY <1>3, <1>4 DEF NoStaleJob, BeingReaped, StopIsRecorded
<1>11. QED
  BY <1>5, <1>6, <1>7, <1>8, <1>9, <1>10

----------------------------------------------------------------------------
(***************************************************************************)
(* The delivery of a signal starts a handler; that of SIGCHLD only outside *)
(* the critical sections.                                                  *)
(***************************************************************************)
LEMMA DeliverIInv ==
  ASSUME IInv, NEW s \in Sigs, Deliver(s)
  PROVE  IInv'
<1> USE DEF IInv, Deliver, Enter
<1>1. stack' \in Seq(Sigs) /\ hpc' \in [Sigs -> HandlerPCs]
  BY PushHandler DEF TypeOK, HandlerPCs
<1>2. TypeOK'
  BY <1>1 DEF TypeOK
<1>3. HandlersOnStack'
  <2>1. ASSUME NEW t \in Sigs, hpc'[t] # "idle"
        PROVE  \E i \in 1 .. Len(stack') : stack'[i] = t
    <3>1. CASE t = s
      BY <3>1, PushHandler DEF TypeOK
    <3>2. CASE t # s
      <4>1. PICK i \in 1 .. Len(stack) : stack[i] = t
        BY <2>1, <3>2 DEF HandlersOnStack, TypeOK
      <4>2. i + 1 \in 1 .. Len(stack') /\ stack'[i + 1] = t
        BY <4>1, PushHandler DEF TypeOK
      <4>3. QED
        BY <4>2
    <3>3. QED
      BY <3>1, <3>2
  <2>2. QED
    BY <2>1 DEF HandlersOnStack
<1>4. (CriticalIsBlocked /\ SlotShape /\ OneSlotPerPid)'
  BY DEF TypeOK, CriticalIsBlocked, SlotShape, OneSlotPerPid, Sigs
<1>5. \/ hpc'["CHLD"] = hpc["CHLD"]
      \/ hpc["CHLD"] = "idle" /\ hpc'["CHLD"] = "wait"
  BY DEF TypeOK, Sigs
<1>6. (ForkedIsNew /\ FoundIsThere /\ WaitsForItsJob /\ ReapedIsGone)'
  BY <1>5 DEF ForkedIsNew, FoundIsThere, WaitsForItsJob, ReapedIsGone, Zombies
<1>7. (FGIsWaitedFor /\ NoStaleJob /\ StopIsRecorded)'
  BY <1>5 DEF FGIsWaitedFor, FGSlots, NoStaleJob, BeingReaped, StopIsRecorded, Zombies
<1>8. QED
  BY <1>2, <1>3, <1>4, <1>6, <1>7

(***************************************************************************)
(* waitpid: the child it removes is marked as being reaped, the stop it    *)
(* reports as being recorded, and both until the next step of the handler. *)
(***************************************************************************)
LEMMA ChldWaitIInv ==
  ASSUME IInv, ChldWait
  PROVE  IInv'
<1> USE DEF IInv, ChldWait, Handler
<1>1. PICK p \in Pids :
        /\ proc[p] \in Zombies \cup {"stopped"}
        /\ proc' = [proc EXCEPT ![p] = IF @ = "stopped" THEN "reported" ELSE "none"]
        /\ hpc' = [hpc EXCEPT !["CHLD"] = proc[p]]
        /\ hpid' = [hpid EXCEPT !["CHLD"] = p]
  OBVIOUS
<1>2. "CHLD" \in Sigs
  BY DEF Sigs
<1>3. TypeOK'
  BY <1>1, <1>2 DEF TypeOK, HandlerPCs, ProcStates, Zombies, Suspended
<1>4. /\ hpc'["CHLD"] = proc[p] /\ hpid'["CHLD"] = p
      /\ proc[p] \in {"exited", "killed", "stopped"}
      /\ proc'[p] = IF proc[p] = "stopped" THEN "reported" ELSE "none"
      /\ \A q \in Pids \ {p} : proc'[q] = proc[q]
  BY <1>1, <1>2 DEF TypeOK, Zombies
<1>5. mpc \notin Critical
  BY DEF CriticalIsBlocked
<1>6. HandlersOnStack'
  BY <1>1, <1>2 DEF HandlersOnStack, TypeOK
<1>7. (CriticalIsBlocked /\ SlotShape /\ OneSlotPerPid)'
  BY <1>5 DEF CriticalIsBlocked, SlotShape, OneSlotPerPid
<1>8. (ForkedIsNew /\ FoundIsThere /\ WaitsForItsJob)'
  BY <1>5 DEF ForkedIsNew, FoundIsThere, WaitsForItsJob, Critical
<1>9. ReapedIsGone'
  BY <1>4 DEF ReapedIsGone, Zombies
<1>10. FGIsWaitedFor'
  BY DEF FGIsWaitedFor, FGSlots
<1>11. \A i \in Slots : jobs[i].pid # NoPid => jobs[i].pid \in Pids
  BY DEF TypeOK, JobType
<1>12. NoStaleJob'
  BY <1>4, <1>11 DEF NoStaleJob, BeingReaped, Zombies
<1>13. StopIsRecorded'
  BY <1>4, <1>11 DEF StopIsRecorded
<1>14. QED
  BY <1>3, <1>6, <1>7, <1>8, <1>9, <1>10, <1>12, <1>13

(***************************************************************************)
(* A handler returns: what its locals held no longer matters.              *)
(***************************************************************************)
LEMMA ReturnStack ==
  ASSUME IInv, NEW s \in Sigs, stack # <<>>, Head(stack) = s, Return(s)
  PROVE  /\ stack' \in Seq(Sigs)
         /\ hpc' \in [Sigs -> HandlerPCs] /\ hpid' \in [Sigs -> Pids \cup {NoPid}]
         /\ HandlersOnStack'
<1> USE DEF IInv, Return
<1>1. stack' \in Seq(Sigs) /\ hpc' \in [Sigs -> HandlerPCs]
      /\ hpid' \in [Sigs -> Pids \cup {NoPid}]
  BY PopHandler DEF TypeOK, HandlerPCs
<1>2. ASSUME NEW t \in Sigs, hpc'[t] # "idle"
      PROVE  \E i \in 1 .. Len(stack') : stack'[i] = t
  <2>1. t # s /\ hpc[t] # "idle"
    BY <1>2 DEF TypeOK
  <2>2. PICK i \in 1 .. Len(stack) : stack[i] = t
    BY <2>1 DEF HandlersOnStack
  <2>3. QED
    BY <2>1, <2>2, PopHandler DEF TypeOK
<1>3. QED
  BY <1>1, <1>2 DEF HandlersOnStack

(***************************************************************************)
(* The SIGCHLD handler returns when no child is left to report.            *)
(***************************************************************************)
LEMMA ChldReturnIInv ==
  ASSUME IInv, ChldReturn
  PROVE  IInv'
<1> USE DEF IInv, ChldReturn, Handler
<1>1. "CHLD" \in Sigs
  BY DEF Sigs
<1>2. /\ stack' \in Seq(Sigs)
      /\ hpc' \in [Sigs -> HandlerPCs] /\ hpid' \in [Sigs -> Pids \cup {NoPid}]
      /\ HandlersOnStack'
  BY <1>1, ReturnStack
<1>3. TypeOK'
  BY <1>2 DEF TypeOK
<1>4. hpc["CHLD"] = "wait" /\ hpc'["CHLD"] = "idle"
  BY <1>1 DEF Return, TypeOK
<1>5. (CriticalIsBlocked /\ SlotShape /\ OneSlotPerPid)'
  BY <1>4 DEF CriticalIsBlocked, SlotShape, OneSlotPerPid
<1>6. (ForkedIsNew /\ FoundIsThere /\ WaitsForItsJob /\ ReapedIsGone)'
  BY <1>4 DEF ForkedIsNew, FoundIsThere, WaitsForItsJob, ReapedIsGone, Zombies
<1>7. (FGIsWaitedFor /\ NoStaleJob /\ StopIsRecorded)'
  BY <1>4 DEF FGIsWaitedFor, FGSlots, NoStaleJob, BeingReaped, StopIsRecorded, Zombies
<1>8. QED
  BY <1>2, <1>3, <1>5, <1>6, <1>7

(***************************************************************************)
(* The job of a child that ended is deleted: it was the only slot with the *)
(* pid that waitpid removed.                                               *)
(***************************************************************************)
LEMMA ChldDeleteIInv ==
  ASSUME IInv, ChldDelete
  PROVE  IInv'
<1> USE DEF IInv, ChldDelete, Handler, NextChild
<1> DEFINE p == hpid["CHLD"]
<1>1. /\ hpc["CHLD"] \in Zombies /\ p \in Pids /\ proc[p] = "none"
      /\ hpc'["CHLD"] = "wait"
  BY DEF TypeOK, ReapedIsGone, Zombies, Sigs
<1>2. mpc \notin Critical
  BY <1>1 DEF CriticalIsBlocked, Zombies
<1>3. /\ jobs' \in [Slots -> JobType]
      /\ nextjid' \in Nat
      /\ \/ jobs' = jobs /\ (p # NoPid => \A i \in Slots : jobs[i].pid # p)
         \/ \E i \in Slots : jobs[i].pid = p /\ jobs' = [jobs EXCEPT ![i] = clearjob]
  <2>1. /\ jobs \in [Slots -> JobType] /\ nextjid \in Nat /\ p \in Pids \cup {NoPid}
        /\ jobs' = deletejob(jobs, p) /\ nextjid' = deletejobNextjid(jobs, nextjid, p)
    BY <1>1 DEF TypeOK
  <2> HIDE DEF p
  <2>2. /\ deletejob(jobs, p) \in [Slots -> JobType]
        /\ deletejobNextjid(jobs, nextjid, p) \in Nat
        /\ \/ /\ deletejob(jobs, p) = jobs
              /\ p # NoPid => \A i \in Slots : jobs[i].pid # p
           \/ \E i \in Slots : /\ jobs[i].pid = p
                               /\ deletejob(jobs, p) = [jobs EXCEPT ![i] = clearjob]
    BY <2>1, DeleteJobClears
  <2>3. QED
    BY <2>1, <2>2
<1>4. \A i \in Slots : \/ jobs'[i] = jobs[i] /\ jobs[i].pid # p
                       \/ /\ jobs[i].pid = p
                          /\ jobs'[i] = [pid |-> NoPid, jid |-> 0, state |-> "UNDEF"]
  <2>1. p # NoPid
    BY <1>1, JobTableAssumption
  <2>2. QED
    BY <1>3, <2>1 DEF OneSlotPerPid, TypeOK, clearjob, Job
<1>5. TypeOK'
  BY <1>3 DEF TypeOK, HandlerPCs, Sigs
<1>6. (HandlersOnStack /\ CriticalIsBlocked)'
  BY <1>1, <1>2 DEF HandlersOnStack, CriticalIsBlocked, TypeOK, Sigs, Zombies
<1>7. (SlotShape /\ OneSlotPerPid)'
  BY <1>4 DEF SlotShape, OneSlotPerPid
<1>8. (ForkedIsNew /\ FoundIsThere /\ WaitsForItsJob /\ ReapedIsGone)'
  BY <1>1, <1>2, <1>4
     DEF ForkedIsNew, FoundIsThere, WaitsForItsJob, ReapedIsGone, Critical, Zombies
<1>9. FGIsWaitedFor'
  BY <1>4 DEF FGIsWaitedFor, FGSlots
<1>10. NoStaleJob'
  BY <1>4 DEF NoStaleJob, BeingReaped
<1>11. StopIsRecorded'
  BY <1>1, <1>4 DEF StopIsRecorded, Zombies
<1>12. QED
  BY <1>5, <1>6, <1>7, <1>8, <1>9, <1>10, <1>11

(***************************************************************************)
(* The job of a child whose stop waitpid reported becomes ST.              *)
(***************************************************************************)
LEMMA ChldStopIInv ==
  ASSUME IInv, ChldStop
  PROVE  IInv'
<1> USE DEF IInv, ChldStop, Handler, NextChild
<1> DEFINE p == hpid["CHLD"]
           j == getjobpid(jobs, p)
<1>1. hpc["CHLD"] = "stopped" /\ p \in Pids /\ hpc'["CHLD"] = "wait"
  BY DEF TypeOK, ReapedIsGone, Sigs
<1>2. mpc \notin Critical
  BY <1>1 DEF CriticalIsBlocked
<1>3. j \in Slots /\ jobs[j].pid = p /\ p # NoPid
  BY <1>1, GetJobPid DEF TypeOK
<1>4. /\ jobs' \in [Slots -> JobType]
      /\ \A k \in Slots : jobs'[k].pid = jobs[k].pid /\ jobs'[k].jid = jobs[k].jid
      /\ \A k \in Slots \ {j} : jobs'[k] = jobs[k]
      /\ jobs'[j].state = "ST"
  <2>1. jobs' = [jobs EXCEPT ![j].state = "ST"]
    OBVIOUS
  <2>2. QED
    <3>1. jobs \in [Slots -> JobType] /\ j \in Slots
      BY <1>3 DEF TypeOK
    <3> HIDE DEF j, IInv, ChldStop
    <3> QED BY <2>1, <3>1 DEF JobType, States
<1> HIDE DEF j
<1>5. TypeOK'
  BY <1>4 DEF TypeOK, HandlerPCs, Sigs
<1>6. (HandlersOnStack /\ CriticalIsBlocked)'
  BY <1>1, <1>2 DEF HandlersOnStack, CriticalIsBlocked, TypeOK, Sigs
<1>7. (SlotShape /\ OneSlotPerPid)'
  <2>1. SlotShape'
    <3>1. ASSUME NEW k \in Slots
          PROVE  /\ jobs'[k].pid = NoPid <=> jobs'[k].state = "UNDEF"
                 /\ jobs'[k].pid = NoPid => jobs'[k].jid = 0
      <4>1. CASE k = j
        BY <1>3, <1>4, <4>1
      <4>2. CASE k # j
        BY <1>4, <4>2 DEF SlotShape
      <4>3. QED
        BY <4>1, <4>2
    <3>2. QED
      BY <3>1 DEF SlotShape
  <2>2. OneSlotPerPid'
    BY <1>4 DEF OneSlotPerPid
  <2>3. QED
    BY <2>1, <2>2
<1>8. (ForkedIsNew /\ FoundIsThere /\ WaitsForItsJob /\ ReapedIsGone)'
  BY <1>1, <1>2, <1>4
     DEF ForkedIsNew, FoundIsThere, WaitsForItsJob, ReapedIsGone, Critical, Zombies
<1>9. FGIsWaitedFor'
  BY <1>4 DEF FGIsWaitedFor, FGSlots
<1>10. NoStaleJob'
  BY <1>1, <1>4 DEF NoStaleJob, BeingReaped, Zombies
<1>11. StopIsRecorded'
  <2>1. \A i \in Slots : jobs[i].pid = p => i = j
    BY <1>3 DEF OneSlotPerPid
  <2>2. QED
    BY <1>1, <1>3, <1>4, <2>1 DEF StopIsRecorded
<1>12. QED
  BY <1>5, <1>6, <1>7, <1>8, <1>9, <1>10, <1>11

(***************************************************************************)
(* The SIGINT and SIGTSTP handlers read the list, and write nothing but    *)
(* their own locals.                                                       *)
(***************************************************************************)
LEMMA SampleIInv ==
  ASSUME IInv, NEW s \in {"INT", "TSTP"}, Sample(s)
  PROVE  IInv'
<1> USE DEF IInv, Sample, Handler
<1>1. s \in Sigs /\ s # "CHLD" /\ "CHLD" \in Sigs
  BY DEF Sigs
<1>2. /\ stack' \in Seq(Sigs)
      /\ hpc' \in [Sigs -> HandlerPCs] /\ hpid' \in [Sigs -> Pids \cup {NoPid}]
      /\ HandlersOnStack'
  <2>1. CASE fgpid(jobs) = NoPid
    BY <1>1, <2>1, ReturnStack
  <2>2. CASE fgpid(jobs) # NoPid
    <3>1. fgpid(jobs) \in Pids
      BY <2>2, FgPid DEF TypeOK
    <3>2. QED
      BY <1>1, <2>2, <3>1 DEF TypeOK, HandlerPCs, HandlersOnStack
  <2>3. QED
    BY <2>1, <2>2
<1>3. hpc'["CHLD"] = hpc["CHLD"] /\ hpid'["CHLD"] = hpid["CHLD"]
  BY <1>1 DEF Return, TypeOK
<1>4. TypeOK'
  BY <1>2 DEF TypeOK
<1>5. (CriticalIsBlocked /\ SlotShape /\ OneSlotPerPid)'
  BY <1>3 DEF CriticalIsBlocked, SlotShape, OneSlotPerPid
<1>6. (ForkedIsNew /\ FoundIsThere /\ WaitsForItsJob /\ ReapedIsGone)'
  BY <1>3 DEF ForkedIsNew, FoundIsThere, WaitsForItsJob, ReapedIsGone
<1>7. (FGIsWaitedFor /\ NoStaleJob /\ StopIsRecorded)'
  BY <1>3 DEF FGIsWaitedFor, FGSlots, NoStaleJob, BeingReaped, StopIsRecorded
<1>8. QED
  BY <1>2, <1>4, <1>5, <1>6, <1>7

(***************************************************************************)
(* A forwarded signal may end or stop its child, but does not reap it.     *)
(***************************************************************************)
LEMMA KillFgIInv ==
  ASSUME IInv, NEW s \in {"INT", "TSTP"}, KillFg(s)
  PROVE  IInv'
<1> USE DEF IInv, KillFg, Handler
<1>1. s \in Sigs /\ s # "CHLD" /\ "CHLD" \in Sigs
  BY DEF Sigs
<1>2. /\ stack' \in Seq(Sigs)
      /\ hpc' \in [Sigs -> HandlerPCs] /\ hpid' \in [Sigs -> Pids \cup {NoPid}]
      /\ HandlersOnStack'
  BY <1>1, ReturnStack
<1>3. hpc'["CHLD"] = hpc["CHLD"] /\ hpid'["CHLD"] = hpid["CHLD"]
  BY <1>1 DEF Return, TypeOK
<1>4. /\ proc' \in [Pids -> ProcStates] /\ pending' \in SUBSET Sigs
      /\ \A q \in Pids : proc'[q] = "none" <=> proc[q] = "none"
      /\ \A q \in Pids : proc'[q] = "reported" => proc[q] = "reported"
  BY <1>1 DEF TypeOK, ProcStates, Zombies, Suspended
<1>5. TypeOK'
  BY <1>2, <1>4 DEF TypeOK
<1>6. (CriticalIsBlocked /\ SlotShape /\ OneSlotPerPid)'
  BY <1>3 DEF CriticalIsBlocked, SlotShape, OneSlotPerPid
<1>7. (ForkedIsNew /\ FoundIsThere /\ WaitsForItsJob /\ ReapedIsGone)'
  BY <1>3, <1>4 DEF TypeOK, ForkedIsNew, FoundIsThere, WaitsForItsJob, ReapedIsGone
<1>8. (FGIsWaitedFor /\ NoStaleJob /\ StopIsRecorded)'
  BY <1>3, <1>4 DEF TypeOK, JobType, FGIsWaitedFor, FGSlots, NoStaleJob, BeingReaped,
                    StopIsRecorded
<1>9. QED
  BY <1>2, <1>5, <1>6, <1>7, <1>8

----------------------------------------------------------------------------
(***************************************************************************)
(* Every step of the shell, its handlers, its children and the terminal    *)
(* preserves the invariant.                                                *)
(***************************************************************************)
LEMMA NextIInv == IInv /\ [Next]_vars => IInv'
<1> SUFFICES ASSUME IInv, [Next]_vars PROVE IInv'
  OBVIOUS
<1>1. CASE UNCHANGED vars
  <2>1. shell' \in {"up", "exited", "error", "segv"}
    BY <1>1 DEF IInv, TypeOK, vars
  <2>2. QED
    BY <1>1, <2>1, EndIInv DEF vars
<1>2. CASE ReadCommand
  <2>1. CASE Quit
    BY <2>1, EndIInv DEF Quit
  <2>2. QED
    BY <1>2, <2>1, CommandIInv, ListingIInv DEF ReadCommand
<1>3. CASE MainStep
  BY <1>3, ForkIInv, AddJobIInv, UnblockIInv, WaitFgLookupIInv, WaitFgReturnIInv,
     NoSuchJobIInv, LookupJobIInv, SetStateIInv, ListingIInv DEF MainStep
<1>4. CASE SigQuit
  BY <1>4, EndIInv DEF SigQuit
<1>5. CASE \E s \in Sigs : Deliver(s)
  BY <1>5, DeliverIInv
<1>6. CASE HandlerStep
  <2>1. CASE ChldNullJob
    BY <2>1, EndIInv DEF ChldNullJob
  <2>2. CASE \E s \in {"INT", "TSTP"} : KillFgFails(s)
    BY <2>2, EndIInv DEF KillFgFails
  <2>3. QED
    BY <1>6, <2>1, <2>2, ChldWaitIInv, ChldReturnIInv, ChldDeleteIInv, ChldStopIInv,
       SampleIInv, KillFgIInv DEF HandlerStep
<1>7. CASE ChildStep
  <2> USE DEF ProcStates, Suspended, Zombies, Sigs
  <2>1. PICK p \in Pids : \/ ChildSetpgid(p) \/ ChildExec(p) \/ ChildExecFails(p)
                          \/ ProcExit(p) \/ ProcKilled(p)
    BY <1>7 DEF ChildStep
  <2>2. CASE ChildSetpgid(p)
    BY <2>2, ProcStepIInv DEF ChildSetpgid
  <2>3. CASE ChildExec(p)
    BY <2>3, ProcStepIInv DEF ChildExec
  <2>4. CASE ChildExecFails(p)
    BY <2>4, ProcStepIInv DEF ChildExecFails
  <2>5. CASE ProcExit(p)
    BY <2>5, ProcStepIInv DEF ProcExit
  <2>6. CASE ProcKilled(p)
    BY <2>6, ProcStepIInv DEF ProcKilled
  <2>7. QED
    BY <2>1, <2>2, <2>3, <2>4, <2>5, <2>6
<1>8. CASE Noise
  <2>1. ASSUME NEW s \in Keys, Keystroke(s)
        PROVE  IInv'
    <3>1. TypeOK'
      BY <2>1, TshAssumption DEF IInv, TypeOK, Keystroke, Sigs
    <3>2. QED
      BY <2>1, <3>1
         DEF IInv, Keystroke, HandlersOnStack, CriticalIsBlocked, SlotShape, OneSlotPerPid,
             ForkedIsNew, FoundIsThere, WaitsForItsJob, ReapedIsGone, FGIsWaitedFor,
             FGSlots, NoStaleJob, BeingReaped, StopIsRecorded
  <2>2. ASSUME NEW p \in Pids, ProcStop(p)
        PROVE  IInv'
    BY <2>2, ProcStepIInv DEF ProcStop, ProcStates, Suspended, Zombies, Sigs
  <2>3. ASSUME NEW p \in Pids, ProcCont(p)
        PROVE  IInv'
    BY <2>3, ProcStepIInv DEF ProcCont, ProcStates, Suspended, Zombies, Sigs
  <2>4. QED
    BY <1>8, <2>1, <2>2, <2>3 DEF Noise
<1>9. CASE Ended
  BY <1>1, <1>9 DEF Ended
<1>10. QED
  BY <1>1, <1>2, <1>3, <1>4, <1>5, <1>6, <1>7, <1>8, <1>9 DEF Next

(***************************************************************************)
(* The invariant holds in every reachable state.                           *)
(***************************************************************************)
THEOREM Inductive == Spec => []IInv
BY InitIInv, NextIInv, PTL DEF Spec

(***************************************************************************)
(* Type correctness of the shell.                                          *)
(***************************************************************************)
THEOREM TypeCorrect == Spec => []TypeOK
<1>1. IInv => TypeOK
  BY DEF IInv
<1>2. QED
  BY <1>1, Inductive, PTL

(***************************************************************************)
(* A job that is in the foreground is one the shell waits for: never at    *)
(* the prompt, whatever signals arrived.                                   *)
(***************************************************************************)
THEOREM ForegroundIsWaitedFor == Spec => []FGIsWaitedFor
<1>1. IInv => FGIsWaitedFor
  BY DEF IInv
<1>2. QED
  BY <1>1, Inductive, PTL

(***************************************************************************)
(* "At most 1 job can be in the FG state": two foreground slots would hold *)
(* the pid the shell waits for, and a pid has one slot.                    *)
(***************************************************************************)
THEOREM OneForegroundJob == Spec => []AtMostOneFG
<1>1. IInv => AtMostOneFG
  <2> SUFFICES ASSUME IInv, NEW i \in FGSlots(jobs), NEW k \in FGSlots(jobs)
               PROVE  i = k
    BY DEF AtMostOneFG
  <2>1. /\ i \in Slots /\ jobs[i].state = "FG" /\ jobs[i].pid = cur
        /\ k \in Slots /\ jobs[k].state = "FG" /\ jobs[k].pid = cur
    BY DEF IInv, FGIsWaitedFor, FGSlots
  <2>2. jobs[i].pid # NoPid
    BY <2>1 DEF IInv, SlotShape
  <2>3. QED
    BY <2>1, <2>2 DEF IInv, OneSlotPerPid
<1>2. QED
  BY <1>1, Inductive, PTL

(***************************************************************************)
(* No job outlives its child: blocking SIGCHLD around fork and addjob is   *)
(* enough.                                                                 *)
(***************************************************************************)
THEOREM JobsAreLive == Spec => []NoStaleJob
<1>1. IInv => NoStaleJob
  BY DEF IInv
<1>2. QED
  BY <1>1, Inductive, PTL

(***************************************************************************)
(* No stop is lost or overwritten.                                         *)
(***************************************************************************)
THEOREM StopsAreRecorded == Spec => []StopIsRecorded
<1>1. IInv => StopIsRecorded
  BY DEF IInv
<1>2. QED
  BY <1>1, Inductive, PTL

----------------------------------------------------------------------------
(***************************************************************************)
(* The job state of a process is that of the slot it has.                  *)
(***************************************************************************)
LEMMA JobStateOfSlot ==
  ASSUME IInv, NEW i \in Slots, jobs[i].pid # NoPid
  PROVE  JobState(jobs[i].pid) = jobs[i].state
<1> DEFINE p == jobs[i].pid
<1>1. \A k \in Slots : k = i <=> jobs[k].pid = p
  BY DEF IInv, OneSlotPerPid
<1>2. (CHOOSE k \in Slots : jobs[k].pid = p) = i
  BY <1>1
<1>3. QED
  BY <1>1, <1>2 DEF JobState

(***************************************************************************)
(* Without a foreground slot no process has the state FG.                  *)
(***************************************************************************)
LEMMA NoForegroundState ==
  ASSUME IInv, FGSlots(jobs) = {}, NEW p \in Pids
  PROVE  JobState(p) # "FG"
<1>1. CASE \E i \in Slots : jobs[i].pid = p
  <2>1. PICK i \in Slots : jobs[i].pid = p
    BY <1>1
  <2>2. JobState(p) = jobs[i].state
    BY <2>1, JobStateOfSlot, JobTableAssumption
  <2>3. QED
    BY <2>1, <2>2 DEF FGSlots
<1>2. CASE ~\E i \in Slots : jobs[i].pid = p
  BY <1>2 DEF JobState
<1>3. QED
  BY <1>1, <1>2

(***************************************************************************)
(* A step that leaves the list alone, and stays at the prompt or stays     *)
(* away from it, is invisible.                                             *)
(***************************************************************************)
LEMMA Invisible ==
  ASSUME UNCHANGED jobs, (mpc = "prompt") <=> (mpc' = "prompt")
  PROVE  UNCHANGED JC!jcvars
BY DEF JC!jcvars, JobState

(***************************************************************************)
(* Reading a command is Accept.                                            *)
(***************************************************************************)
LEMMA AcceptStep ==
  ASSUME UNCHANGED jobs, mpc = "prompt", mpc' # "prompt"
  PROVE  JC!Accept
BY DEF JC!Accept, JobState

(***************************************************************************)
(* Returning to the prompt without a foreground job is Prompt.             *)
(***************************************************************************)
LEMMA PromptStep ==
  ASSUME IInv, FGSlots(jobs) = {}, UNCHANGED jobs, mpc # "prompt", mpc' = "prompt"
  PROVE  JC!Prompt
<1>1. \A p \in Pids : JobState(p) # "FG"
  BY NoForegroundState
<1>2. QED
  BY <1>1 DEF JC!Prompt, JC!NoForeground, JobState

(***************************************************************************)
(* A step that rewrites one slot changes the job state of the pid it held, *)
(* or now holds, and of no other.                                          *)
(***************************************************************************)
LEMMA SlotStep ==
  ASSUME IInv, IInv', NEW i \in Slots, NEW p \in Pids,
         \A k \in Slots \ {i} : jobs'[k] = jobs[k],
         jobs[i].pid \in {p, NoPid}, jobs'[i].pid \in {p, NoPid}
  PROVE  /\ \A q \in Pids \ {p} : JobState(q)' = JobState(q)
         /\ jobs[i].pid = p => JobState(p) = jobs[i].state
         /\ jobs'[i].pid = p => JobState(p)' = jobs'[i].state
         /\ jobs[i].pid # p /\ jobs'[i].pid = p => JobState(p) = "UNDEF"
         /\ jobs[i].pid = p /\ jobs'[i].pid # p => JobState(p)' = "UNDEF"
<1>1. p # NoPid
  BY JobTableAssumption
<1>2. ASSUME NEW q \in Pids \ {p}
      PROVE  JobState(q)' = JobState(q)
  <2>1. q # NoPid
    BY JobTableAssumption
  <2>2. CASE \E k \in Slots : jobs[k].pid = q
    <3>1. PICK k \in Slots : jobs[k].pid = q
      BY <2>2
    <3>2. k # i /\ jobs'[k] = jobs[k]
      BY <2>1, <3>1
    <3>3. JobState(q) = jobs[k].state
      BY <2>1, <3>1, JobStateOfSlot
    <3>4. JobState(q)' = jobs'[k].state
      <4>1. jobs'[k].pid = q
        BY <3>1, <3>2
      <4>2. \A l \in Slots : l = k <=> jobs'[l].pid = q
        BY <2>1, <4>1 DEF IInv, OneSlotPerPid
      <4>3. (CHOOSE l \in Slots : jobs'[l].pid = q) = k
        BY <4>2
      <4>4. QED
        BY <4>1, <4>3 DEF JobState
    <3>5. QED
      BY <3>2, <3>3, <3>4
  <2>3. CASE ~\E k \in Slots : jobs[k].pid = q
    <3>1. ~\E k \in Slots : jobs'[k].pid = q
      BY <2>1, <2>3
    <3>2. QED
      BY <2>3, <3>1 DEF JobState
  <2>4. QED
    BY <2>2, <2>3
<1>3. jobs[i].pid = p => JobState(p) = jobs[i].state
  BY <1>1, JobStateOfSlot
<1>4. jobs'[i].pid = p => JobState(p)' = jobs'[i].state
  <2>1. ASSUME jobs'[i].pid = p
        PROVE  JobState(p)' = jobs'[i].state
    <3>1. \A l \in Slots : l = i <=> jobs'[l].pid = p
      BY <1>1, <2>1 DEF IInv, OneSlotPerPid
    <3>2. (CHOOSE l \in Slots : jobs'[l].pid = p) = i
      BY <3>1
    <3>3. QED
      BY <2>1, <3>2 DEF JobState
  <2>2. QED
    BY <2>1
<1>5. ASSUME jobs[i].pid # p, jobs'[i].pid = p
      PROVE  JobState(p) = "UNDEF"
  <2>1. ~\E k \in Slots : jobs[k].pid = p
    BY <1>1, <1>5 DEF IInv, OneSlotPerPid
  <2>2. QED
    BY <2>1 DEF JobState
<1>6. ASSUME jobs[i].pid = p, jobs'[i].pid # p
      PROVE  JobState(p)' = "UNDEF"
  <2>1. ~\E k \in Slots : jobs'[k].pid = p
    BY <1>1, <1>6 DEF IInv, OneSlotPerPid
  <2>2. QED
    BY <2>1 DEF JobState
<1>7. QED
  BY <1>2, <1>3, <1>4, <1>5, <1>6

(***************************************************************************)
(* What AddJob does to the list, with the pid and state it adds as         *)
(* constants.                                                              *)
(***************************************************************************)
LEMMA AddJobCases ==
  ASSUME IInv, AddJob
  PROVE  \/ jobs' = jobs
         \/ \E i \in Slots, p \in Pids, st \in {"FG", "BG"} :
              /\ jobs[i].pid = NoPid /\ jobs'[i].pid = p /\ jobs'[i].state = st
              /\ \A k \in Slots \ {i} : jobs'[k] = jobs[k]
              /\ \A k \in Slots : jobs[k].pid # p
<1> DEFINE new == IF fg THEN "FG" ELSE "BG"
<1>1. /\ jobs \in [Slots -> JobType] /\ nextjid \in Nat /\ cur \in Pids \cup {NoPid}
      /\ new \in States /\ new \in {"FG", "BG"} /\ jobs' = addjob(jobs, nextjid, cur, new)
  BY DEF IInv, TypeOK, States, AddJob
<1>2. cur # NoPid => \A k \in Slots : jobs[k].pid # cur
  BY DEF IInv, ForkedIsNew, AddJob, Main
<1> HIDE DEF new
<1>3. /\ addjob(jobs, nextjid, cur, new) \in [Slots -> JobType]
      /\ addjobNextjid(jobs, nextjid, cur) \in Nat
      /\ \/ addjob(jobs, nextjid, cur, new) = jobs
         \/ /\ cur # NoPid
            /\ \E i \in Slots :
                 /\ jobs[i].pid = NoPid
                 /\ addjob(jobs, nextjid, cur, new)
                      = [jobs EXCEPT ![i] = Job(cur, nextjid, new)]
  BY <1>1, AddJobWrites
<1>4. ASSUME NEW i \in Slots, jobs[i].pid = NoPid, cur # NoPid,
             jobs' = [jobs EXCEPT ![i] = Job(cur, nextjid, new)]
      PROVE  /\ jobs'[i].pid = cur /\ jobs'[i].state = new
             /\ \A k \in Slots \ {i} : jobs'[k] = jobs[k]
  BY <1>1, <1>4 DEF Job
<1>5. QED
  BY <1>1, <1>2, <1>3, <1>4

(***************************************************************************)
(* addjob is Launch, or changes nothing when the list is full.             *)
(***************************************************************************)
LEMMA AddJobRefines ==
  ASSUME IInv, IInv', AddJob
  PROVE  [JC!JCNext]_JC!jcvars
<1>1. mpc = "addjob" /\ mpc' = "unblock"
  BY DEF AddJob, Main
<1>2. FGSlots(jobs) = {}
  BY <1>1 DEF IInv, FGIsWaitedFor, FGSlots, Waiting
<1>3. \A q \in Pids : JobState(q) # "FG"
  BY <1>2, NoForegroundState
<1>4. CASE jobs' = jobs
  BY <1>1, <1>4, Invisible
<1>5. ASSUME NEW i \in Slots, NEW p \in Pids, NEW st \in {"FG", "BG"},
             jobs[i].pid = NoPid, jobs'[i].pid = p, jobs'[i].state = st,
             \A k \in Slots \ {i} : jobs'[k] = jobs[k],
             \A k \in Slots : jobs[k].pid # p
      PROVE  JC!Launch(p, st)
  <2>1. /\ \A q \in Pids \ {p} : JobState(q)' = JobState(q)
        /\ JobState(p)' = st /\ JobState(p) = "UNDEF"
    BY <1>5, SlotStep
  <2>2. QED
    BY <1>1, <1>3, <2>1 DEF JC!Launch, JC!NoForeground
<1>6. QED
  BY <1>4, <1>5, AddJobCases DEF JC!JCNext

(***************************************************************************)
(* fg and bg are Resume.                                                   *)
(***************************************************************************)
LEMMA SetStateRefines ==
  ASSUME IInv, IInv', SetState
  PROVE  [JC!JCNext]_JC!jcvars
<1>1. /\ mpc = "setstate" /\ mpc' = "unblock"
      /\ jobs' = [jobs EXCEPT ![slot].state = IF fg THEN "FG" ELSE "BG"]
  BY DEF SetState, Main
<1>2. FGSlots(jobs) = {}
  BY <1>1 DEF IInv, FGIsWaitedFor, FGSlots, Waiting
<1>3. \A q \in Pids : JobState(q) # "FG"
  BY <1>2, NoForegroundState
<1>4. slot \in Slots /\ cur \in Pids /\ jobs[slot].pid = cur
  BY <1>1 DEF IInv, FoundIsThere, TypeOK
<1>5. PICK i \in Slots, p \in Pids, st \in {"FG", "BG"} :
        i = slot /\ p = cur /\ st = IF fg THEN "FG" ELSE "BG"
  BY <1>4
<1>6. /\ jobs[i].pid = p /\ jobs'[i].pid = p /\ jobs'[i].state = st
      /\ \A k \in Slots \ {i} : jobs'[k] = jobs[k]
  BY <1>1, <1>4, <1>5 DEF IInv, TypeOK, JobType
<1>7. /\ \A q \in Pids \ {p} : JobState(q)' = JobState(q)
      /\ JobState(p)' = st /\ JobState(p) = jobs[i].state
  BY <1>6, SlotStep
<1>8. jobs[i].state # "UNDEF"
  BY <1>6, JobTableAssumption DEF IInv, SlotShape
<1>9. JC!Resume(p, st)
  BY <1>1, <1>3, <1>7, <1>8 DEF JC!Resume, JC!NoForeground
<1>10. QED
  BY <1>9 DEF JC!JCNext

(***************************************************************************)
(* What the SIGCHLD handler does to the list when it has the pid p of a    *)
(* child that ended: nothing, or it clears the slot of p.                  *)
(***************************************************************************)
LEMMA ChldDeleteCases ==
  ASSUME IInv, ChldDelete, NEW p \in Pids, p = hpid["CHLD"]
  PROVE  \/ jobs' = jobs
         \/ \E i \in Slots : /\ jobs[i].pid = p /\ jobs'[i].pid = NoPid
                             /\ \A k \in Slots \ {i} : jobs'[k] = jobs[k]
<1>1. jobs \in [Slots -> JobType] /\ nextjid \in Nat /\ p \in Pids \cup {NoPid}
      /\ jobs' = deletejob(jobs, p)
  BY DEF IInv, TypeOK, ChldDelete
<1>2. /\ deletejob(jobs, p) \in [Slots -> JobType]
      /\ deletejobNextjid(jobs, nextjid, p) \in Nat
      /\ \/ /\ deletejob(jobs, p) = jobs
            /\ p # NoPid => \A i \in Slots : jobs[i].pid # p
         \/ \E i \in Slots : /\ jobs[i].pid = p
                             /\ deletejob(jobs, p) = [jobs EXCEPT ![i] = clearjob]
  BY <1>1, DeleteJobClears
<1>3. clearjob.pid = NoPid
  BY DEF clearjob, Job
<1>4. ASSUME NEW i \in Slots, jobs' = [jobs EXCEPT ![i] = clearjob]
      PROVE  jobs'[i].pid = NoPid /\ \A k \in Slots \ {i} : jobs'[k] = jobs[k]
  BY <1>1, <1>3, <1>4
<1>5. QED
  BY <1>1, <1>2, <1>4

(***************************************************************************)
(* The SIGCHLD handler takes Finish and Stop steps.                        *)
(***************************************************************************)
LEMMA ChldRefines ==
  ASSUME IInv, IInv', ChldDelete \/ ChldStop
  PROVE  [JC!JCNext]_JC!jcvars
<1>1. PICK p \in Pids : p = hpid["CHLD"]
  BY DEF IInv, ReapedIsGone, ChldDelete, ChldStop, Handler, Zombies
<1>2. p # NoPid /\ mpc' = mpc
  BY JobTableAssumption DEF ChldDelete, ChldStop
<1>3. \A i \in Slots : jobs[i].pid = p => jobs[i].state # "UNDEF"
  BY <1>2 DEF IInv, SlotShape
<1>4. CASE ChldDelete
  <2>1. CASE jobs' = jobs
    BY <1>2, <2>1, Invisible
  <2>2. ASSUME NEW i \in Slots, jobs[i].pid = p, jobs'[i].pid = NoPid,
               \A k \in Slots \ {i} : jobs'[k] = jobs[k]
        PROVE  JC!Finish(p)
    <3>1. /\ \A q \in Pids \ {p} : JobState(q)' = JobState(q)
          /\ JobState(p)' = "UNDEF" /\ JobState(p) = jobs[i].state
      BY <1>2, <2>2, SlotStep
    <3>2. QED
      BY <1>2, <1>3, <2>2, <3>1 DEF JC!Finish
  <2>3. QED
    BY <1>1, <1>4, <2>1, <2>2, ChldDeleteCases DEF JC!JCNext
<1>5. CASE ChldStop
  <2>1. PICK i \in Slots : i = getjobpid(jobs, p) /\ jobs[i].pid = p
    BY <1>1, <1>2, <1>5, GetJobPid DEF IInv, TypeOK, ChldStop
  <2>2. jobs' = [jobs EXCEPT ![i].state = "ST"] /\ jobs \in [Slots -> JobType]
    BY <1>1, <1>5, <2>1 DEF ChldStop, IInv, TypeOK
  <2>3. /\ jobs'[i].pid = p /\ jobs'[i].state = "ST"
        /\ \A k \in Slots \ {i} : jobs'[k] = jobs[k]
    BY <2>1, <2>2 DEF JobType
  <2>4. /\ \A q \in Pids \ {p} : JobState(q)' = JobState(q)
        /\ JobState(p)' = "ST" /\ JobState(p) = jobs[i].state
    BY <2>1, <2>3, SlotStep
  <2>5. JC!Stop(p)
    BY <1>2, <1>3, <2>1, <2>4 DEF JC!Stop
  <2>6. QED
    BY <2>5 DEF JC!JCNext
<1>6. QED
  BY <1>4, <1>5

(***************************************************************************)
(* The steps of listjobs, and the return of waitfg, are Prompt or          *)
(* invisible.                                                              *)
(***************************************************************************)
LEMMA ToPromptRefines ==
  ASSUME IInv, WaitFgReturn \/ ListCheck \/ ListPrint \/ ListError \/ Unblock
  PROVE  [JC!JCNext]_JC!jcvars
<1>1. jobs' = jobs /\ mpc # "prompt"
  BY DEF WaitFgReturn, ListCheck, ListPrint, ListError, Unblock, Main
<1>2. mpc' = "prompt" => FGSlots(jobs) = {}
  <2>1. CASE WaitFgReturn
    BY <2>1, WaitFgReturnIInv
  <2>2. CASE ListCheck \/ ListPrint \/ ListError
    BY <2>2 DEF ListCheck, ListPrint, ListError, Main, IInv, FGIsWaitedFor, FGSlots, Waiting
  <2>3. CASE Unblock
    BY <2>3 DEF Unblock, IInv, FGIsWaitedFor, FGSlots
  <2>4. QED
    BY <2>1, <2>2, <2>3
<1>3. QED
  BY <1>1, <1>2, Invisible, PromptStep DEF JC!JCNext

(***************************************************************************)
(* Every step of the shell is a step of JobControl or invisible there.     *)
(***************************************************************************)
LEMMA NextRefines ==
  ASSUME IInv, IInv', [Next]_vars
  PROVE  [JC!JCNext]_JC!jcvars
<1>1. CASE UNCHANGED vars
  BY <1>1, Invisible DEF vars
<1>2. CASE ReadCommand
  BY <1>2, Invisible, AcceptStep
     DEF ReadCommand, Quit, EvalCommand, BgFgCommand, JobsCommand, Main, JC!JCNext
<1>3. CASE MainStep
  <2>1. CASE Fork \/ WaitFgLookup \/ NoSuchJob \/ LookupJob
    BY <2>1, Invisible DEF Fork, WaitFgLookup, NoSuchJob, LookupJob, Main
  <2>2. QED
    BY <1>3, <2>1, AddJobRefines, SetStateRefines, ToPromptRefines DEF MainStep
<1>4. CASE SigQuit \/ \E s \in Sigs : Deliver(s)
  BY <1>4, Invisible DEF SigQuit, Deliver
<1>5. CASE HandlerStep
  <2>1. CASE ChldWait \/ ChldReturn \/ ChldNullJob
    BY <2>1, Invisible DEF ChldWait, ChldReturn, ChldNullJob
  <2>2. CASE \E s \in {"INT", "TSTP"} : Sample(s) \/ KillFg(s) \/ KillFgFails(s)
    BY <2>2, Invisible DEF Sample, KillFg, KillFgFails
  <2>3. QED
    BY <1>5, <2>1, <2>2, ChldRefines DEF HandlerStep
<1>6. CASE ChildStep \/ Noise
  BY <1>6, Invisible
     DEF ChildStep, Noise, ChildSetpgid, ChildExec, ChildExecFails, ProcExit, ProcKilled,
         ProcStop, ProcCont, Keystroke, ProcStep
<1>7. CASE Ended
  BY <1>7, Invisible DEF Ended, vars
<1>8. QED
  BY <1>1, <1>2, <1>3, <1>4, <1>5, <1>6, <1>7 DEF Next

(***************************************************************************)
(* The shell implements JobControl.                                        *)
(***************************************************************************)
THEOREM Refinement == Spec => ImplementsJobControl
<1>1. Init => JC!JCInit
  <2>1. ASSUME Init, NEW p \in Pids
        PROVE  JobState(p) = "UNDEF"
    <3>1. \A i \in Slots : jobs[i].pid # p
      BY <2>1, JobTableAssumption DEF Init, initjobs, clearjob, Job
    <3>2. QED
      BY <3>1 DEF JobState
  <2>2. QED
    BY <2>1 DEF JC!JCInit, Init
<1>2. IInv /\ IInv' /\ [Next]_vars => [JC!JCNext]_JC!jcvars
  BY NextRefines
<1>3. QED
  BY <1>1, <1>2, Inductive, PTL DEF Spec, ImplementsJobControl, JC!JCSpec

(***************************************************************************)
(* A job leaves the list only when waitpid has removed its child.          *)
(***************************************************************************)
THEOREM OnlyReapedForgotten == Spec => ForgetsOnlyReaped
<1>1. ASSUME IInv, IInv', [Next]_vars,
             NEW q \in Tracked(jobs), q \notin Tracked(jobs)'
      PROVE  proc[q] = "none"
  <2>1. PICK k \in Slots : jobs[k].pid = q /\ q # NoPid
    BY <1>1 DEF Tracked
  <2>2. jobs'[k].pid # q
    BY <1>1, <2>1 DEF Tracked
  <2>3. ~UNCHANGED jobs
    BY <2>1, <2>2
  <2>4. CASE AddJob
    BY <1>1, <2>1, <2>2, <2>4, AddJobCases
  <2>5. CASE SetState
    <3>1. slot \in Slots /\ jobs' = [jobs EXCEPT ![slot].state = IF fg THEN "FG" ELSE "BG"]
      BY <1>1, <2>5 DEF SetState, Main, IInv, FoundIsThere, TypeOK
    <3>2. jobs'[k].pid = jobs[k].pid
      BY <1>1, <3>1 DEF IInv, TypeOK, JobType
    <3>3. QED
      BY <2>1, <2>2, <3>2
  <2>6. CASE ChldStop
    <3>1. jobs'[k].pid = jobs[k].pid
      BY <1>1, <2>6 DEF ChldStop, IInv, TypeOK, JobType
    <3>2. QED
      BY <2>1, <2>2, <3>1
  <2>7. CASE ChldDelete
    <3>1. PICK p \in Pids : p = hpid["CHLD"] /\ proc[p] = "none"
      BY <1>1, <2>7 DEF IInv, ReapedIsGone, ChldDelete, Handler, Zombies
    <3>2. q = p
      BY <1>1, <2>1, <2>2, <2>7, <3>1, ChldDeleteCases
    <3>3. QED
      BY <3>1, <3>2
  <2>8. QED
    BY <1>1, <2>3, <2>4, <2>5, <2>6, <2>7
       DEF Next, vars, ReadCommand, Quit, EvalCommand, BgFgCommand, JobsCommand, MainStep,
           Fork, Unblock, WaitFgLookup, WaitFgReturn, NoSuchJob, LookupJob, ListCheck,
           ListPrint, ListError, SigQuit, Deliver, HandlerStep, ChldWait, ChldReturn,
           ChldNullJob, Sample, KillFg, KillFgFails, ChildStep, Noise, ChildSetpgid,
           ChildExec, ChildExecFails, ProcExit, ProcKilled, ProcStop, ProcCont, Keystroke,
           ProcStep, Ended
<1>2. IInv /\ IInv' /\ [Next]_vars =>
        [\A p \in Tracked(jobs) \ Tracked(jobs)' : proc[p] = "none"]_vars
  BY <1>1
<1>3. QED
  BY <1>2, Inductive, PTL DEF Spec, ForgetsOnlyReaped

----------------------------------------------------------------------------
(***************************************************************************)
(* When there are at most MAXJOBS pids and one of them is not on the list, *)
(* the list has a free slot: addjob finds room for the child just forked.  *)
(***************************************************************************)
LEMMA RoomForOne ==
  ASSUME IInv, IsFiniteSet(Pids), Cardinality(Pids) <= MAXJOBS,
         NEW p \in Pids, \A i \in Slots : jobs[i].pid # p
  PROVE  FreeSlots(jobs) # {}
<1> SUFFICES ASSUME FreeSlots(jobs) = {} PROVE FALSE
  OBVIOUS
<1> DEFINE Others == Pids \ {p}
           f == [i \in Slots |-> jobs[i].pid]
<1>1. \A i \in Slots : jobs[i].pid \in Others
  BY DEF FreeSlots, IInv, TypeOK, JobType
<1>2. f \in Injection(Slots, Others)
  BY <1>1, JobTableAssumption DEF Injection, IsInjective, IInv, OneSlotPerPid
<1>3. IsFiniteSet(Others) /\ Cardinality(Others) = Cardinality(Pids) - 1
  BY FS_RemoveElement
<1>4. Cardinality(Slots) <= Cardinality(Others)
  <2> HIDE DEF f, Others
  <2> QED BY <1>2, <1>3, FS_Injection
<1>5. Cardinality(Slots) = MAXJOBS
  BY FS_Interval, JobTableAssumption DEF Slots
<1>6. Cardinality(Pids) \in Nat
  BY FS_CardinalityType
<1>7. QED
  BY <1>3, <1>4, <1>5, <1>6, JobTableAssumption

(***************************************************************************)
(* After addjob the child just forked has a slot, and the others keep      *)
(* theirs.                                                                 *)
(***************************************************************************)
LEMMA AddJobFindsSlot ==
  ASSUME IInv, AddJob, IsFiniteSet(Pids), Cardinality(Pids) <= MAXJOBS
  PROVE  /\ cur # NoPid => \E i \in Slots : jobs'[i].pid = cur
         /\ \A i \in Slots : jobs[i].pid # NoPid => jobs'[i].pid = jobs[i].pid
<1>1. jobs \in [Slots -> JobType] /\ cur \in Pids \cup {NoPid}
      /\ (cur # NoPid => \A i \in Slots : jobs[i].pid # cur)
  BY DEF IInv, TypeOK, ForkedIsNew, AddJob, Main
<1>2. CASE cur = NoPid
  BY <1>2 DEF AddJob, addjob, AddFails
<1>3. CASE cur # NoPid
  <2>1. PICK p \in Pids : p = cur
    BY <1>1, <1>3
  <2>2. FreeSlots(jobs) # {}
    BY <1>1, <1>3, <2>1, RoomForOne
  <2>3. FirstSlot(FreeSlots(jobs)) \in FreeSlots(jobs)
    <3>1. FreeSlots(jobs) \in SUBSET Slots
      BY DEF FreeSlots
    <3>2. QED
      BY <2>2, <3>1, FirstSlotIsFirst
  <2>4. PICK i \in Slots : /\ jobs[i].pid = NoPid
                           /\ jobs' = [jobs EXCEPT ![i] = Job(cur, nextjid,
                                                       IF fg THEN "FG" ELSE "BG")]
    BY <1>3, <2>2, <2>3 DEF AddJob, addjob, AddFails, FreeSlots
  <2>5. QED
    BY <1>1, <2>4 DEF Job
<1>4. QED
  BY <1>2, <1>3

(***************************************************************************)
(* Every child keeps its slot until it is deleted.                         *)
(***************************************************************************)
LEMMA ChildrenKeepSlots ==
  ASSUME IInv, IInv', [Next]_vars, EveryChildHasSlot, IsFiniteSet(Pids)
  PROVE  EveryChildHasSlot'
<1> SUFFICES ASSUME Cardinality(Pids) <= MAXJOBS, NEW p \in Pids,
                    proc'[p] # "none" \/ BeingHandled(p)'
             PROVE  \/ \E i \in Slots : jobs'[i].pid = p
                    \/ mpc' = "addjob" /\ cur' = p
  BY DEF EveryChildHasSlot
<1> DEFINE Before == proc[p] # "none" \/ BeingHandled(p)
           Has == \/ \E i \in Slots : jobs[i].pid = p
                  \/ mpc = "addjob" /\ cur = p
<1>1. Before => Has
  BY DEF EveryChildHasSlot
<1>2. p # NoPid
  BY JobTableAssumption
<1>3. CASE AddJob
  <2>1. Before
    BY <1>3 DEF AddJob, BeingHandled
  <2>2. QED
    BY <1>1, <1>2, <1>3, <2>1, AddJobFindsSlot
<1>4. CASE SetState \/ ChldStop
  <2>1. \A i \in Slots : jobs'[i].pid = jobs[i].pid
    <3>1. CASE SetState
      <4>1. slot \in Slots
        BY <3>1 DEF SetState, Main, IInv, FoundIsThere, TypeOK
      <4>2. QED
        BY <3>1, <4>1 DEF SetState, IInv, TypeOK, JobType
    <3>2. CASE ChldStop
      BY <3>2 DEF ChldStop, IInv, TypeOK, JobType
    <3>3. QED
      BY <1>4, <3>1, <3>2
  <2>2. Before
    BY <1>4 DEF SetState, ChldStop, BeingHandled, NextChild, IInv, TypeOK, Sigs
  <2>3. mpc # "addjob"
    BY <1>4 DEF SetState, ChldStop, Main, IInv, CriticalIsBlocked, Critical, Handler
  <2>4. QED
    BY <1>1, <2>1, <2>2, <2>3
<1>5. CASE ChldDelete
  <2>1. PICK q \in Pids : q = hpid["CHLD"] /\ proc[q] = "none" /\ hpc["CHLD"] \in Zombies
    BY <1>5 DEF IInv, ReapedIsGone, ChldDelete, Handler, Zombies
  <2>2. proc' = proc /\ hpc'["CHLD"] = "wait"
    BY <1>5 DEF ChldDelete, NextChild, IInv, TypeOK, Sigs
  <2>3. proc[p] # "none" /\ p # q
    BY <2>1, <2>2 DEF BeingHandled
  <2>4. mpc # "addjob"
    BY <2>1 DEF IInv, CriticalIsBlocked, Critical, Zombies
  <2>5. \E i \in Slots : jobs[i].pid = p
    BY <1>1, <2>3, <2>4
  <2>6. QED
    BY <1>5, <2>1, <2>3, <2>5, ChldDeleteCases
<1>6. CASE Fork
  <2>1. jobs' = jobs /\ mpc = "fork" /\ mpc' = "addjob"
        /\ (proc'[p] = proc[p] \/ cur' = p)
    BY <1>6 DEF Fork, Main, IInv, TypeOK
  <2>2. CASE cur' = p
    BY <2>1, <2>2
  <2>3. CASE cur' # p
    <3>1. Before
      BY <1>6, <2>1, <2>3 DEF Fork, BeingHandled
    <3>2. QED
      BY <1>1, <2>1, <3>1
  <2>4. QED
    BY <2>2, <2>3
<1>7. CASE UNCHANGED jobs /\ ~Fork /\ ~AddJob
  <2>1. Before
    <3>1. proc'[p] # "none" => proc[p] # "none"
      BY <1>7
         DEF Next, vars, ReadCommand, Quit, EvalCommand, BgFgCommand, JobsCommand, MainStep,
             Unblock, WaitFgLookup, WaitFgReturn, NoSuchJob, LookupJob, ListCheck,
             ListPrint, ListError, SetState, SigQuit, Deliver, HandlerStep, ChldWait,
             ChldReturn, ChldNullJob, ChldDelete, ChldStop, Sample, KillFg, KillFgFails,
             ChildStep, Noise, ChildSetpgid, ChildExec, ChildExecFails, ProcExit,
             ProcKilled, ProcStop, ProcCont, Keystroke, ProcStep, Ended, Continue,
             Suspended, Zombies, IInv, TypeOK
    <3>2. BeingHandled(p)' => BeingHandled(p) \/ proc[p] # "none"
      BY <1>7
         DEF BeingHandled, Next, vars, ReadCommand, Quit, EvalCommand, BgFgCommand,
             JobsCommand, MainStep, Unblock, Enter, WaitFgLookup, WaitFgReturn, NoSuchJob,
             LookupJob, ListCheck, ListPrint, ListError, SetState, SigQuit, Deliver,
             HandlerStep, ChldWait, ChldReturn, Return, ChldNullJob, ChldDelete, ChldStop,
             NextChild, Sample, KillFg, KillFgFails, ChildStep, Noise, ChildSetpgid,
             ChildExec, ChildExecFails, ProcExit, ProcKilled, ProcStop, ProcCont, Keystroke,
             ProcStep, Ended, Zombies, IInv, TypeOK, Sigs
    <3>3. QED
      BY <3>1, <3>2
  <2>2. mpc = "addjob" => mpc' = "addjob" /\ cur' = cur
    BY <1>7
       DEF Next, vars, ReadCommand, Quit, EvalCommand, BgFgCommand, JobsCommand, MainStep,
           Main, Unblock, WaitFgLookup, WaitFgReturn, NoSuchJob, LookupJob, ListCheck,
           ListPrint, ListError, SetState, SigQuit, Deliver, HandlerStep, ChldWait,
           ChldReturn, ChldNullJob, ChldDelete, ChldStop, Sample, KillFg, KillFgFails,
           ChildStep, Noise, ChildSetpgid, ChildExec, ChildExecFails, ProcExit,
           ProcKilled, ProcStop, ProcCont, Keystroke, ProcStep, Ended
  <2>3. QED
    BY <1>1, <1>7, <2>1, <2>2
<1>8. UNCHANGED jobs \/ AddJob \/ SetState \/ ChldStop \/ ChldDelete
  BY DEF Next, vars, ReadCommand, Quit, EvalCommand, BgFgCommand, JobsCommand, MainStep,
         Fork, Unblock, WaitFgLookup, WaitFgReturn, NoSuchJob, LookupJob, ListCheck,
         ListPrint, ListError, SigQuit, Deliver, HandlerStep, ChldWait, ChldReturn,
         ChldNullJob, Sample, KillFg, KillFgFails, ChildStep, Noise, ChildSetpgid,
         ChildExec, ChildExecFails, ProcExit, ProcKilled, ProcStop, ProcCont, Keystroke,
         ProcStep, Ended
<1>9. QED
  BY <1>3, <1>4, <1>5, <1>6, <1>7, <1>8

(***************************************************************************)
(* With at most MAXJOBS pids every child is on the list.                   *)
(***************************************************************************)
THEOREM ChildrenHaveSlots ==
  ASSUME IsFiniteSet(Pids)
  PROVE  Spec => []EveryChildHasSlot
<1>1. Init => EveryChildHasSlot
  BY DEF Init, EveryChildHasSlot, BeingHandled, Sigs
<1>2. IInv /\ IInv' /\ EveryChildHasSlot /\ [Next]_vars => EveryChildHasSlot'
  BY ChildrenKeepSlots
<1>3. QED
  BY <1>1, <1>2, Inductive, PTL DEF Spec

(***************************************************************************)
(* ... and the SIGCHLD handler never dereferences NULL.                    *)
(***************************************************************************)
THEOREM HandlerFindsJob ==
  ASSUME IsFiniteSet(Pids)
  PROVE  Spec => []NoNullJob
<1>1. Init => NoNullJob
  BY DEF Init, NoNullJob
<1>2. ASSUME IInv, EveryChildHasSlot, NoNullJob, [Next]_vars
      PROVE  NoNullJob'
  <2> SUFFICES ASSUME Cardinality(Pids) <= MAXJOBS, shell # "segv"
               PROVE  shell' # "segv"
    BY <1>2 DEF NoNullJob
  <2>1. CASE ChldNullJob
    <3>1. PICK p \in Pids : p = hpid["CHLD"]
      BY <1>2, <2>1 DEF IInv, ReapedIsGone, ChldNullJob, Handler, Zombies
    <3>2. getjobpid(jobs, p) = NoSlot /\ jobs \in [Slots -> JobType]
      BY <1>2, <2>1, <3>1 DEF IInv, TypeOK, ChldNullJob
    <3>3. BeingHandled(p) /\ mpc # "addjob"
      BY <1>2, <2>1, <3>1
         DEF BeingHandled, ChldNullJob, Handler, IInv, CriticalIsBlocked, Critical
    <3>4. \E i \in Slots : jobs[i].pid = p
      BY <1>2, <3>3 DEF EveryChildHasSlot
    <3>5. QED
      BY <3>2, <3>4, GetJobPid, JobTableAssumption
  <2>2. CASE ~ChldNullJob
    BY <1>2, <2>2
       DEF Next, vars, ReadCommand, Quit, EvalCommand, BgFgCommand, JobsCommand, MainStep,
           Fork, AddJob, SetState, Unblock, WaitFgLookup, WaitFgReturn, NoSuchJob,
           LookupJob, ListCheck, ListPrint, ListError, SigQuit, Deliver, HandlerStep,
           ChldWait, ChldReturn, ChldDelete, ChldStop, Sample, KillFg, KillFgFails,
           ChildStep, Noise, ChildSetpgid, ChildExec, ChildExecFails, ProcExit,
           ProcKilled, ProcStop, ProcCont, Keystroke, ProcStep, Ended
  <2>3. QED
    BY <2>1, <2>2
<1>3. IInv /\ EveryChildHasSlot /\ NoNullJob /\ [Next]_vars => NoNullJob'
  BY <1>2
<1>4. QED
  BY <1>1, <1>3, Inductive, ChildrenHaveSlots, PTL DEF Spec
----------------------------------------------------------------------------
(***************************************************************************)
(* addjob and deletejob keep the ids positive.                             *)
(***************************************************************************)
LEMMA JidsStayPositive ==
  ASSUME IInv, JidsArePositive, [Next]_vars
  PROVE  JidsArePositive'
<1>1. jobs \in [Slots -> JobType] /\ nextjid \in Nat
  BY DEF IInv, TypeOK
<1>2. CASE AddJob
  <2>1. cur \in Pids \cup {NoPid} /\ (IF fg THEN "FG" ELSE "BG") \in States
    BY DEF IInv, TypeOK, States
  <2>2. \/ jobs' = jobs
        \/ \E i \in Slots :
             jobs' = [jobs EXCEPT ![i] = Job(cur, nextjid, IF fg THEN "FG" ELSE "BG")]
    BY <1>1, <1>2, <2>1, AddJobWrites DEF AddJob
  <2>3. nextjid' >= 1
    BY <1>1, <1>2 DEF AddJob, addjobNextjid, JidsArePositive
  <2>4. \A i \in Slots : jobs'[i].pid # NoPid => jobs'[i].jid >= 1
    BY <1>1, <2>2 DEF Job, JidsArePositive
  <2>5. QED
    BY <2>3, <2>4 DEF JidsArePositive
<1>3. CASE SetState
  <2>1. slot \in Slots
    BY <1>3 DEF SetState, Main, IInv, FoundIsThere, TypeOK
  <2>2. QED
    BY <1>1, <1>3, <2>1 DEF SetState, JidsArePositive, JobType
<1>4. CASE ChldStop
  BY <1>1, <1>4 DEF ChldStop, JidsArePositive, JobType
<1>5. CASE ChldDelete
  <2>1. hpid["CHLD"] \in Pids
    BY <1>5 DEF IInv, ReapedIsGone, ChldDelete, Handler, Zombies
  <2>2. deletejob(jobs, hpid["CHLD"]) \in [Slots -> JobType]
    BY <1>1, <2>1, DeleteJobClears
  <2>3. nextjid' = nextjid \/ nextjid' = maxjid(deletejob(jobs, hpid["CHLD"])) + 1
    BY <1>5 DEF ChldDelete, deletejobNextjid
  <2>4. nextjid' >= 1
    BY <1>1, <2>2, <2>3, MaxJid DEF JidsArePositive
  <2>5. \/ jobs' = jobs
        \/ \E i \in Slots : jobs' = [jobs EXCEPT ![i] = clearjob]
    BY <1>1, <1>5, <2>1, DeleteJobClears DEF ChldDelete
  <2>6. \A i \in Slots : jobs'[i].pid # NoPid => jobs'[i].jid >= 1
    BY <1>1, <2>5 DEF clearjob, Job, JidsArePositive
  <2>7. QED
    BY <2>4, <2>6 DEF JidsArePositive
<1>6. CASE UNCHANGED <<jobs, nextjid>>
  BY <1>6 DEF JidsArePositive
<1>7. UNCHANGED <<jobs, nextjid>> \/ AddJob \/ SetState \/ ChldStop \/ ChldDelete
  BY DEF Next, vars, table, ReadCommand, Quit, EvalCommand, BgFgCommand, JobsCommand,
         MainStep, Fork, Unblock, WaitFgLookup, WaitFgReturn, NoSuchJob, LookupJob,
         ListCheck, ListPrint, ListError, SigQuit, Deliver, HandlerStep, ChldWait,
         ChldReturn, ChldNullJob, Sample, KillFg, KillFgFails, ChildStep, Noise,
         ChildSetpgid, ChildExec, ChildExecFails, ProcExit, ProcKilled, ProcStop,
         ProcCont, Keystroke, ProcStep, Ended
<1>8. QED
  BY <1>2, <1>3, <1>4, <1>5, <1>6, <1>7

(***************************************************************************)
(* Every job on the list can be looked up by its pid and by its id, for    *)
(* every number of slots, also after nextjid has wrapped around.           *)
(***************************************************************************)
THEOREM JobsAreFound == Spec => []LookupFindsUsed
<1>1. Init => JidsArePositive
  BY DEF Init, JidsArePositive, initjobs, clearjob, Job
<1>2. IInv /\ JidsArePositive /\ [Next]_vars => JidsArePositive'
  BY JidsStayPositive
<1>3. IInv /\ JidsArePositive => LookupFindsUsed
  <2> SUFFICES ASSUME IInv, JidsArePositive, NEW i \in Slots, jobs[i].pid # NoPid
               PROVE  /\ getjobpid(jobs, jobs[i].pid) = i
                      /\ getjobjid(jobs, jobs[i].jid) # NoSlot
                      /\ jobs[getjobjid(jobs, jobs[i].jid)].pid # NoPid
    BY DEF LookupFindsUsed
  <2>1. jobs \in [Slots -> JobType] /\ jobs[i].pid \in Pids /\ jobs[i].jid \in Nat
    BY DEF IInv, TypeOK, JobType
  <2>2. getjobpid(jobs, jobs[i].pid) = i
    BY <2>1, GetJobPid DEF IInv, OneSlotPerPid
  <2>3. jobs[i].jid >= 1
    BY DEF JidsArePositive
  <2> DEFINE S == {k \in Slots : jobs[k].jid = jobs[i].jid}
  <2>4. getjobjid(jobs, jobs[i].jid) = Scan(S)
    BY <2>1, <2>3 DEF getjobjid
  <2>5. i \in S /\ S \in SUBSET Slots
    OBVIOUS
  <2>6. Scan(S) # NoSlot /\ Scan(S) \in S
    <3> HIDE DEF S
    <3> QED BY <2>5, ScanFinds
  <2>7. jobs[Scan(S)].pid # NoPid
    BY <2>1, <2>3, <2>6 DEF IInv, SlotShape
  <2>8. QED
    BY <2>2, <2>4, <2>6, <2>7
<1>4. QED
  BY <1>1, <1>2, <1>3, Inductive, PTL DEF Spec
=============================================================================

----------------------------- MODULE JobControl -----------------------------
(***************************************************************************)
(* What job control promises, without slots, signals or handlers: each     *)
(* process has a job state, and the shell is at its prompt or busy with a  *)
(* command.  The states and the enabling actions are those of the comment  *)
(* on job states in tsh.c, plus the stop of a background job.  A command   *)
(* may start or resume a foreground job only while there is none, and the  *)
(* prompt returns only when none is left.                                  *)
(***************************************************************************)
CONSTANT Pids

VARIABLES state,   \* the job state of each process, UNDEF without a job
          busy     \* a command is being evaluated

jcvars == <<state, busy>>

JobStates == {"UNDEF", "FG", "BG", "ST"}

JCTypeOK == state \in [Pids -> JobStates] /\ busy \in BOOLEAN

JCInit == state = [p \in Pids |-> "UNDEF"] /\ busy = FALSE

NoForeground == \A p \in Pids : state[p] # "FG"

Accept == ~busy /\ busy' = TRUE /\ UNCHANGED state

Prompt == busy /\ NoForeground /\ busy' = FALSE /\ UNCHANGED state

\* a new job
Launch(p, s) ==
  /\ busy /\ NoForeground
  /\ state[p] = "UNDEF"
  /\ state' = [state EXCEPT ![p] = s]
  /\ UNCHANGED busy

\* fg and bg
Resume(p, s) ==
  /\ busy /\ NoForeground
  /\ state[p] # "UNDEF"
  /\ state' = [state EXCEPT ![p] = s]
  /\ UNCHANGED busy

\* the process was stopped, by ctrl-z or by a signal from elsewhere
Stop(p) ==
  /\ state[p] # "UNDEF"
  /\ state' = [state EXCEPT ![p] = "ST"]
  /\ UNCHANGED busy

\* the process has ended
Finish(p) ==
  /\ state[p] # "UNDEF"
  /\ state' = [state EXCEPT ![p] = "UNDEF"]
  /\ UNCHANGED busy

JCNext == \/ Accept \/ Prompt
          \/ \E p \in Pids : \/ \E s \in {"FG", "BG"} : Launch(p, s) \/ Resume(p, s)
                             \/ Stop(p) \/ Finish(p)

JCSpec == JCInit /\ [][JCNext]_jcvars
=============================================================================

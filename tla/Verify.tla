-------------------------------- MODULE Verify --------------------------------
(***************************************************************************)
(* run_verify: the project's test command, run by a shell in the work tree *)
(* with a deadline.                                                        *)
(*                                                                         *)
(* A runner starts the command with its output on two pipes, which two     *)
(* threads read to the end, and asks every 50 ms whether it has exited.    *)
(* At the deadline it kills the shell and looks at no output; otherwise it *)
(* joins the threads, which end when nobody holds the pipes any more: a    *)
(* process that the command left behind may.  Both pipes are one here.     *)
(*                                                                         *)
(* GuardedCalls composes these actions with their callers.  The command    *)
(* and its descendants are external: nothing says that they ever end.      *)
(*                                                                         *)
(* Operators named Slip... are mistakes, as in ApprovalPipeline.           *)
(***************************************************************************)
CONSTANT Runners   \* processes that run the test command, one run at a time

VARIABLES
    at,        \* where a runner is in run_verify
    child,     \* the shell it started
    left,      \* a descendant that outlived the shell holds a pipe
    late,      \* the deadline has passed
    verdict    \* what the runner's last run returned

verifyVars == <<at, child, left, late, verdict>>

Exits == {"passed", "failed"}      \* exit code 0, or another or a signal

VerifyTypeOK ==
    /\ at \in [Runners -> {"idle", "poll", "kill", "join"}]
    /\ child \in [Runners -> {"none", "running", "killed"} \cup Exits]
    /\ left \in [Runners -> BOOLEAN]
    /\ late \in [Runners -> BOOLEAN]
    /\ verdict \in [Runners -> {"none", "timed_out", "error"} \cup Exits]

VerifyInit ==
    /\ at = [r \in Runners |-> "idle"]
    /\ child = [r \in Runners |-> "none"]
    /\ left = [r \in Runners |-> FALSE]
    /\ late = [r \in Runners |-> FALSE]
    /\ verdict = [r \in Runners |-> "none"]

\* The run returns v.  Whoever holds a pipe after that is out of sight.
Answer(r, v) ==
    /\ at' = [at EXCEPT ![r] = "idle"]
    /\ verdict' = [verdict EXCEPT ![r] = v]
    /\ left' = [left EXCEPT ![r] = FALSE]
    /\ late' = [late EXCEPT ![r] = FALSE]

\* The command is spawned, or cannot be.
Start(r) ==
    /\ at[r] = "idle"
    /\ \/ /\ at' = [at EXCEPT ![r] = "poll"]
          /\ child' = [child EXCEPT ![r] = "running"]
          /\ verdict' = [verdict EXCEPT ![r] = "none"]
          /\ UNCHANGED <<left, late>>
       \/ /\ Answer(r, "error")
          /\ child' = [child EXCEPT ![r] = "none"]

SlipPoll(r) ==
    /\ at[r] = "poll"
    /\ child[r] \in Exits \/ late[r]
    /\ at' = [at EXCEPT ![r] = "join"]
    /\ UNCHANGED <<child, left, late, verdict>>

\* try_wait, then the clock; before the deadline the loop sleeps.  An error of
\* try_wait returns and leaves the command running.
Poll(r) ==
    /\ at[r] = "poll"
    /\ \/ /\ child[r] \in Exits
          /\ at' = [at EXCEPT ![r] = "join"]
          /\ UNCHANGED <<left, late, verdict>>
       \/ /\ child[r] = "running" /\ late[r]
          /\ at' = [at EXCEPT ![r] = "kill"]
          /\ UNCHANGED <<left, late, verdict>>
       \/ Answer(r, "error")
    /\ UNCHANGED child

SlipKill(r) ==
    /\ at[r] = "kill"
    /\ child' = [child EXCEPT ![r] = IF @ = "running" THEN "killed" ELSE @]
    /\ at' = [at EXCEPT ![r] = "join"]
    /\ \E b \in BOOLEAN : left' = [left EXCEPT ![r] = b]
    /\ UNCHANGED <<late, verdict>>

\* kill and wait; the command may have exited since it was asked.
Kill(r) ==
    /\ at[r] = "kill"
    /\ child' = [child EXCEPT ![r] = IF @ = "running" THEN "killed" ELSE @]
    /\ Answer(r, "timed_out")

SlipOutcome(r) == "passed"

\* exit_code = 0, and not timed out.
Outcome(r) == child[r]

\* The threads have read everything, or one reports that reading failed.
Join(r) ==
    /\ at[r] = "join" /\ ~left[r]
    /\ Answer(r, Outcome(r)) \/ Answer(r, "error")
    /\ UNCHANGED child

RunnerStep(r) == Poll(r) \/ Kill(r) \/ Join(r)

\* The deadline passes.
Expire(r) ==
    /\ at[r] = "poll" /\ ~late[r]
    /\ late' = [late EXCEPT ![r] = TRUE]
    /\ UNCHANGED <<at, child, left, verdict>>

\* The command exits and may leave a process behind that has its pipes.
ChildExits(r) ==
    /\ at[r] \in {"poll", "kill"} /\ child[r] = "running"
    /\ \E v \in Exits : child' = [child EXCEPT ![r] = v]
    /\ \E b \in BOOLEAN : left' = [left EXCEPT ![r] = b]
    /\ UNCHANGED <<at, late, verdict>>

\* The process left behind ends, or closes the pipes.
LetGo(r) ==
    /\ left[r]
    /\ left' = [left EXCEPT ![r] = FALSE]
    /\ UNCHANGED <<at, child, late, verdict>>

\* The runner's own process is killed: nobody waits for the command.
Gone(r) ==
    /\ at[r] # "idle"
    /\ Answer(r, "none")
    /\ UNCHANGED child

\* What keeps a run waiting for good, though its deadline is long past.
HeldBack(r) == at[r] = "join" /\ left[r] /\ child[r] \in Exits
=============================================================================

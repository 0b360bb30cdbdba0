----------------------------- MODULE GuardedCalls -----------------------------
(***************************************************************************)
(* Who runs the tests: MCP servers on stdio, each of which handles one     *)
(* call at a time and lets the loop guard decide whether a run_verify call *)
(* goes ahead, and `scos apply --verify`, which tests after its apply and  *)
(* records the result.                                                     *)
(*                                                                         *)
(* A server that runs the tests has let go of the connection, but it reads *)
(* no other request before it has answered this one.  Other guarded tools  *)
(* take one step here; ApprovalPipeline and DiffSetApply have theirs.      *)
(***************************************************************************)
EXTENDS LoopGuard

CONSTANTS
    Testers,   \* the servers whose clients call run_verify
    Clis       \* `scos apply --verify` processes, all of one diff

ASSUME CallsAssumption == 
    /\ Testers \subseteq Servers
    /\ Servers \cap Clis = {}

VARIABLES
    at, child, left, late, verdict,  \* Verify's
    cli,       \* where an apply command is after its apply
    rows       \* tool_events that record the tests of the diff

Runners == Testers \cup Clis

V == INSTANCE Verify

testVars == <<at, child, left, late, verdict>>
callVars == <<vars, testVars, cli, rows>>

CallsTypeOK ==
    /\ V!VerifyTypeOK
    /\ cli \in [Clis -> {"applied", "testing", "done"}]
    /\ rows \subseteq {"test_verify_passed", "apply_unverified"}

CallsInit ==
    /\ Init
    /\ V!VerifyInit
    /\ cli = [c \in Clis |-> "applied"]
    /\ rows = {}

-----------------------------------------------------------------------------
(* A server.                                                               *)

Free(s) == s \in Testers => at[s] = "idle"

\* The next request is read; the guard comes first.
Call(s) ==
    /\ Free(s) /\ \E k \in Pairs : Upsert(s, k)
    /\ UNCHANGED <<testVars, cli, rows>>

\* The guard decides.  A run_verify that may go ahead reads test_command and
\* runs it; without one it fails, as any other tool may.
Decide(s) ==
    /\ Read(s)
    /\ \/ s \in Testers /\ ran' # ran /\ V!Start(s)
       \/ UNCHANGED testVars
    /\ UNCHANGED <<cli, rows>>

Refuse(s) ==
    /\ Block(s)
    /\ UNCHANGED <<testVars, cli, rows>>

Test(r) ==
    /\ V!RunnerStep(r)
    /\ UNCHANGED <<vars, cli, rows>>

-----------------------------------------------------------------------------
(* `scos apply --verify`.                                                  *)

\* run_post_apply_verify: without a test_command it exits with code 1.
AfterApply(c) ==
    /\ cli[c] = "applied"
    /\ \/ cli' = [cli EXCEPT ![c] = "testing"] /\ V!Start(c)
       \/ cli' = [cli EXCEPT ![c] = "done"] /\ UNCHANGED testVars
    /\ UNCHANGED <<vars, rows>>

RowOf == [passed |-> "test_verify_passed",
          failed |-> "apply_unverified", timed_out |-> "apply_unverified"]

\* The row's id is a hash of type, task and diff: an equal one is lost.  If the
\* INSERT fails there is only a warning.
Record(c) ==
    /\ cli[c] = "testing" /\ at[c] = "idle"
    /\ cli' = [cli EXCEPT ![c] = "done"]
    /\ \/ verdict[c] \in DOMAIN RowOf /\ rows' = rows \cup {RowOf[verdict[c]]}
       \/ UNCHANGED rows
    /\ UNCHANGED <<vars, testVars>>

-----------------------------------------------------------------------------

\* Processes die, in the guard or while they wait for the tests.
Death ==
    \/ \E s \in Servers : Die(s) /\ UNCHANGED <<testVars, cli, rows>>
    \/ \E s \in Testers : V!Gone(s) /\ UNCHANGED <<vars, cli, rows>>
    \/ \E c \in Clis :
          /\ V!Gone(c) /\ cli' = [cli EXCEPT ![c] = "done"]
          /\ UNCHANGED <<vars, rows>>

World ==
    /\ \E r \in Runners : V!Expire(r) \/ V!ChildExits(r) \/ V!LetGo(r)
    /\ UNCHANGED <<vars, cli, rows>>

CallsNext ==
    \/ \E s \in Servers : Call(s) \/ Decide(s) \/ Refuse(s)
    \/ \E c \in Clis : AfterApply(c) \/ Record(c)
    \/ \E r \in Runners : Test(r)
    \/ Death \/ World

\* A process that is alive goes on, and time passes.  Nothing is said of the
\* test command.
CallsFairness ==
    /\ \A s \in Servers : WF_callVars(Decide(s) \/ Refuse(s))
    /\ \A c \in Clis : WF_callVars(Record(c))
    /\ \A r \in Runners :
          WF_callVars(Test(r)) /\ WF_callVars(V!Expire(r) /\ UNCHANGED <<vars, cli, rows>>)

CallsSpec == CallsInit /\ [][CallsNext]_callVars /\ CallsFairness

-----------------------------------------------------------------------------
(* Properties.                                                             *)

\* A run is said to have passed, to a client or in tool_events, only if the
\* command exited with code 0 by itself: neither killed nor cut off.
PassedMeansPassed ==
    /\ \A r \in Runners : verdict[r] = "passed" => child[r] = "passed"
    /\ "test_verify_passed" \in rows => \E c \in Clis : child[c] = "passed"

\* "Hard timeout" (ROADMAP): a server answers each call, and an apply command
\* ends, whatever the tests do; but for tests that exited in time and left a
\* process with their pipes, for which run_verify waits without a deadline.
Busy(s) == pc[s] # "idle" \/ ~Free(s)
CallsAnswered ==
    /\ \A s \in Servers : Busy(s) ~> (~Busy(s) \/ (s \in Testers /\ V!HeldBack(s)))
    /\ \A c \in Clis : cli[c] = "testing" ~> (cli[c] = "done" \/ V!HeldBack(c))
=============================================================================

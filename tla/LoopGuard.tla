------------------------------ MODULE LoopGuard -------------------------------
(***************************************************************************)
(* check_and_increment: the budget of mutating MCP tool calls per task and *)
(* agent, kept in task_loop_counters.                                      *)
(*                                                                         *)
(* The guard is three autocommitted statements: an upsert that adds one, a *)
(* SELECT of the new count and, past the limit, the INSERT of a            *)
(* security.blocked row.  One server runs them under its connection mutex, *)
(* so a server is one caller here; servers (one per MCP client on stdio,   *)
(* one on HTTP) interleave on the shared database, and each may die.       *)
(*                                                                         *)
(* Operators named Slip... are mistakes, as in ApprovalPipeline.           *)
(***************************************************************************)
EXTENDS Integers, FiniteSets

CONSTANTS
    Servers,      \* MCP server processes
    Tasks, Agents,
    Max,          \* DEFAULT_MAX_TOOL_CALLS, 50
    MaxCalls,     \* bound on the guarded calls per task and agent
    MaxDeaths     \* bound on the calls of a task and agent that end in the guard

ASSUME GuardAssumption ==
    /\ IsFiniteSet(Servers)
    /\ Max \in Nat /\ MaxCalls \in Nat /\ MaxDeaths \in Nat

VARIABLES
    counter,      \* task_loop_counters.tool_calls; 0 when there is no row
    blocked,      \* security.blocked rows of tool_events, by content id
    pc, call,     \* each server: where it is, and the call's key
    seen,         \* `calls`, while it is past the limit; else 0
    ran,          \* guarded tool calls that went ahead
    refused,      \* guarded tool calls that returned BudgetExceeded
    unwritten,    \* those whose INSERT of a row failed, but for a taken id
    lost          \* counted calls that ended in the guard

vars == <<counter, blocked, pc, call, seen, ran, refused, unwritten, lost>>

Pairs == Tasks \X Agents   \* the primary key <<task_id, agent_id>>

TypeOK ==
    /\ counter \in [Pairs -> Nat]
    /\ blocked \subseteq [task : Tasks, agent : Agents, calls : Nat]
    /\ pc \in [Servers -> {"idle", "read", "block"}]
    /\ call \in [Servers -> Pairs]
    /\ seen \in [Servers -> Nat]
    /\ ran \in [Pairs -> Nat] /\ refused \in [Pairs -> Nat]
    /\ unwritten \in [Pairs -> Nat] /\ lost \in [Pairs -> Nat]

Init ==
    /\ counter = [k \in Pairs |-> 0]
    /\ blocked = {}
    /\ pc = [s \in Servers |-> "idle"]
    /\ call \in {[s \in Servers |-> k] : k \in Pairs}
    /\ seen = [s \in Servers |-> 0]
    /\ ran = [k \in Pairs |-> 0]
    /\ refused = [k \in Pairs |-> 0]
    /\ unwritten = [k \in Pairs |-> 0]
    /\ lost = [k \in Pairs |-> 0]

\* INSERT ... ON CONFLICT DO UPDATE SET tool_calls = tool_calls + 1.
Upsert(s, k) ==
    /\ pc[s] = "idle" /\ counter[k] < MaxCalls
    /\ counter' = [counter EXCEPT ![k] = @ + 1]
    /\ call' = [call EXCEPT ![s] = k]
    /\ pc' = [pc EXCEPT ![s] = "read"]
    /\ UNCHANGED <<blocked, seen, ran, refused, unwritten, lost>>

\* SELECT tool_calls; within the limit the guard returns Ok and the tool runs.
SlipExceeds(n) == n > Max + 1
SlipReaches(n) == n >= Max
Exceeds(n) == n > Max

Read(s) ==
    LET k == call[s]
    IN  /\ pc[s] = "read"
        /\ \/ /\ Exceeds(counter[k])
              /\ pc' = [pc EXCEPT ![s] = "block"]
              /\ seen' = [seen EXCEPT ![s] = counter[k]]
              /\ UNCHANGED ran
           \/ /\ ~Exceeds(counter[k])
              /\ ran' = [ran EXCEPT ![k] = @ + 1]
              /\ pc' = [pc EXCEPT ![s] = "idle"]
              /\ UNCHANGED seen
        /\ UNCHANGED <<counter, blocked, call, refused, unwritten, lost>>

SlipRow(s) == [task |-> call[s][1], agent |-> call[s][2], calls |-> Max - seen[s]]
Row(s) == [task |-> call[s][1], agent |-> call[s][2], calls |-> seen[s]]

\* The row's id is compute_event_id(task_id, calls), without the agent: a row
\* with the same id makes the INSERT fail.
IdTaken(s) == \E b \in blocked : b.task = Row(s).task /\ b.calls = Row(s).calls

SlipBlock(s) ==   \* one row, by the call that is the first too many
    /\ pc[s] = "block"
    /\ \/ /\ blocked' = IF seen[s] = Max + 1 THEN blocked \cup {Row(s)} ELSE blocked
          /\ UNCHANGED unwritten
       \/ /\ unwritten' = [unwritten EXCEPT ![call[s]] = @ + 1]
          /\ UNCHANGED blocked
    /\ refused' = [refused EXCEPT ![call[s]] = @ + 1]
    /\ pc' = [pc EXCEPT ![s] = "idle"] /\ seen' = [seen EXCEPT ![s] = 0]
    /\ UNCHANGED <<counter, call, ran, lost>>

\* The call is refused whether or not its row is written: a taken id, a busy
\* database and a full disk are all ignored.
Block(s) ==
    /\ pc[s] = "block"
    /\ \/ /\ blocked' = IF IdTaken(s) THEN blocked ELSE blocked \cup {Row(s)}
          /\ UNCHANGED unwritten
       \/ /\ unwritten' = [unwritten EXCEPT ![call[s]] = @ + 1]
          /\ UNCHANGED blocked
    /\ refused' = [refused EXCEPT ![call[s]] = @ + 1]
    /\ pc' = [pc EXCEPT ![s] = "idle"] /\ seen' = [seen EXCEPT ![s] = 0]
    /\ UNCHANGED <<counter, call, ran, lost>>

\* The process dies in the guard and is started again, or the SELECT fails and
\* the call with it: the counter stays.
Die(s) ==
    /\ pc[s] # "idle" /\ lost[call[s]] < MaxDeaths
    /\ lost' = [lost EXCEPT ![call[s]] = @ + 1]
    /\ pc' = [pc EXCEPT ![s] = "idle"] /\ seen' = [seen EXCEPT ![s] = 0]
    /\ UNCHANGED <<counter, blocked, call, ran, refused, unwritten>>

Next == \E s \in Servers :
    (\E k \in Pairs : Upsert(s, k)) \/ Read(s) \/ Block(s) \/ Die(s)

Spec == Init /\ [][Next]_vars

-----------------------------------------------------------------------------
(* Properties.                                                             *)

\* "Concurrent calls cannot both pass the limit" (ROADMAP): however the
\* statements of several servers interleave, and whichever die, no more than
\* Max tool calls run for a task and an agent.
BudgetKept == \A k \in Pairs : ran[k] <= Max

\* The guard blocks too early only by what may race: once a call was refused,
\* all calls of the budget ran, or ended in the guard, but for one of each
\* other server that read the count after the last of the budget was taken.
EarlyBlocksBounded ==
    \A k \in Pairs :
        refused[k] > 0 => ran[k] + lost[k] >= Max - (Cardinality(Servers) - 1)

\* What is left of "security.blocked event is written to tool_events on budget
\* exceeded" (ROADMAP), as a failing INSERT is ignored: a task has a row unless
\* the INSERT of each of its refusals failed for another reason than a row with
\* the same id.  The row may be another call's, of two refused at one count.  And
\* the rows are true: each is of a pair that was refused, and says a count that
\* was past the limit and was reached.
RefusalsRecorded ==
    /\ \A k \in Pairs : refused[k] > unwritten[k] => \E b \in blocked : b.task = k[1]
    /\ \A b \in blocked :
          LET k == <<b.task, b.agent>>
          IN  refused[k] > unwritten[k] /\ b.calls > Max /\ b.calls <= counter[k]
=============================================================================

------------------------------ MODULE Migrations ------------------------------
(***************************************************************************)
(* run_migrations, which every command and server of SkyCodeOS calls when  *)
(* it starts: the scripts of memory/migrations in the order of their       *)
(* numbers, each of them unless the ledger _skycode_migrations has its     *)
(* number, and then the ledger row.  There is no transaction around a      *)
(* script: execute_batch runs statement after statement, and each commits  *)
(* on its own.  Processes start at any time, on an empty database or on    *)
(* one that an earlier version left at 7; they may be killed between any   *)
(* two statements and be started again, while processes that came up       *)
(* before append to tool_events.                                           *)
(*                                                                         *)
(* A script is the list of those statements that can fail or that another  *)
(* script depends on; the tables of 001 that nothing else names stand or   *)
(* fall with the first of them, "memories", and the last, "relationships". *)
(*                                                                         *)
(* Operators named Slip... are no part of the model: each is a plausible   *)
(* mistake in the definition after it.                                     *)
(***************************************************************************)
EXTENDS Integers, Sequences, FiniteSets

CONSTANTS
    Procs,      \* processes that start and migrate
    Rows,       \* rows of tool_events
    OldRows,    \* those in the database that is left at 7
    MaxStarts,  \* bound on the starts
    MaxKills,   \* bound on the kills
    None        \* no version

ASSUME MigrationsAssumption ==
    /\ OldRows \subseteq Rows
    /\ MaxStarts \in Nat /\ MaxKills \in Nat
    /\ None \notin Int

VARIABLES
    tables, columns, triggers,  \* the schema: tables, added columns, triggers of tool_events
    events,   \* rows of tool_events
    copied,   \* rows of tool_events_phase9
    ledger,   \* versions in _skycode_migrations
    pc,       \* where each process is
    at, line, \* the script it runs and the statement it is at
    up,       \* some process came up, now or under an earlier version, and serves
    starts, kills,
    logged, late, together, torn  \* history: see AppendEvent, Check and Kill

schemaVars == <<tables, columns, triggers, events, copied>>
procVars   == <<pc, at, line>>
history    == <<logged, late, together, torn>>
vars       == <<schemaVars, ledger, procVars, up, starts, kills, history>>

-----------------------------------------------------------------------------
(* The scripts, one definition per file.                                   *)

Create(t)       == [op |-> "create", on |-> t, what |-> None]         \* CREATE TABLE
Ensure(t)       == [op |-> "ensure", on |-> t, what |-> None]         \* ... IF NOT EXISTS
AddColumn(t, c) == [op |-> "addColumn", on |-> t, what |-> c]         \* ALTER TABLE ADD COLUMN
Touch(t)        == [op |-> "touch", on |-> t, what |-> None]          \* CREATE INDEX, UPDATE
Protect(x)      == [op |-> "protect", on |-> "tool_events", what |-> x]   \* CREATE TRIGGER
Unprotect(x)    == [op |-> "unprotect", on |-> "tool_events", what |-> x] \* DROP TRIGGER IF EXISTS
Copy            == [op |-> "copy", on |-> "tool_events_phase9", what |-> None]
Drop(t)         == [op |-> "drop", on |-> t, what |-> None]           \* DROP TABLE IF EXISTS
Rename          == [op |-> "rename", on |-> "tool_events_phase9", what |-> None]

Triggers == {"no_update", "no_delete"}
Replaced == {"tool_events", "tool_events_phase9"}  \* what 0008 drops and renames

Initial == <<Create("memories"), Create("tool_events"), Protect("no_update"), Protect("no_delete"),
             Create("tuning_runs"), Create("agent_state"), Create("_skycode_migrations"),
             Create("relationships")>>
SlipTuningRuns == <<Create("tuning_runs"), Touch("tuning_runs")>>
TuningRuns     == <<Ensure("tuning_runs"), Touch("tuning_runs")>>
SigningKeys    == <<Ensure("signing_keys")>>
DiffSets       == <<Ensure("diff_sets"), Ensure("diff_set_members")>>
AgentTestCommand == <<Ensure("agent_state"), AddColumn("agent_state", "test_command"),
                      AddColumn("agent_state", "verify_timeout_secs")>>
LoopGuard == <<Ensure("task_loop_counters")>>
SlipTasks ==   \* a copy that an earlier start left is thrown away first
         <<Ensure("submitted_tasks"), Drop("tool_events_phase9"), Ensure("tool_events_phase9"), Copy,
           Unprotect("no_update"), Unprotect("no_delete"), Drop("tool_events"), Rename,
           Touch("tool_events"), Protect("no_update"), Protect("no_delete")>>
SlipTasksOpen ==   \* the triggers went with the table, and nobody makes them again
         <<Ensure("submitted_tasks"), Ensure("tool_events_phase9"), Copy,
           Drop("tool_events"), Rename, Touch("tool_events")>>
Tasks == <<Ensure("submitted_tasks"), Ensure("tool_events_phase9"), Copy,
           Unprotect("no_update"), Unprotect("no_delete"), Drop("tool_events"), Rename,
           Touch("tool_events"), Protect("no_update"), Protect("no_delete")>>
KeyRegistry == <<AddColumn("signing_keys", "key_id"), Touch("signing_keys"), Touch("signing_keys")>>

Versions == {1, 2, 3, 4, 5, 7, 8, 9}

Script == [v \in Versions |->
    CASE v = 1 -> Initial  [] v = 2 -> TuningRuns [] v = 3 -> SigningKeys
      [] v = 4 -> DiffSets [] v = 5 -> AgentTestCommand [] v = 7 -> LoopGuard
      [] v = 8 -> Tasks    [] v = 9 -> KeyRegistry]

TableNames == {"memories", "tool_events", "tuning_runs", "agent_state", "_skycode_migrations",
               "relationships", "signing_keys", "diff_sets", "diff_set_members",
               "task_loop_counters", "submitted_tasks", "tool_events_phase9"}
ColumnNames == {"test_command", "verify_timeout_secs", "key_id"}

-----------------------------------------------------------------------------
Labels == {"off", "check", "run", "record", "ready", "failed"}

TypeOK ==
    /\ tables \subseteq TableNames /\ columns \subseteq ColumnNames /\ triggers \subseteq Triggers
    /\ events \subseteq Rows /\ copied \subseteq Rows
    /\ ledger \subseteq Versions
    /\ pc \in [Procs -> Labels] /\ at \in [Procs -> Versions \cup {0}] /\ line \in [Procs -> Nat]
    /\ \A p \in Procs : pc[p] = "run" => at[p] \in Versions /\ line[p] \in DOMAIN Script[at[p]]
    /\ \A p \in Procs : pc[p] = "record" => at[p] \in Versions /\ line[p] = Len(Script[at[p]]) + 1
    /\ up \in BOOLEAN /\ starts \in 0..MaxStarts /\ kills \in 0..MaxKills
    /\ logged \subseteq Rows /\ late \subseteq logged
    /\ together \subseteq Versions /\ torn \subseteq Versions

\* A database that does not exist yet, or one that an earlier version of the
\* program left at 7, with a server of that version still running.
Empty ==
    /\ tables = {} /\ columns = {} /\ triggers = {} /\ ledger = {}
    /\ events = {} /\ logged = {} /\ up = FALSE
LeftAtSeven ==
    /\ tables = TableNames \ {"submitted_tasks", "tool_events_phase9"}
    /\ columns = ColumnNames \ {"key_id"}
    /\ triggers = Triggers
    /\ ledger = {1, 2, 3, 4, 5, 7}
    /\ events = OldRows /\ logged = OldRows /\ up = TRUE

Init ==
    /\ Empty \/ LeftAtSeven
    /\ copied = {}
    /\ pc = [p \in Procs |-> "off"] /\ at = [p \in Procs |-> 0] /\ line = [p \in Procs |-> 1]
    /\ starts = 0 /\ kills = 0
    /\ late = {} /\ together = {} /\ torn = {}

-----------------------------------------------------------------------------
(* One statement of a script.                                              *)

\* The statements that SQLite refuses.
Fails(s) ==
    \/ s.op = "create" /\ s.on \in tables
    \/ s.op = "addColumn" /\ s.what \in columns
    \/ s.op \in {"addColumn", "touch", "protect"} /\ s.on \notin tables
    \/ s.op = "copy" /\ ~(Replaced \subseteq tables)
    \/ s.op = "rename" /\ ("tool_events_phase9" \notin tables \/ "tool_events" \in tables)

Execute(s) ==
    \/ /\ s.op \in {"create", "ensure"}
       /\ tables' = tables \cup {s.on}
       /\ UNCHANGED <<columns, triggers, events, copied>>
    \/ /\ s.op = "addColumn"
       /\ columns' = columns \cup {s.what}
       /\ UNCHANGED <<tables, triggers, events, copied>>
    \/ /\ s.op = "protect" /\ triggers' = triggers \cup {s.what}
       /\ UNCHANGED <<tables, columns, events, copied>>
    \/ /\ s.op = "unprotect" /\ triggers' = triggers \ {s.what}
       /\ UNCHANGED <<tables, columns, events, copied>>
    \/ /\ s.op = "copy"                            \* INSERT OR IGNORE ... SELECT
       /\ copied' = copied \cup events
       /\ UNCHANGED <<tables, columns, triggers, events>>
    \/ /\ s.op = "drop" /\ s.on = "tool_events"    \* its triggers go with it
       /\ tables' = tables \ {s.on} /\ events' = {} /\ triggers' = {}
       /\ UNCHANGED <<columns, copied>>
    \/ /\ s.op = "drop" /\ s.on = "tool_events_phase9"
       /\ tables' = tables \ {s.on} /\ copied' = {}
       /\ UNCHANGED <<columns, triggers, events>>
    \/ /\ s.op = "rename"
       /\ tables' = (tables \ {"tool_events_phase9"}) \cup {"tool_events"}
       /\ events' = copied /\ copied' = {}
       /\ UNCHANGED <<columns, triggers>>
    \/ s.op = "touch" /\ UNCHANGED schemaVars

-----------------------------------------------------------------------------
(* A process.                                                              *)

Start(p) ==
    /\ pc[p] \in {"off", "ready", "failed"} /\ starts < MaxStarts
    /\ starts' = starts + 1
    /\ pc' = [pc EXCEPT ![p] = "check"] /\ at' = [at EXCEPT ![p] = 0]
    /\ UNCHANGED <<schemaVars, ledger, line, up, kills, history>>

\* The version after v in numeric order, None after the last.
SlipFollowingGap(v) == IF v = 9 THEN None ELSE v + 1   \* there is no 6
Following(v) ==
    LET later == {w \in Versions : w > v}
    IN IF later = {} THEN None ELSE CHOOSE w \in later : \A u \in later : w <= u

\* The ledger is asked for one version after the other.  together remembers
\* the versions that two processes were at work on at the same time.
Working(p, v) == pc[p] \in {"run", "record"} /\ at[p] = v

Check(p) ==
    /\ pc[p] = "check"
    /\ UNCHANGED <<schemaVars, ledger, starts, kills, logged, late, torn>>
    /\ LET v == Following(at[p])
       IN \/ /\ v = None
             /\ pc' = [pc EXCEPT ![p] = "ready"] /\ up' = TRUE
             /\ UNCHANGED <<at, line, together>>
          \/ /\ v # None /\ v \in ledger
             /\ at' = [at EXCEPT ![p] = v]
             /\ UNCHANGED <<pc, line, up, together>>
          \/ /\ v # None /\ v \notin ledger
             /\ pc' = [pc EXCEPT ![p] = "run"]
             /\ at' = [at EXCEPT ![p] = v] /\ line' = [line EXCEPT ![p] = 1]
             /\ together' = together \cup {w \in {v} : \E q \in Procs \ {p} : Working(q, w)}
             /\ UNCHANGED up

RunStatement(p) ==
    /\ pc[p] = "run"
    /\ UNCHANGED <<ledger, at, up, starts, kills, history>>
    /\ LET script == Script[at[p]]
           s      == script[line[p]]
       IN \/ /\ Fails(s)
             /\ pc' = [pc EXCEPT ![p] = "failed"]
             /\ UNCHANGED <<schemaVars, line>>
          \/ /\ ~Fails(s) /\ Execute(s)
             /\ line' = [line EXCEPT ![p] = @ + 1]
             /\ pc' = [pc EXCEPT ![p] = IF line[p] = Len(script) THEN "record" ELSE @]

\* The INSERT, whose primary key is the version, and the ledger table before
\* it should no script have made it.
Record(p) ==
    /\ pc[p] = "record"
    /\ tables' = tables \cup {"_skycode_migrations"}
    /\ ledger' = ledger \cup {at[p]}
    /\ pc' = [pc EXCEPT ![p] = IF at[p] \in ledger THEN "failed" ELSE "check"]
    /\ UNCHANGED <<columns, triggers, events, copied, at, line, up, starts, kills, history>>

\* A kill, or a statement that fails for want of disk space or of the lock;
\* torn remembers the versions that were left where they cannot be resumed:
\* after a statement that cannot be run twice, or with tool_events dropped.
Unrepeatable(v, n) ==
    \/ \E i \in 1..(n - 1) : Script[v][i].op \in {"create", "addColumn"}
    \/ n \in DOMAIN Script[v] /\ Script[v][n].op = "rename"

Kill(p) ==
    /\ pc[p] \in {"check", "run", "record"} /\ kills < MaxKills
    /\ kills' = kills + 1
    /\ pc' = [pc EXCEPT ![p] = "off"]
    /\ torn' = torn \cup {v \in {at[p]} : pc[p] # "check" /\ Unrepeatable(v, line[p])}
    /\ UNCHANGED <<schemaVars, ledger, at, line, up, starts, logged, late, together>>

\* append_event in a process that serves: an error to its client while the
\* table is missing.  late remembers the rows that came after a copy was made
\* and before the table is dropped.
Copied(p) == pc[p] = "run" /\ at[p] = 8 /\ line[p] \in 4..6

AppendEvent(r) ==
    /\ up /\ "tool_events" \in tables /\ r \notin logged
    /\ events' = events \cup {r} /\ logged' = logged \cup {r}
    /\ late' = late \cup {x \in {r} : \E p \in Procs : Copied(p)}
    /\ UNCHANGED <<tables, columns, triggers, copied, ledger, procVars, up, starts, kills,
                   together, torn>>

Next ==
    \/ \E p \in Procs : Start(p) \/ Check(p) \/ RunStatement(p) \/ Record(p) \/ Kill(p)
    \/ \E r \in Rows : AppendEvent(r)

Spec == Init /\ [][Next]_vars

-----------------------------------------------------------------------------
(* Properties.                                                             *)

\* What a statement of a script leaves behind, unless 0008 replaces it.
Stands(s) ==
    /\ s.op \in {"create", "ensure"} /\ s.on \notin Replaced => s.on \in tables
    /\ s.op = "addColumn" => s.what \in columns

\* The ledger is true (migrations.rs:37-64): a version in it has every earlier
\* one in it too, and every table and column of its script, whoever was killed
\* or raced; and after 0008 the events are in a table of the old name that both
\* triggers guard, unless two processes were in 0008 at once.
LedgerTrue ==
    /\ \A v \in ledger : /\ \A w \in Versions : w < v => w \in ledger
                         /\ \A i \in DOMAIN Script[v] : Stands(Script[v][i])
    /\ 8 \in ledger \ together =>
         /\ "tool_events" \in tables /\ "tool_events_phase9" \notin tables
         /\ triggers = Triggers

\* tool_events is append-only (001_initial.sql:80), and 0008 replaces the
\* table: no kill at any statement and no start after it loses an event, except
\* one that was appended between the copy and the drop; two processes in 0008 at
\* once are the other exception, and a real one.
EventsKept == 8 \notin together => logged \ late \subseteq events \cup copied

\* A start fails at a version (the `?` of migrations.rs:42-64) only when it ran
\* into another process at work on it, or an earlier start was cut off where the script cannot
\* be resumed: a kill anywhere in 002, 003, 004 or 0007 is made good by the next start.
FailuresExplained == \A p \in Procs : pc[p] = "failed" => at[p] \in together \cup torn
=============================================================================

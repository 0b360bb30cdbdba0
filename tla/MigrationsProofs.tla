--------------------------- MODULE MigrationsProofs ---------------------------
(***************************************************************************)
(* What Migrations promises, for any number of processes, starts, kills    *)
(* and events: the ledger has no gaps (Ordered) and is true (Standing,     *)
(* Alone, Safe), and 0008 keeps the events (First, Safe); a start that     *)
(* fails is explained (Resumable, EventsThere).  One preservation lemma    *)
(* per conjunct of the inductive invariant, with a step per action.        *)
(***************************************************************************)
EXTENDS Migrations, TLAPS

Statements == [op : {"create", "ensure", "addColumn", "touch", "protect", "unprotect", "copy",
                     "drop", "rename"},
               on : TableNames, what : ColumnNames \cup Triggers \cup {None}]

LEMMA ScriptIs ==
    /\ Script[1] = Initial /\ Script[2] = TuningRuns /\ Script[3] = SigningKeys
    /\ Script[4] = DiffSets /\ Script[5] = AgentTestCommand /\ Script[7] = LoopGuard
    /\ Script[8] = Tasks /\ Script[9] = KeyRegistry
BY DEF Script, Versions

LEMMA StatementTypes ==
    ASSUME NEW v \in Versions
    PROVE  /\ Script[v] \in Seq(Statements) /\ Len(Script[v]) \in Nat \ {0}
           /\ DOMAIN Script[v] = 1..Len(Script[v])
<1> USE DEF Statements, TableNames, ColumnNames, Triggers, Create, Ensure, AddColumn, Touch,
            Protect, Unprotect, Copy, Drop, Rename
<1>1. Initial \in Seq(Statements) /\ Len(Initial) = 8 /\ DOMAIN Initial = 1..8
  BY DEF Initial
<1>2. TuningRuns \in Seq(Statements) /\ Len(TuningRuns) = 2 /\ DOMAIN TuningRuns = 1..2
  BY DEF TuningRuns
<1>3. SigningKeys \in Seq(Statements) /\ Len(SigningKeys) = 1 /\ DOMAIN SigningKeys = 1..1
  BY DEF SigningKeys
<1>4. DiffSets \in Seq(Statements) /\ Len(DiffSets) = 2 /\ DOMAIN DiffSets = 1..2
  BY DEF DiffSets
<1>5. AgentTestCommand \in Seq(Statements) /\ Len(AgentTestCommand) = 3 /\ DOMAIN AgentTestCommand = 1..3
  BY DEF AgentTestCommand
<1>7. LoopGuard \in Seq(Statements) /\ Len(LoopGuard) = 1 /\ DOMAIN LoopGuard = 1..1
  BY DEF LoopGuard
<1>8. Tasks \in Seq(Statements) /\ Len(Tasks) = 10 /\ DOMAIN Tasks = 1..10
  BY DEF Tasks
<1>9. KeyRegistry \in Seq(Statements) /\ Len(KeyRegistry) = 3 /\ DOMAIN KeyRegistry = 1..3
  BY DEF KeyRegistry
<1> DEFINE Fine(q) == /\ q \in Seq(Statements) /\ Len(q) \in Nat \ {0}
                      /\ DOMAIN q = 1..Len(q)
<1>10. /\ Fine(Initial) /\ Fine(TuningRuns) /\ Fine(SigningKeys) /\ Fine(DiffSets)
       /\ Fine(AgentTestCommand) /\ Fine(LoopGuard) /\ Fine(Tasks) /\ Fine(KeyRegistry)
  BY <1>1, <1>2, <1>3, <1>4, <1>5, <1>7, <1>8, <1>9
<1> HIDE DEF Fine
<1>11. Fine(Script[v])
  BY <1>10, ScriptIs DEF Versions
<1> QED
  BY <1>11 DEF Fine

LEMMA FollowingFacts ==
    ASSUME NEW v \in Versions \cup {0}
    PROVE  /\ v = 9 => Following(v) = None
           /\ v # 9 => /\ Following(v) \in Versions /\ v < Following(v)
                       /\ \A w \in Versions : w < Following(v) => w <= v
<1> DEFINE later == {w \in Versions : w > v}
<1>1. CASE v = 9
  BY <1>1 DEF Following, Versions
<1>2. CASE v # 9
  <2>1. \E w \in later : \A u \in later : w <= u
    <3>1. v \in {0, 1, 2, 3, 4, 5, 7, 8}
      BY <1>2 DEF Versions
    <3> DEFINE next == IF v = 5 THEN 7 ELSE v + 1
    <3>2. next \in later /\ \A u \in later : next <= u
      BY <3>1 DEF Versions
    <3> QED BY <3>2
  <2>2. Following(v) \in later /\ \A u \in later : Following(v) <= u
    BY <2>1 DEF Following
  <2> QED
    BY <1>2, <2>2 DEF Versions
<1> QED
  BY <1>1, <1>2

\* The statements of the scripts that are not 0008, and where they differ.
LEMMA OtherScripts ==
    ASSUME NEW v \in Versions, v # 8, NEW i \in DOMAIN Script[v]
    PROVE  LET s == Script[v][i]
           IN /\ s.op \in {"create", "ensure", "addColumn", "touch", "protect"}
              /\ s.op = "create" => v = 1
              /\ s.op = "addColumn" => v \in {5, 9}
              /\ s.op \in {"create", "ensure"} /\ s.on = "tool_events" => v = 1 /\ i = 2
              /\ s.op \in {"create", "ensure"} => s.on # "tool_events_phase9"
              /\ s.op = "protect" => s.what \in Triggers
              /\ s.op = "addColumn" => s.what \in ColumnNames
              /\ s.on \in TableNames
<1> USE DEF Create, Ensure, AddColumn, Touch, Protect, Triggers, ColumnNames, TableNames
<1>1. CASE v = 1
  <2>1. Script[v] = Initial /\ i \in 1..8
    BY <1>1, ScriptIs DEF Initial
  <2> QED BY <2>1, <1>1 DEF Initial
<1>2. CASE v = 2
  BY <1>2, ScriptIs DEF TuningRuns
<1>3. CASE v = 3
  BY <1>3, ScriptIs DEF SigningKeys
<1>4. CASE v = 4
  BY <1>4, ScriptIs DEF DiffSets
<1>5. CASE v = 5
  BY <1>5, ScriptIs DEF AgentTestCommand
<1>7. CASE v = 7
  BY <1>7, ScriptIs DEF LoopGuard
<1>9. CASE v = 9
  BY <1>9, ScriptIs DEF KeyRegistry
<1> QED
  BY <1>1, <1>2, <1>3, <1>4, <1>5, <1>7, <1>9 DEF Versions

LEMMA TasksScript ==
    /\ DOMAIN Script[8] = 1..10 /\ Len(Script[8]) = 10
    /\ Script[8][1] = Ensure("submitted_tasks") /\ Script[8][2] = Ensure("tool_events_phase9")
    /\ Script[8][3] = Copy
    /\ Script[8][4] = Unprotect("no_update") /\ Script[8][5] = Unprotect("no_delete")
    /\ Script[8][6] = Drop("tool_events") /\ Script[8][7] = Rename
    /\ Script[8][8] = Touch("tool_events")
    /\ Script[8][9] = Protect("no_update") /\ Script[8][10] = Protect("no_delete")
BY ScriptIs DEF Tasks

LEMMA TasksLength == Len(Script[8]) = 10 /\ 8 \in Versions
BY ScriptIs DEF Tasks, Versions

\* Where a process is in its script.
LEMMA AtStatement ==
    ASSUME TypeOK, NEW p \in Procs, RunStatement(p)
    PROVE  /\ pc[p] = "run" /\ at[p] \in Versions
           /\ line[p] \in DOMAIN Script[at[p]] /\ line[p] \in 1..Len(Script[at[p]])
           /\ Script[at[p]] \in Seq(Statements) /\ Len(Script[at[p]]) \in Nat
           /\ Script[at[p]][line[p]] \in Statements
<1>1. pc[p] = "run" /\ at[p] \in Versions /\ line[p] \in DOMAIN Script[at[p]]
  BY DEF TypeOK, RunStatement
<1>2. /\ Script[at[p]] \in Seq(Statements) /\ Len(Script[at[p]]) \in Nat
      /\ DOMAIN Script[at[p]] = 1..Len(Script[at[p]])
  BY <1>1, StatementTypes
<1> QED
  BY <1>1, <1>2

LEMMA TypeInit == Init => TypeOK
<1> SUFFICES ASSUME Init PROVE TypeOK
  OBVIOUS
<1>1. (Empty \/ LeftAtSeven) => tables \subseteq TableNames /\ columns \subseteq ColumnNames
          /\ triggers \subseteq Triggers /\ ledger \subseteq Versions
          /\ events \subseteq Rows /\ logged \subseteq Rows /\ up \in BOOLEAN
  BY MigrationsAssumption DEF Empty, LeftAtSeven, Versions
<1> QED
  BY <1>1, MigrationsAssumption DEF Init, TypeOK, Labels

LEMMA ExecuteTypes ==
    ASSUME TypeOK, NEW s \in Statements, Execute(s), s.op = "addColumn" => s.what \in ColumnNames,
           s.op = "protect" => s.what \in Triggers
    PROVE  /\ tables' \subseteq TableNames /\ columns' \subseteq ColumnNames
           /\ triggers' \subseteq Triggers /\ events' \subseteq Rows /\ copied' \subseteq Rows
<1>1. "tool_events" \in TableNames
  BY DEF TableNames
<1>2. s.on \in TableNames
  BY DEF Statements
<1>3. /\ tables \subseteq TableNames /\ columns \subseteq ColumnNames
      /\ triggers \subseteq Triggers /\ events \subseteq Rows /\ copied \subseteq Rows
  BY DEF TypeOK
<1> HIDE DEF TypeOK
<1> QED
  BY <1>1, <1>2, <1>3 DEF Execute, schemaVars

\* A statement that goes through leaves the schema well-typed.
LEMMA StatementTyped ==
    ASSUME TypeOK, NEW p \in Procs, RunStatement(p)
    PROVE  /\ tables' \subseteq TableNames /\ columns' \subseteq ColumnNames
           /\ triggers' \subseteq Triggers /\ events' \subseteq Rows /\ copied' \subseteq Rows
<1> DEFINE s == Script[at[p]][line[p]]
<1>1. s \in Statements /\ at[p] \in Versions /\ line[p] \in DOMAIN Script[at[p]]
  BY AtStatement
<1>2. (s.op = "addColumn" => s.what \in ColumnNames) /\ (s.op = "protect" => s.what \in Triggers)
  <2>1. CASE at[p] = 8
    <3>1. line[p] \in 1..10 /\ s = Script[8][line[p]]
      BY <1>1, <2>1, TasksScript
    <3> QED
      BY <3>1, TasksScript DEF Ensure, Touch, Protect, Unprotect, Copy, Drop, Rename, Triggers
  <2>2. CASE at[p] # 8
    BY <1>1, <2>2, OtherScripts
  <2> QED BY <2>1, <2>2
<1>3. CASE Execute(s)
  BY <1>1, <1>2, <1>3, ExecuteTypes
<1>4. CASE UNCHANGED schemaVars
  BY <1>4 DEF TypeOK, schemaVars
<1> QED
  BY <1>3, <1>4 DEF RunStatement

LEMMA TypeStep == TypeOK /\ [Next]_vars => TypeOK'
<1> SUFFICES ASSUME TypeOK, [Next]_vars PROVE TypeOK'
  OBVIOUS
<1> USE MigrationsAssumption DEF Labels
<1>1. ASSUME NEW p \in Procs, Start(p) PROVE TypeOK'
  BY <1>1 DEF TypeOK, Start, schemaVars, history
<1>2. ASSUME NEW p \in Procs, Check(p) PROVE TypeOK'
  <2> DEFINE v == Following(at[p])
  <2>1. v = None \/ (v \in Versions /\ 1 \in DOMAIN Script[v])
    BY FollowingFacts, StatementTypes DEF TypeOK
  <2>2. UNCHANGED <<schemaVars, ledger, starts, kills, logged, late, torn>>
    BY <1>2 DEF Check
  <2>3. CASE v = None /\ pc' = [pc EXCEPT ![p] = "ready"] /\ up' = TRUE
             /\ UNCHANGED <<at, line, together>>
    BY <2>2, <2>3 DEF TypeOK, schemaVars
  <2>4. CASE v # None /\ at' = [at EXCEPT ![p] = v] /\ UNCHANGED <<pc, line, up, together>>
    BY <1>2, <2>1, <2>2, <2>4 DEF TypeOK, schemaVars, Check
  <2>5. CASE /\ v # None /\ pc' = [pc EXCEPT ![p] = "run"]
             /\ at' = [at EXCEPT ![p] = v] /\ line' = [line EXCEPT ![p] = 1]
             /\ together' = together \cup {w \in {v} : \E q \in Procs \ {p} : Working(q, w)}
             /\ UNCHANGED up
    BY <2>1, <2>2, <2>5 DEF TypeOK, schemaVars
  <2> QED
    BY <1>2, <2>3, <2>4, <2>5 DEF Check
<1>3. ASSUME NEW p \in Procs, RunStatement(p) PROVE TypeOK'
  <2>1. /\ tables' \subseteq TableNames /\ columns' \subseteq ColumnNames
        /\ triggers' \subseteq Triggers /\ events' \subseteq Rows /\ copied' \subseteq Rows
    BY <1>3, StatementTyped
  <2>2. /\ pc[p] = "run" /\ at[p] \in Versions /\ line[p] \in 1..Len(Script[at[p]])
        /\ Len(Script[at[p]]) \in Nat /\ DOMAIN Script[at[p]] = 1..Len(Script[at[p]])
    BY <1>3, AtStatement, StatementTypes
  <2>3. UNCHANGED <<ledger, at, up, starts, kills, history>>
    BY <1>3 DEF RunStatement
  <2>4. CASE pc' = [pc EXCEPT ![p] = "failed"] /\ UNCHANGED line
    BY <2>1, <2>3, <2>4 DEF TypeOK, history
  <2>5. CASE /\ line' = [line EXCEPT ![p] = @ + 1]
             /\ pc' = [pc EXCEPT ![p] = IF line[p] = Len(Script[at[p]]) THEN "record" ELSE @]
    BY <2>1, <2>2, <2>3, <2>5 DEF TypeOK, history
  <2> QED
    BY <1>3, <2>4, <2>5 DEF RunStatement
<1>4. ASSUME NEW p \in Procs, Record(p) PROVE TypeOK'
  BY <1>4 DEF TypeOK, Record, history, TableNames
<1>5. ASSUME NEW p \in Procs, Kill(p) PROVE TypeOK'
  <2>1. torn' \subseteq Versions
    BY <1>5 DEF Kill, TypeOK
  <2> QED BY <1>5, <2>1 DEF TypeOK, Kill, schemaVars
<1>6. ASSUME NEW r \in Rows, AppendEvent(r) PROVE TypeOK'
  BY <1>6 DEF TypeOK, AppendEvent, procVars
<1>7. CASE UNCHANGED vars
  BY <1>7 DEF TypeOK, vars, schemaVars, procVars, history
<1> QED
  BY <1>1, <1>2, <1>3, <1>4, <1>5, <1>6, <1>7 DEF Next

-----------------------------------------------------------------------------
\* A process that checks, or works at, a version has seen every earlier one in
\* the ledger, which has no gaps.
Ordered ==
    /\ \A p \in Procs : pc[p] \in {"check", "run", "record"} =>
         \A w \in Versions : (w < at[p] \/ (pc[p] = "check" /\ w = at[p])) => w \in ledger
    /\ \A v \in ledger : \A w \in Versions : w < v => w \in ledger

LEMMA OrderedStep == TypeOK /\ Ordered /\ [Next]_vars => Ordered'
<1> SUFFICES ASSUME TypeOK, Ordered, [Next]_vars PROVE Ordered'
  OBVIOUS
<1>1. ASSUME NEW p \in Procs, Start(p) PROVE Ordered'
  BY <1>1 DEF Ordered, Start, TypeOK, Versions
<1>2. ASSUME NEW p \in Procs, Check(p) PROVE Ordered'
  <2> DEFINE v == Following(at[p])
  <2>1. at[p] \in Versions \cup {0} /\ pc[p] = "check" /\ UNCHANGED ledger
    BY <1>2 DEF TypeOK, Check
  <2>2. v # None => v \in Versions /\ at[p] < v /\ \A w \in Versions : w < v => w <= at[p]
    BY <2>1, FollowingFacts
  <2>3. v # None => \A w \in Versions : w < v => w \in ledger
    BY <2>1, <2>2 DEF Ordered, Versions
  <2>4. CASE v = None /\ pc' = [pc EXCEPT ![p] = "ready"] /\ UNCHANGED at
    BY <2>1, <2>4 DEF Ordered, TypeOK
  <2>5. CASE v # None /\ v \in ledger /\ at' = [at EXCEPT ![p] = v] /\ UNCHANGED pc
    BY <2>1, <2>3, <2>5 DEF Ordered, TypeOK
  <2>6. CASE v # None /\ pc' = [pc EXCEPT ![p] = "run"] /\ at' = [at EXCEPT ![p] = v]
    BY <2>1, <2>3, <2>6 DEF Ordered, TypeOK
  <2> QED
    BY <1>2, <2>4, <2>5, <2>6 DEF Check
<1>3. ASSUME NEW p \in Procs, RunStatement(p) PROVE Ordered'
  BY <1>3 DEF Ordered, RunStatement, TypeOK
<1>4. ASSUME NEW p \in Procs, Record(p) PROVE Ordered'
  BY <1>4 DEF Ordered, Record, TypeOK, Versions
<1>5. ASSUME NEW p \in Procs, Kill(p) PROVE Ordered'
  BY <1>5 DEF Ordered, Kill, TypeOK
<1>6. ASSUME NEW r \in Rows, AppendEvent(r) PROVE Ordered'
  BY <1>6 DEF Ordered, AppendEvent, procVars
<1>7. CASE UNCHANGED vars
  BY <1>7 DEF Ordered, vars, procVars
<1> QED
  BY <1>1, <1>2, <1>3, <1>4, <1>5, <1>6, <1>7 DEF Next

\* Every variable keeps its type, and a process is at a statement of its script.
THEOREM SpecTypeOK == Spec => []TypeOK
<1> QED
  BY TypeInit, TypeStep, PTL DEF Spec

-----------------------------------------------------------------------------
\* What the statements of a recorded script, and those that a process is past,
\* were to leave is there.
Standing ==
    /\ \A v \in ledger : \A i \in DOMAIN Script[v] : Stands(Script[v][i])
    /\ \A p \in Procs : \A v \in Versions :
         Working(p, v) => \A i \in DOMAIN Script[v] : i < line[p] => Stands(Script[v][i])

\* The two ways a statement ends.
LEMMA StatementEnds ==
    ASSUME NEW p \in Procs, RunStatement(p)
    PROVE  LET s == Script[at[p]][line[p]]
           IN \/ /\ Fails(s) /\ pc' = [pc EXCEPT ![p] = "failed"]
                 /\ UNCHANGED schemaVars /\ UNCHANGED line
              \/ /\ ~Fails(s) /\ Execute(s)
                 /\ line' = [line EXCEPT ![p] = line[p] + 1]
                 /\ pc' = [pc EXCEPT ![p] = IF line[p] = Len(Script[at[p]]) THEN "record" ELSE pc[p]]
BY DEF RunStatement

LEMMA ExecuteStands == ASSUME NEW s, Execute(s) PROVE Stands(s)'
<1>1. CASE s.op \in {"create", "ensure"}
  BY <1>1 DEF Execute, Stands
<1>2. CASE s.op = "addColumn"
  BY <1>2 DEF Execute, Stands
<1> QED
  BY <1>1, <1>2 DEF Stands

\* Tables go only when 0008 replaces them, and columns never.
LEMMA SchemaGrows ==
    ASSUME TypeOK, NEW p \in Procs, RunStatement(p)
    PROVE  /\ tables \ Replaced \subseteq tables'
           /\ columns \subseteq columns'
           /\ \A s : Stands(s) => Stands(s)'
<1> DEFINE s == Script[at[p]][line[p]]
<1>1. s.op = "drop" => s.on = "tool_events"
  <2>1. CASE at[p] = 8
    <3>1. line[p] \in 1..10 /\ s = Script[8][line[p]]
      BY <2>1, AtStatement, TasksScript
    <3> QED
      BY <3>1, TasksScript DEF Ensure, Touch, Protect, Unprotect, Copy, Drop, Rename
  <2>2. CASE at[p] # 8
    BY <2>2, AtStatement, OtherScripts
  <2> QED BY <2>1, <2>2
<1>2. CASE Execute(s)
  BY <1>1, <1>2 DEF Execute, Replaced, Stands, schemaVars
<1>3. CASE UNCHANGED schemaVars
  BY <1>3 DEF schemaVars, Stands
<1> QED
  BY <1>2, <1>3 DEF RunStatement

LEMMA StandingStep == TypeOK /\ Standing /\ [Next]_vars => Standing'
<1> SUFFICES ASSUME TypeOK, Standing, [Next]_vars PROVE Standing'
  OBVIOUS
<1>1. ASSUME NEW p \in Procs, Start(p) PROVE Standing'
  BY <1>1 DEF Standing, Start, TypeOK, Working, Stands, schemaVars
<1>2. ASSUME NEW p \in Procs, Check(p) PROVE Standing'
  <2>1. UNCHANGED <<tables, columns, ledger>>
    BY <1>2 DEF Check, schemaVars
  <2>2. ASSUME NEW q \in Procs, NEW v \in Versions, Working(q, v)',
               NEW i \in DOMAIN Script[v], i < line[q]'
        PROVE  Stands(Script[v][i])
    <3>0. i \in Nat \ {0}
      BY StatementTypes
    <3>1. q # p
      BY <1>2, <2>2, <3>0 DEF Check, Working, TypeOK
    <3>2. Working(q, v) /\ line'[q] = line[q]
      BY <1>2, <2>2, <3>1 DEF Check, Working, TypeOK
    <3> QED
      BY <2>2, <3>2 DEF Standing
  <2> QED
    BY <2>1, <2>2 DEF Standing, Stands
<1>3. ASSUME NEW p \in Procs, RunStatement(p) PROVE Standing'
  <2>0. PICK s : s = Script[at[p]][line[p]]   \* a constant: at and line change
    OBVIOUS
  <2>1. UNCHANGED <<ledger, at>> /\ pc[p] = "run" /\ at[p] \in Versions
        /\ line[p] \in 1..Len(Script[at[p]]) /\ Len(Script[at[p]]) \in Nat
    BY <1>3, AtStatement DEF RunStatement
  <2>2. \A x : Stands(x) => Stands(x)'
    BY <1>3, SchemaGrows
  <2>3. Execute(s) => Stands(s)'
    BY ExecuteStands
  <2>4. ASSUME NEW q \in Procs, NEW v \in Versions, Working(q, v)',
               NEW i \in DOMAIN Script[v], i < line[q]'
        PROVE  Stands(Script[v][i])'
    <3>0. i \in Nat
      BY StatementTypes
    <3>1. CASE q # p \/ UNCHANGED line
      <4>1. Working(q, v) /\ line'[q] = line[q]
        BY <1>3, <2>1, <2>4, <3>1 DEF RunStatement, Working, TypeOK
      <4> QED BY <2>2, <2>4, <4>1 DEF Standing
    <3>2. CASE q = p /\ Execute(s) /\ line' = [line EXCEPT ![p] = @ + 1]
      <4>1. v = at[p] /\ Working(p, v) /\ line'[p] = line[p] + 1
        BY <2>1, <2>4, <3>2 DEF Working, TypeOK
      <4>2. CASE i < line[p]
        BY <2>2, <2>4, <4>1, <4>2 DEF Standing
      <4>3. CASE i = line[p]
        BY <2>0, <2>3, <3>2, <4>1, <4>3
      <4> QED BY <2>1, <2>4, <3>0, <3>2, <4>1, <4>2, <4>3
    <3> QED
      BY <1>3, <2>0, <3>1, <3>2, StatementEnds
  <2> QED
    BY <2>1, <2>2, <2>4 DEF Standing
<1>4. ASSUME NEW p \in Procs, Record(p) PROVE Standing'
  <2>1. at[p] \in Versions /\ Working(p, at[p]) /\ line[p] = Len(Script[at[p]]) + 1
    BY <1>4 DEF Record, TypeOK, Working
  <2>2. \A i \in DOMAIN Script[at[p]] : i < line[p]
    BY <2>1, StatementTypes
  <2>3. \A s : Stands(s) => Stands(s)'
    BY <1>4 DEF Record, Stands
  <2>4. \A q \in Procs : \A v \in Versions : Working(q, v)' => Working(q, v) /\ line'[q] = line[q]
    BY <1>4 DEF Record, Working, TypeOK
  <2> QED
    BY <1>4, <2>1, <2>2, <2>3, <2>4 DEF Standing, Record
<1>5. ASSUME NEW p \in Procs, Kill(p) PROVE Standing'
  BY <1>5 DEF Standing, Kill, TypeOK, Working, Stands, schemaVars
<1>6. ASSUME NEW r \in Rows, AppendEvent(r) PROVE Standing'
  BY <1>6 DEF Standing, AppendEvent, procVars, Working, Stands
<1>7. CASE UNCHANGED vars
  BY <1>7 DEF Standing, vars, procVars, schemaVars, Working, Stands
<1> QED
  BY <1>1, <1>2, <1>3, <1>4, <1>5, <1>6, <1>7 DEF Next

LEMMA StandingInit == Init => Standing
<1> SUFFICES ASSUME Init PROVE Standing
  OBVIOUS
<1>1. CASE Empty
  BY <1>1 DEF Empty, Init, Standing, Working
<1>2. CASE LeftAtSeven
  <2>1. ASSUME NEW v \in ledger, NEW i \in DOMAIN Script[v] PROVE Stands(Script[v][i])
    <3> USE DEF Create, Ensure, AddColumn, Touch, Protect, Stands, Replaced
    <3>0. tables = TableNames \ {"submitted_tasks", "tool_events_phase9"}
          /\ columns = ColumnNames \ {"key_id"}
      BY <1>2 DEF LeftAtSeven
    <3>1. CASE v = 1
      <4>1. Script[v] = Initial /\ i \in 1..8
        BY <3>1, <2>1, ScriptIs DEF Initial
      <4> QED BY <4>1, <3>0 DEF Initial, TableNames
    <3>2. CASE v = 2
      BY <3>0, <3>2, ScriptIs DEF TuningRuns, TableNames
    <3>3. CASE v = 3
      BY <3>0, <3>3, ScriptIs DEF SigningKeys, TableNames
    <3>4. CASE v = 4
      BY <3>0, <3>4, ScriptIs DEF DiffSets, TableNames
    <3>5. CASE v = 5
      BY <3>0, <3>5, ScriptIs DEF AgentTestCommand, TableNames, ColumnNames
    <3>7. CASE v = 7
      BY <3>0, <3>7, ScriptIs DEF LoopGuard, TableNames
    <3> QED
      BY <1>2, <2>1, <3>1, <3>2, <3>3, <3>4, <3>5, <3>7 DEF LeftAtSeven
  <2> QED
    BY <2>1 DEF Init, Standing, Working
<1> QED
  BY <1>1, <1>2 DEF Init

-----------------------------------------------------------------------------
\* Unless two processes were at a version together, at most one works at it,
\* and none once it is recorded.
Alone ==
    \A v \in Versions \ together :
        /\ \A p, q \in Procs : Working(p, v) /\ Working(q, v) => p = q
        /\ v \in ledger => \A p \in Procs : ~Working(p, v)

LEMMA AloneStep == TypeOK /\ Alone /\ [Next]_vars => Alone'
<1> SUFFICES ASSUME TypeOK, Alone, [Next]_vars PROVE Alone'
  OBVIOUS
<1>0. ASSUME together \subseteq together', UNCHANGED ledger,
             \A q \in Procs : \A v \in Versions : Working(q, v)' => Working(q, v)
      PROVE  Alone'
  BY <1>0 DEF Alone
<1>1. ASSUME NEW p \in Procs, Start(p) PROVE Alone'
  BY <1>0, <1>1 DEF Start, TypeOK, Working, history
<1>2. ASSUME NEW p \in Procs, Check(p) PROVE Alone'
  <2> DEFINE v == Following(at[p])
  <2>1. UNCHANGED ledger /\ pc[p] = "check"
    BY <1>2 DEF Check
  <2>2. CASE pc' = [pc EXCEPT ![p] = "ready"] /\ UNCHANGED <<at, together>>
    BY <1>0, <2>1, <2>2 DEF TypeOK, Working
  <2>3. CASE at' = [at EXCEPT ![p] = v] /\ UNCHANGED <<pc, together>>
    BY <1>0, <2>1, <2>3 DEF TypeOK, Working
  <2>4. CASE /\ v # None /\ v \notin ledger
             /\ pc' = [pc EXCEPT ![p] = "run"] /\ at' = [at EXCEPT ![p] = v]
             /\ together' = together \cup {w \in {v} : \E q \in Procs \ {p} : Working(q, w)}
    <3>1. \A q \in Procs : \A w \in Versions :
             Working(q, w)' <=> Working(q, w) \/ (q = p /\ w = v)
      BY <2>1, <2>4 DEF TypeOK, Working
    <3> QED
      BY <2>1, <2>4, <3>1 DEF Alone
  <2> QED
    BY <1>2, <2>2, <2>3, <2>4 DEF Check
<1>3. ASSUME NEW p \in Procs, RunStatement(p) PROVE Alone'
  BY <1>0, <1>3 DEF RunStatement, TypeOK, Working, history
<1>4. ASSUME NEW p \in Procs, Record(p) PROVE Alone'
  <2>1. at[p] \in Versions /\ Working(p, at[p])
    BY <1>4 DEF Record, TypeOK, Working
  <2>2. \A q \in Procs : \A v \in Versions : Working(q, v)' <=> Working(q, v) /\ q # p
    BY <1>4 DEF Record, TypeOK, Working
  <2>3. ledger' = ledger \cup {at[p]} /\ UNCHANGED together
    BY <1>4 DEF Record, history
  <2> QED
    BY <2>1, <2>2, <2>3 DEF Alone
<1>5. ASSUME NEW p \in Procs, Kill(p) PROVE Alone'
  BY <1>0, <1>5 DEF Kill, TypeOK, Working
<1>6. ASSUME NEW r \in Rows, AppendEvent(r) PROVE Alone'
  BY <1>0, <1>6 DEF AppendEvent, procVars, Working
<1>7. CASE UNCHANGED vars
  BY <1>0, <1>7 DEF vars, procVars, history, Working
<1> QED
  BY <1>1, <1>2, <1>3, <1>4, <1>5, <1>6, <1>7 DEF Next

-----------------------------------------------------------------------------
\* Only one process ever gets past the first table of 001, which therefore runs
\* once; and nothing serves, logs an event or comes to 0008 before it is recorded.
First ==
    /\ \A p, q \in Procs : Working(p, 1) /\ line[p] > 1 =>
         1 \notin ledger /\ (Working(q, 1) /\ line[q] > 1 => p = q)
    /\ up \/ logged # {} \/ 8 \in together \cup torn => 1 \in ledger

\* Past the first statement of 001, or after it, the table memories is there.
LEMMA MemoriesThere ==
    ASSUME Standing
    PROVE  /\ 1 \in ledger => "memories" \in tables
           /\ \A p \in Procs : Working(p, 1) /\ line[p] > 1 => "memories" \in tables
<1>1. Script[1][1] = Create("memories") /\ 1 \in DOMAIN Script[1] /\ 1 \in Versions
  BY ScriptIs DEF Initial, Versions
<1>2. Stands(Create("memories")) => "memories" \in tables
  BY DEF Stands, Create, Replaced
<1> QED
  BY <1>1, <1>2 DEF Standing

LEMMA FirstStep == TypeOK /\ Ordered /\ Standing /\ First /\ [Next]_vars => First'
<1> SUFFICES ASSUME TypeOK, Ordered, Standing, First, [Next]_vars PROVE First'
  OBVIOUS
<1>0. ASSUME \A q \in Procs : Working(q, 1)' /\ line'[q] > 1 => Working(q, 1) /\ line[q] > 1,
             UNCHANGED <<ledger, up, logged>>,
             8 \in together' \cup torn' => 8 \in together \cup torn \/ 1 \in ledger
      PROVE  First'
  BY <1>0 DEF First
<1>1. ASSUME NEW p \in Procs, Start(p) PROVE First'
  BY <1>0, <1>1 DEF Start, TypeOK, Working, history
<1>2. ASSUME NEW p \in Procs, Check(p) PROVE First'
  <2> DEFINE v == Following(at[p])
  <2>1. UNCHANGED <<ledger, logged, torn>> /\ pc[p] = "check" /\ at[p] \in Versions \cup {0}
    BY <1>2 DEF Check, TypeOK
  <2>2. CASE v = None /\ pc' = [pc EXCEPT ![p] = "ready"] /\ UNCHANGED <<at, line, together>>
    <3>1. at[p] = 9
      BY <2>1, <2>2, FollowingFacts, MigrationsAssumption DEF Versions
    <3>2. 1 \in ledger
      BY <2>1, <3>1 DEF Ordered, Versions
    <3> QED
      BY <2>1, <2>2, <3>2 DEF First, Working, TypeOK
  <2>3. CASE at' = [at EXCEPT ![p] = v] /\ UNCHANGED <<pc, line, up, together>>
    BY <1>0, <2>1, <2>3 DEF TypeOK, Working
  <2>4. CASE /\ v # None /\ v \notin ledger /\ UNCHANGED up
             /\ pc' = [pc EXCEPT ![p] = "run"] /\ at' = [at EXCEPT ![p] = v]
             /\ line' = [line EXCEPT ![p] = 1]
             /\ together' = together \cup {w \in {v} : \E q \in Procs \ {p} : Working(q, w)}
    <3>1. 8 \in together' => 8 \in together \/ \E q \in Procs : Working(q, 8)
      BY <2>4
    <3>2. (\E q \in Procs : Working(q, 8)) => 1 \in ledger
      BY DEF Working, Ordered, Versions
    <3> QED
      BY <1>0, <2>1, <2>4, <3>1, <3>2 DEF TypeOK, Working
  <2> QED
    BY <1>2, <2>2, <2>3, <2>4 DEF Check
<1>3. ASSUME NEW p \in Procs, RunStatement(p) PROVE First'
  <2> DEFINE s == Script[at[p]][line[p]]
  <2>1. UNCHANGED <<ledger, at, up, logged, together, torn>> /\ pc[p] = "run"
        /\ at[p] \in Versions /\ line[p] \in 1..Len(Script[at[p]]) /\ Len(Script[at[p]]) \in Nat
    BY <1>3, AtStatement DEF RunStatement, history
  <2>2. CASE Fails(s) /\ pc' = [pc EXCEPT ![p] = "failed"] /\ UNCHANGED line
    BY <1>0, <2>1, <2>2 DEF TypeOK, Working
  <2>3. CASE /\ ~Fails(s) /\ line' = [line EXCEPT ![p] = line[p] + 1]
             /\ pc' = [pc EXCEPT ![p] = IF line[p] = Len(Script[at[p]]) THEN "record" ELSE pc[p]]
    <3>1. \A q \in Procs : Working(q, 1)' <=> Working(q, 1)
      BY <2>1, <2>3 DEF TypeOK, Working
    <3>2. \A q \in Procs \ {p} : line'[q] = line[q]
      BY <2>3 DEF TypeOK
    <3>3. CASE at[p] # 1 \/ line[p] > 1
      BY <1>0, <2>1, <3>1, <3>2, <3>3 DEF Working
    <3>4. CASE at[p] = 1 /\ line[p] = 1
      <4>1. s = Create("memories")
        BY <3>4, ScriptIs DEF Initial
      <4>2. "memories" \notin tables
        BY <2>3, <4>1 DEF Fails, Create
      <4>3. 1 \notin ledger /\ \A q \in Procs : ~(Working(q, 1) /\ line[q] > 1)
        BY <4>2, MemoriesThere
      <4> QED
        BY <2>1, <3>1, <3>2, <4>3 DEF First
    <3> QED BY <2>1, <3>3, <3>4
  <2> QED
    BY <1>3, <2>2, <2>3, StatementEnds
<1>4. ASSUME NEW p \in Procs, Record(p) PROVE First'
  <2>1. at[p] \in Versions /\ Working(p, at[p]) /\ line[p] = Len(Script[at[p]]) + 1
    BY <1>4 DEF Record, TypeOK, Working
  <2>2. line[p] > 1
    BY <2>1, StatementTypes
  <2>3. \A q \in Procs : Working(q, 1)' => Working(q, 1) /\ q # p /\ line'[q] = line[q]
    BY <1>4 DEF Record, TypeOK, Working
  <2>4. ledger' = ledger \cup {at[p]} /\ UNCHANGED <<up, logged, together, torn>>
    BY <1>4 DEF Record, history
  <2> QED
    BY <2>1, <2>2, <2>3, <2>4 DEF First
<1>5. ASSUME NEW p \in Procs, Kill(p) PROVE First'
  <2>1. 8 \in torn' => 8 \in torn \/ Working(p, 8)
    BY <1>5 DEF Kill, Working
  <2>2. Working(p, 8) => 1 \in ledger
    BY DEF Working, Ordered, Versions
  <2>3. \A q \in Procs : Working(q, 1)' => Working(q, 1) /\ line'[q] = line[q]
    BY <1>5 DEF Kill, TypeOK, Working
  <2>4. UNCHANGED <<ledger, up, logged, together>>
    BY <1>5 DEF Kill
  <2> QED
    BY <1>0, <2>1, <2>2, <2>3, <2>4
<1>6. ASSUME NEW r \in Rows, AppendEvent(r) PROVE First'
  BY <1>6 DEF First, AppendEvent, procVars, Working
<1>7. CASE UNCHANGED vars
  BY <1>0, <1>7 DEF vars, procVars, history, Working
<1> QED
  BY <1>1, <1>2, <1>3, <1>4, <1>5, <1>6, <1>7 DEF Next

-----------------------------------------------------------------------------
(* The events through 0008, as long as no two processes are in it.         *)

Swapped == "tool_events" \in tables /\ "tool_events_phase9" \notin tables

\* What holds while p works at 0008.
InTasks(p) ==
    /\ line[p] \in 4..6 => "tool_events" \in tables /\ events \ late \subseteq copied
    /\ line[p] > 7 => Swapped
    /\ line[p] > 9 => "no_update" \in triggers
    /\ line[p] > 10 => triggers = Triggers

Safe ==
    8 \notin together =>
        /\ "tool_events" \in tables => logged \ late \subseteq events
        /\ "tool_events" \notin tables => logged \ late \subseteq copied
        /\ \A p \in Procs : Working(p, 8) => InTasks(p)
        /\ 8 \in ledger => Swapped /\ triggers = Triggers

LEMMA SafeInit == Init => Safe
<1> SUFFICES ASSUME Init PROVE Safe
  OBVIOUS
<1>1. \A p \in Procs : ~Working(p, 8)
  BY DEF Init, Working
<1>2. 8 \notin ledger
  BY DEF Init, Empty, LeftAtSeven
<1>3. CASE Empty
  BY <1>1, <1>2, <1>3 DEF Empty, Safe
<1>4. CASE LeftAtSeven
  BY <1>1, <1>2, <1>4 DEF LeftAtSeven, Safe, TableNames
<1> QED
  BY <1>3, <1>4 DEF Init

\* A statement of another script.
LEMMA SafeOther ==
    ASSUME TypeOK, First, Safe, NEW p \in Procs, RunStatement(p), at[p] # 8
    PROVE  Safe'
<1>0. PICK s : s = Script[at[p]][line[p]]
  OBVIOUS
<1>1. UNCHANGED <<ledger, at, logged, late, together>> /\ pc[p] = "run"
      /\ at[p] \in Versions /\ line[p] \in DOMAIN Script[at[p]]
  BY AtStatement DEF RunStatement, history
<1>2. /\ s.op \in {"create", "ensure", "addColumn", "touch", "protect"}
      /\ s.op \in {"create", "ensure"} /\ s.on = "tool_events" => at[p] = 1 /\ line[p] = 2
      /\ s.op \in {"create", "ensure"} => s.on # "tool_events_phase9"
      /\ s.op = "protect" => s.what \in Triggers
  BY <1>0, <1>1, OtherScripts
<1>3. \A q \in Procs : Working(q, 8)' => Working(q, 8) /\ line'[q] = line[q]
  BY <1>1, StatementEnds DEF TypeOK, Working
<1>4. triggers \subseteq Triggers
  BY DEF TypeOK
<1>5. CASE UNCHANGED schemaVars
  BY <1>1, <1>3, <1>5 DEF Safe, InTasks, Swapped, schemaVars
<1>6. CASE Execute(s)
  <2>1. UNCHANGED <<events, copied>> /\ tables \subseteq tables' /\ triggers \subseteq triggers'
        /\ triggers' \subseteq Triggers
    BY <1>2, <1>4, <1>6 DEF Execute, schemaVars
  <2>2. "tool_events_phase9" \in tables' => "tool_events_phase9" \in tables
    BY <1>2, <1>6 DEF Execute, schemaVars
  <2>3. "tool_events" \in tables' /\ "tool_events" \notin tables => logged = {}
    <3>1. "tool_events" \in tables' /\ "tool_events" \notin tables => Working(p, 1) /\ line[p] > 1
      BY <1>1, <1>2, <1>6 DEF Execute, schemaVars, Working
    <3> QED
      BY <3>1 DEF First
  <2> QED
    BY <1>1, <1>3, <2>1, <2>2, <2>3 DEF Safe, InTasks, Swapped
<1> QED
  BY <1>0, <1>5, <1>6, StatementEnds

\* A statement of 0008 itself, by the one process that is in it.
LEMMA SafeTasks ==
    ASSUME TypeOK, Alone, Safe, NEW p \in Procs, RunStatement(p), at[p] = 8
    PROVE  Safe'
<1>0. PICK s : s = Script[8][line[p]]
  OBVIOUS
<1>1. UNCHANGED <<ledger, at, logged, late, together>> /\ pc[p] = "run"
      /\ line[p] \in 1..10 /\ Len(Script[8]) = 10 /\ 8 \in Versions
  BY AtStatement, TasksScript DEF RunStatement, history
<1> SUFFICES ASSUME 8 \notin together PROVE Safe'
  BY <1>1 DEF Safe
<1>2. Working(p, 8) /\ 8 \notin ledger /\ \A q \in Procs : Working(q, 8) => q = p
  BY <1>1 DEF Alone, Working
<1>3. \A q \in Procs : Working(q, 8)' => q = p
  BY <1>1, <1>2, StatementEnds DEF TypeOK, Working
<1>4. CASE UNCHANGED schemaVars /\ UNCHANGED line
  BY <1>1, <1>2, <1>3, <1>4 DEF Safe, InTasks, Swapped, schemaVars
<1>5. CASE ~Fails(s) /\ Execute(s) /\ line' = [line EXCEPT ![p] = line[p] + 1]
  <2>0. line'[p] = line[p] + 1
    BY <1>5 DEF TypeOK
  <2>1. SUFFICES /\ "tool_events" \in tables' => logged \ late \subseteq events'
                 /\ "tool_events" \notin tables' => logged \ late \subseteq copied'
                 /\ InTasks(p)'
    BY <1>1, <1>2, <1>3 DEF Safe
  <2>2. /\ "tool_events" \in tables => logged \ late \subseteq events
        /\ "tool_events" \notin tables => logged \ late \subseteq copied
        /\ InTasks(p)
    BY <1>2 DEF Safe
  <2>3. triggers \subseteq Triggers
    BY DEF TypeOK
  <2> USE <1>5, <2>0, <2>2 DEF Execute, InTasks, Swapped, schemaVars
  <2>11. CASE line[p] = 1
    <3>1. s = Ensure("submitted_tasks")
      BY <1>0, <2>11, TasksScript
    <3> QED BY <2>11, <3>1 DEF Ensure
  <2>12. CASE line[p] = 2
    <3>1. s = Ensure("tool_events_phase9")
      BY <1>0, <2>12, TasksScript
    <3> QED BY <2>12, <3>1 DEF Ensure
  <2>13. CASE line[p] = 3
    <3>1. s = Copy
      BY <1>0, <2>13, TasksScript
    <3> QED BY <2>13, <3>1 DEF Copy, Fails, Replaced
  <2>14. CASE line[p] = 4
    <3>1. s = Unprotect("no_update")
      BY <1>0, <2>14, TasksScript
    <3> QED BY <1>1, <2>14, <3>1 DEF Unprotect
  <2>15. CASE line[p] = 5
    <3>1. s = Unprotect("no_delete")
      BY <1>0, <2>15, TasksScript
    <3> QED BY <1>1, <2>15, <3>1 DEF Unprotect
  <2>16. CASE line[p] = 6
    <3>1. s = Drop("tool_events")
      BY <1>0, <2>16, TasksScript
    <3> QED BY <2>16, <3>1 DEF Drop
  <2>17. CASE line[p] = 7
    <3>1. s = Rename
      BY <1>0, <2>17, TasksScript
    <3> QED BY <2>17, <3>1 DEF Rename, Fails
  <2>18. CASE line[p] = 8
    <3>1. s = Touch("tool_events")
      BY <1>0, <2>18, TasksScript
    <3> QED BY <2>18, <3>1 DEF Touch
  <2>19. CASE line[p] = 9
    <3>1. s = Protect("no_update")
      BY <1>0, <2>19, TasksScript
    <3> QED BY <2>19, <3>1 DEF Protect
  <2>20. CASE line[p] = 10
    <3>1. s = Protect("no_delete")
      BY <1>0, <2>20, TasksScript
    <3>2. /\ triggers' = triggers \cup {"no_delete"} /\ "no_update" \in triggers
          /\ UNCHANGED <<tables, events, copied>>
      BY <2>20, <3>1 DEF Protect
    <3>3. triggers' = Triggers
      BY <2>3, <3>2 DEF Triggers
    <3> QED BY <2>20, <3>2, <3>3
  <2> QED
    BY <1>1, <2>11, <2>12, <2>13, <2>14, <2>15, <2>16, <2>17, <2>18, <2>19, <2>20
<1> QED
  BY <1>0, <1>4, <1>5, StatementEnds

LEMMA SafeStep == TypeOK /\ Alone /\ First /\ Safe /\ [Next]_vars => Safe'
<1> SUFFICES ASSUME TypeOK, Alone, First, Safe, [Next]_vars PROVE Safe'
  OBVIOUS
<1>0. ASSUME UNCHANGED <<schemaVars, ledger, logged, late>>, 8 \in together => 8 \in together',
             \A q \in Procs : Working(q, 8)' => Working(q, 8) /\ line'[q] = line[q]
      PROVE  Safe'
  BY <1>0 DEF Safe, InTasks, Swapped, schemaVars
<1>1. ASSUME NEW p \in Procs, Start(p) PROVE Safe'
  BY <1>0, <1>1 DEF Start, TypeOK, Working, history
<1>2. ASSUME NEW p \in Procs, Check(p) PROVE Safe'
  <2> DEFINE v == Following(at[p])
  <2>1. UNCHANGED <<schemaVars, ledger, logged, late>> /\ pc[p] = "check"
    BY <1>2 DEF Check
  <2>2. CASE pc' = [pc EXCEPT ![p] = "ready"] /\ UNCHANGED <<at, line, together>>
    BY <1>0, <2>1, <2>2 DEF TypeOK, Working
  <2>3. CASE at' = [at EXCEPT ![p] = v] /\ UNCHANGED <<pc, line, together>>
    BY <1>0, <2>1, <2>3 DEF TypeOK, Working
  <2>4. CASE /\ pc' = [pc EXCEPT ![p] = "run"] /\ at' = [at EXCEPT ![p] = v]
             /\ line' = [line EXCEPT ![p] = 1] /\ together \subseteq together'
    <3>1. \A q \in Procs : q # p /\ Working(q, 8)' => Working(q, 8) /\ line'[q] = line[q]
      BY <2>4 DEF TypeOK, Working
    <3>2. InTasks(p)'
      BY <2>4 DEF TypeOK, InTasks
    <3> QED
      BY <2>1, <2>4, <3>1, <3>2 DEF Safe, InTasks, Swapped, schemaVars
  <2> QED
    BY <1>2, <2>2, <2>3, <2>4 DEF Check
<1>3. ASSUME NEW p \in Procs, RunStatement(p) PROVE Safe'
  BY <1>3, SafeOther, SafeTasks
<1>4. ASSUME NEW p \in Procs, Record(p) PROVE Safe'
  <2>1. at[p] \in Versions /\ Working(p, at[p]) /\ line[p] = Len(Script[at[p]]) + 1
    BY <1>4 DEF Record, TypeOK, Working
  <2>2. \A q \in Procs : Working(q, 8)' => Working(q, 8) /\ line'[q] = line[q]
    BY <1>4 DEF Record, TypeOK, Working
  <2>3. /\ tables' = tables \cup {"_skycode_migrations"}
        /\ UNCHANGED <<triggers, events, copied, logged, late, together>>
        /\ ledger' = ledger \cup {at[p]}
    BY <1>4 DEF Record, history
  <2>4. ASSUME at[p] = 8 PROVE line[p] = 11
    <3>1. Script[at[p]] = Script[8]
      BY <2>4
    <3> QED BY <2>1, <3>1, TasksLength
  <2> QED
    BY <2>1, <2>2, <2>3, <2>4 DEF Safe, InTasks, Swapped
<1>5. ASSUME NEW p \in Procs, Kill(p) PROVE Safe'
  BY <1>0, <1>5 DEF Kill, TypeOK, Working
<1>6. ASSUME NEW r \in Rows, AppendEvent(r) PROVE Safe'
  <2>1. \A q \in Procs : Working(q, 8) /\ line[q] \in 4..6 => Copied(q)
    <3>1. ASSUME NEW q \in Procs, pc[q] = "record", at[q] = 8 PROVE line[q] = 11
      <4>1. line[q] = Len(Script[at[q]]) + 1
        BY <3>1 DEF TypeOK
      <4> QED BY <3>1, <4>1, TasksLength
    <3> QED
      BY <3>1 DEF Working, Copied
  <2>2. \A q \in Procs : Working(q, 8)' => Working(q, 8) /\ line'[q] = line[q]
    BY <1>6 DEF AppendEvent, procVars, Working
  <2>3. /\ "tool_events" \in tables /\ events' = events \cup {r} /\ logged' = logged \cup {r}
        /\ late' = late \cup {x \in {r} : \E q \in Procs : Copied(q)}
        /\ UNCHANGED <<tables, triggers, copied, ledger, together>>
    BY <1>6 DEF AppendEvent
  <2> QED
    BY <2>1, <2>2, <2>3 DEF Safe, InTasks, Swapped
<1>7. CASE UNCHANGED vars
  BY <1>0, <1>7 DEF vars, procVars, history, Working
<1> QED
  BY <1>1, <1>2, <1>3, <1>4, <1>5, <1>6, <1>7 DEF Next

\* The inductive invariant.
MInv == TypeOK /\ Ordered /\ Standing /\ Alone /\ First /\ Safe

LEMMA MInvInductive == (Init => MInv) /\ (MInv /\ [Next]_vars => MInv')
<1>1. Init => Ordered /\ Alone
  BY DEF Init, Empty, LeftAtSeven, Versions, Ordered, Alone, Working
<1>2. Init => First
  BY DEF Init, First, Working, Empty, LeftAtSeven
<1>3. Init => MInv
  BY <1>1, <1>2, TypeInit, StandingInit, SafeInit DEF MInv
<1>4. MInv /\ [Next]_vars => MInv'
  BY TypeStep, OrderedStep, StandingStep, AloneStep, FirstStep, SafeStep DEF MInv
<1> QED
  BY <1>3, <1>4

\* 0008 loses no row of tool_events, killed at any statement and started again,
\* except rows that came between its copy and its drop, or with two processes in it.
THEOREM SpecEventsKept == Spec => []EventsKept
<1>1. MInv => EventsKept
  BY DEF MInv, Safe, EventsKept
<1> QED
  BY <1>1, MInvInductive, PTL DEF Spec

\* Whoever was killed or raced, a version in the ledger has the earlier ones there
\* too, its tables and columns, and after 0008 the events' table has its name and both its triggers.
THEOREM SpecLedgerTrue == Spec => []LedgerTrue
<1>1. MInv => LedgerTrue
  BY DEF MInv, Ordered, Standing, Safe, Swapped, LedgerTrue
<1> QED
  BY <1>1, MInvInductive, PTL DEF Spec

-----------------------------------------------------------------------------
(* Why a start fails.                                                      *)

\* None of the statements of v from n on finds its table or column made.
Untouched(v, n) ==
    \A i \in DOMAIN Script[v] : i >= n =>
        /\ Script[v][i].op = "create" => Script[v][i].on \notin tables
        /\ Script[v][i].op = "addColumn" => Script[v][i].what \notin columns

Resumable ==
    \A v \in Versions \ (ledger \cup together \cup torn) :
        /\ \A p \in Procs : Working(p, v) => Untouched(v, line[p])
        /\ (\A p \in Procs : ~Working(p, v)) => Untouched(v, 1)

\* The table of the events is there, except between the drop and the rename.
EventsThere ==
    /\ \A p \in Procs : Working(p, 1) /\ line[p] > 2 => "tool_events" \in tables
    /\ 8 \notin together \cup torn =>
         /\ 1 \in ledger => \/ "tool_events" \in tables
                            \/ \E p \in Procs : Working(p, 8) /\ line[p] = 7
         /\ \A p \in Procs : Working(p, 8) =>
              /\ line[p] \in 3..7 => "tool_events_phase9" \in tables
              /\ line[p] = 7 => "tool_events" \notin tables

LEMMA InitialScript ==
    /\ DOMAIN Script[1] = 1..8 /\ 1 \in Versions
    /\ Script[1][1] = Create("memories") /\ Script[1][2] = Create("tool_events")
    /\ Script[1][3] = Protect("no_update") /\ Script[1][4] = Protect("no_delete")
    /\ Script[1][5] = Create("tuning_runs") /\ Script[1][6] = Create("agent_state")
    /\ Script[1][7] = Create("_skycode_migrations") /\ Script[1][8] = Create("relationships")
BY ScriptIs DEF Initial, Versions

\* No two statements make the same thing, in one script or in two.
LEMMA MadeOnce ==
    ASSUME NEW v \in Versions, NEW w \in Versions,
           NEW i \in DOMAIN Script[v], NEW j \in DOMAIN Script[w], v # w \/ i # j
    PROVE  /\ Script[v][i].op = "create" /\ Script[w][j].op = "create"
                => Script[v][i].on # Script[w][j].on
           /\ Script[v][i].op = "addColumn" /\ Script[w][j].op = "addColumn"
                => Script[v][i].what # Script[w][j].what
<1> USE DEF Create, Ensure, AddColumn, Touch, Protect, Unprotect, Copy, Drop, Rename
<1>0. ASSUME NEW k \in DOMAIN Script[8] PROVE Script[8][k].op \notin {"create", "addColumn"}
  BY <1>0, TasksScript
<1>1. ASSUME Script[v][i].op = "create", Script[w][j].op = "create"
      PROVE  Script[v][i].on # Script[w][j].on
  <2>1. v = 1 /\ w = 1
    BY <1>0, <1>1, OtherScripts
  <2> QED BY <1>1, <2>1, InitialScript
<1>2. ASSUME Script[v][i].op = "addColumn", Script[w][j].op = "addColumn"
      PROVE  Script[v][i].what # Script[w][j].what
  <2>1. v \in {5, 9} /\ w \in {5, 9}
    BY <1>0, <1>2, OtherScripts
  <2>2. /\ DOMAIN Script[5] = 1..3 /\ Script[5][1].op = "ensure"
        /\ Script[5][2].what = "test_command" /\ Script[5][3].what = "verify_timeout_secs"
    BY ScriptIs DEF AgentTestCommand
  <2>3. /\ DOMAIN Script[9] = 1..3 /\ Script[9][1].what = "key_id"
        /\ Script[9][2].op = "touch" /\ Script[9][3].op = "touch"
    BY ScriptIs DEF KeyRegistry
  <2> QED BY <1>2, <2>1, <2>2, <2>3
<1> QED
  BY <1>1, <1>2

\* The statements of the small scripts that need a table find it.
LEMMA TableThere ==
    ASSUME Ordered, Standing, NEW p \in Procs, NEW v \in Versions \ {1, 8}, Working(p, v),
           NEW i \in DOMAIN Script[v], i = line[p],
           Script[v][i].op \in {"addColumn", "touch", "protect"}
    PROVE  Script[v][i].on \in tables
<1> USE DEF Create, Ensure, AddColumn, Touch
<1>1. ASSUME NEW x, Stands(Ensure(x)), x \notin Replaced PROVE x \in tables
  BY <1>1 DEF Stands
<1>2. CASE v = 2
  <2>1. i = 2 /\ Script[2][1] = Ensure("tuning_runs") /\ Script[2][2] = Touch("tuning_runs")
        /\ 1 \in DOMAIN Script[2]
    BY <1>2, ScriptIs DEF TuningRuns
  <2>2. Stands(Ensure("tuning_runs"))
    <3>1. \A j \in DOMAIN Script[2] : j < 2 => Stands(Script[2][j])
      BY <1>2, <2>1 DEF Standing, Versions
    <3> QED BY <2>1, <3>1
  <2> QED BY <1>1, <1>2, <2>1, <2>2 DEF Replaced
<1>5. CASE v = 5
  <2>1. /\ i \in {2, 3} /\ Script[5][1] = Ensure("agent_state") /\ 1 \in DOMAIN Script[5]
        /\ Script[5][2].on = "agent_state" /\ Script[5][3].on = "agent_state"
    BY <1>5, ScriptIs DEF AgentTestCommand
  <2>2. Stands(Ensure("agent_state"))
    BY <1>5, <2>1 DEF Standing
  <2> QED BY <1>1, <1>5, <2>1, <2>2 DEF Replaced
<1>9. CASE v = 9
  <2>1. /\ i \in {1, 2, 3} /\ Script[9][1].on = "signing_keys"
        /\ Script[9][2].on = "signing_keys" /\ Script[9][3].on = "signing_keys"
    BY <1>9, ScriptIs DEF KeyRegistry
  <2>2. Script[3][1] = Ensure("signing_keys") /\ 1 \in DOMAIN Script[3]
    BY ScriptIs DEF SigningKeys
  <2>3. 3 \in ledger
    BY <1>9 DEF Ordered, Working, Versions
  <2>4. Stands(Ensure("signing_keys"))
    BY <2>2, <2>3 DEF Standing
  <2> QED BY <1>1, <1>9, <2>1, <2>4 DEF Replaced
<1>3. CASE v \in {3, 4, 7}
  BY <1>3, ScriptIs DEF SigningKeys, DiffSets, LoopGuard
<1> QED
  BY <1>2, <1>3, <1>5, <1>9 DEF Versions

\* The heart of it: no statement fails at a version that nobody shared and
\* that was not cut off.
LEMMA NoStatementFails ==
    ASSUME MInv, Resumable, EventsThere, NEW p \in Procs, RunStatement(p),
           at[p] \notin together \cup torn
    PROVE  ~Fails(Script[at[p]][line[p]])
<1> DEFINE v == at[p]
<1> DEFINE n == line[p]
<1> DEFINE s == Script[v][n]
<1>1. v \in Versions /\ Working(p, v) /\ n \in DOMAIN Script[v] /\ n \in Nat
  <2>1. TypeOK
    BY DEF MInv
  <2> QED BY <2>1, AtStatement DEF Working
<1>2. v \notin ledger /\ \A q \in Procs : Working(q, v) => q = p
  BY <1>1 DEF MInv, Alone
<1>3. Untouched(v, n)
  BY <1>1, <1>2 DEF Resumable
<1>4. (s.op = "create" => s.on \notin tables) /\ (s.op = "addColumn" => s.what \notin columns)
  BY <1>1, <1>3 DEF Untouched
<1>5. CASE v = 8
  <2>1. n \in 1..10 /\ 1 \in ledger /\ 8 \notin together \cup torn
    BY <1>1, <1>5, TasksScript DEF MInv, Ordered, Working, Versions
  <2>2. n # 7 => "tool_events" \in tables
    BY <1>2, <1>5, <2>1 DEF EventsThere
  <2>3. /\ n \in 3..7 => "tool_events_phase9" \in tables
        /\ n = 7 => "tool_events" \notin tables
    BY <1>1, <1>5, <2>1 DEF EventsThere
  <2> USE DEF Ensure, Touch, Protect, Unprotect, Copy, Drop, Rename, Fails, Replaced
  <2>11. CASE n \in {1, 2, 4, 5, 6}
    <3>1. s.op \in {"ensure", "unprotect", "drop"}
      BY <1>5, <2>11, TasksScript
    <3> QED BY <3>1
  <2>13. CASE n = 3
    <3>1. s = Copy
      BY <1>5, <2>13, TasksScript
    <3> QED BY <2>2, <2>3, <2>13, <3>1
  <2>17. CASE n = 7
    <3>1. s = Rename
      BY <1>5, <2>17, TasksScript
    <3> QED BY <2>3, <2>17, <3>1
  <2>18. CASE n \in {8, 9, 10}
    <3>1. s.op \in {"touch", "protect"} /\ s.on = "tool_events"
      BY <1>5, <2>18, TasksScript
    <3> QED BY <2>2, <2>18, <3>1
  <2> QED BY <2>1, <2>11, <2>13, <2>17, <2>18
<1>6. CASE v # 8
  <2>1. s.op \in {"create", "ensure", "addColumn", "touch", "protect"}
    BY <1>1, <1>6, OtherScripts
  <2>2. s.op \in {"addColumn", "touch", "protect"} => s.on \in tables
    <3>1. CASE v = 1
      <4>1. s.op \in {"addColumn", "touch", "protect"} => n > 2 /\ s.on = "tool_events"
        BY <1>1, <3>1, InitialScript DEF Create, Protect
      <4> QED BY <1>1, <3>1, <4>1 DEF EventsThere
    <3>2. CASE v # 1
      BY <1>1, <1>6, <3>2, TableThere DEF MInv
    <3> QED BY <3>1, <3>2
  <2> QED
    BY <1>4, <2>1, <2>2 DEF Fails
<1> QED
  BY <1>5, <1>6

\* What a statement that goes through adds to the schema.
LEMMA ExecuteAdds ==
    ASSUME NEW s, Execute(s)
    PROVE  /\ \A t : t \in tables' \ tables =>
                \/ s.op \in {"create", "ensure"} /\ t = s.on
                \/ s.op = "rename" /\ t = "tool_events"
           /\ \A c : c \in columns' \ columns => s.op = "addColumn" /\ c = s.what
BY DEF Execute, schemaVars

LEMMA ResumableStatement ==
    ASSUME MInv, Resumable, EventsThere, NEW p \in Procs, RunStatement(p) PROVE Resumable'
<1> PICK w, n, s : w = at[p] /\ n = line[p] /\ s = Script[w][n]
  OBVIOUS
<1>0. TypeOK /\ Ordered
  BY DEF MInv
<1>1. /\ w \in Versions /\ n \in DOMAIN Script[w] /\ n \in Nat /\ Working(p, w)
      /\ UNCHANGED <<at, ledger, together, torn>>
  BY <1>0, AtStatement DEF Working, RunStatement, history
<1>2. CASE Fails(s)
  <2>1. w \in together \cup torn
    BY <1>2, NoStatementFails
  <2>2. UNCHANGED <<tables, columns, line>> /\ pc' = [pc EXCEPT ![p] = "failed"]
    BY <1>2, StatementEnds, <1>1 DEF Execute, schemaVars, RunStatement
  <2>3. \A q \in Procs : \A v \in Versions : v # w => (Working(q, v)' <=> Working(q, v))
    BY <1>0, <1>1, <2>2 DEF Working, TypeOK
  <2> QED
    BY <1>1, <2>1, <2>2, <2>3 DEF Resumable, Untouched
<1>3. CASE ~Fails(s)
  <2>1. /\ Execute(s) /\ line' = [line EXCEPT ![p] = n + 1]
        /\ pc' = [pc EXCEPT ![p] = IF n = Len(Script[w]) THEN "record" ELSE pc[p]]
    BY <1>3, StatementEnds
  <2>2. \A q \in Procs : \A v \in Versions :
          Working(q, v)' <=> Working(q, v)
    BY <1>0, <1>1, <2>1 DEF Working, TypeOK, RunStatement
  <2>3. /\ \A q \in Procs \ {p} : line'[q] = line[q]
        /\ line'[p] = n + 1
    BY <1>0, <2>1 DEF TypeOK
  <2>4. ASSUME NEW v \in Versions \ (ledger \cup together \cup torn),
               NEW i \in DOMAIN Script[v], v # w \/ i # n,
               Script[v][i].op = "create"
        PROVE  Script[v][i].on \in tables' => Script[v][i].on \in tables
    <3>1. v = 1
      <4>1. CASE v = 8
        <5>1. i \in 1..10
          BY <2>4, <4>1, TasksScript
        <5> QED
          BY <2>4, <4>1, <5>1, TasksScript
             DEF Ensure, Touch, Protect, Unprotect, Copy, Drop, Rename
      <4> QED BY <2>4, <4>1, OtherScripts
    <3>2. w = 1
      BY <1>0, <1>1, <3>1 DEF Ordered, Working, Versions
    <3>3. s.op \in {"create", "protect"}
      <4>1. n \in 1..8
        BY <1>1, <3>2, InitialScript
      <4> QED BY <3>2, <4>1, InitialScript DEF Create, Protect
    <3>4. s.op = "create" => Script[v][i].on # s.on
      BY <1>1, <2>4, MadeOnce
    <3> QED BY <2>1, <3>3, <3>4, ExecuteAdds
  <2>5. ASSUME NEW v \in Versions \ (ledger \cup together \cup torn),
               NEW i \in DOMAIN Script[v], v # w \/ i # n,
               Script[v][i].op = "addColumn"
        PROVE  Script[v][i].what \in columns' => Script[v][i].what \in columns
    <3>1. s.op = "addColumn" => Script[v][i].what # s.what
      BY <1>1, <2>5, MadeOnce
    <3> QED BY <2>1, <3>1, ExecuteAdds
  <2>6. ASSUME NEW v \in Versions \ (ledger \cup together \cup torn), v # w,
               NEW k \in Nat, Untouched(v, k)
        PROVE  Untouched(v, k)'
    BY <2>4, <2>5, <2>6 DEF Untouched
  <2>7. ASSUME w \notin ledger \cup together \cup torn
        PROVE  Untouched(w, n + 1)'
    <3>1. Untouched(w, n)
      BY <1>1, <2>7 DEF Resumable
    <3>2. \A i \in DOMAIN Script[w] : i \in Nat
      BY <1>1, StatementTypes
    <3> QED BY <1>1, <2>4, <2>5, <2>7, <3>1, <3>2 DEF Untouched
  <2>8. \A q \in Procs : line[q] \in Nat
    BY <1>0 DEF TypeOK
  <2>9. \A q \in Procs : w \notin together /\ Working(q, w) => q = p
    BY <1>1 DEF MInv, Alone
  <2>10. ASSUME NEW v \in Versions \ (ledger \cup together \cup torn)
         PROVE  /\ \A q \in Procs : Working(q, v)' => Untouched(v, line[q])'
                /\ (\A q \in Procs : ~Working(q, v)') => Untouched(v, 1)'
    <3>1. CASE v = w
      BY <1>1, <2>2, <2>3, <2>7, <2>9, <3>1
    <3>2. CASE v # w
      <4>1. \A q \in Procs : Working(q, v) => q # p
        BY <1>1, <3>2 DEF Working
      <4> QED BY <2>2, <2>3, <2>6, <2>8, <3>2, <4>1 DEF Resumable
    <3> QED BY <3>1, <3>2
  <2> QED
    BY <1>1, <2>10 DEF Resumable
<1> QED
  BY <1>2, <1>3

LEMMA ResumableStep == MInv /\ Resumable /\ EventsThere /\ [Next]_vars => Resumable'
<1> SUFFICES ASSUME MInv, Resumable, EventsThere, [Next]_vars PROVE Resumable'
  OBVIOUS
<1>0. TypeOK /\ Ordered /\ Alone
  BY DEF MInv
<1>1. ASSUME UNCHANGED <<tables, columns, ledger>>, together \subseteq together',
             torn \subseteq torn',
             \A q \in Procs : \A v \in Versions :
                Working(q, v)' <=> Working(q, v),
             \A q \in Procs : \A v \in Versions : Working(q, v) => line'[q] = line[q]
      PROVE  Resumable'
  BY <1>1 DEF Resumable, Untouched
<1>2. ASSUME NEW p \in Procs, Start(p) PROVE Resumable'
  BY <1>0, <1>1, <1>2 DEF Start, TypeOK, Working, history, schemaVars
<1>3. ASSUME NEW p \in Procs, Check(p) PROVE Resumable'
  <2> PICK v : v = Following(at[p])
    OBVIOUS
  <2>1. UNCHANGED <<tables, columns, ledger, torn>> /\ pc[p] = "check"
    BY <1>3 DEF Check, schemaVars
  <2>2. CASE pc' = [pc EXCEPT ![p] = "ready"] /\ UNCHANGED <<at, line, together>>
    BY <1>0, <1>1, <2>1, <2>2 DEF TypeOK, Working
  <2>3. CASE at' = [at EXCEPT ![p] = v] /\ UNCHANGED <<pc, line, together>>
    BY <1>0, <1>1, <2>1, <2>3 DEF TypeOK, Working
  <2>4. CASE /\ pc' = [pc EXCEPT ![p] = "run"] /\ at' = [at EXCEPT ![p] = v]
             /\ line' = [line EXCEPT ![p] = 1]
             /\ together' = together \cup {w \in {v} : \E q \in Procs \ {p} : Working(q, w)}
    <3>1. \A q \in Procs : \A w \in Versions :
            Working(q, w)' <=> Working(q, w) \/ (q = p /\ w = v)
      BY <1>0, <2>1, <2>4 DEF TypeOK, Working
    <3>2. line'[p] = 1 /\ \A q \in Procs \ {p} : line'[q] = line[q]
      BY <1>0, <2>4 DEF TypeOK
    <3>3. \A w \in Versions : ~Working(p, w)
      BY <2>1 DEF Working
    <3>4. v \notin together' => \A q \in Procs : ~Working(q, v)
      BY <2>1, <2>4 DEF Working
    <3>5. \A w, k : Untouched(w, k)' <=> Untouched(w, k)
      BY <2>1 DEF Untouched
    <3>6. together \subseteq together'
      BY <2>4
    <3> QED
      BY <2>1, <3>1, <3>2, <3>3, <3>4, <3>5, <3>6 DEF Resumable
  <2> QED
    BY <1>3, <2>2, <2>3, <2>4 DEF Check
<1>4. ASSUME NEW p \in Procs, RunStatement(p) PROVE Resumable'
  BY <1>4, ResumableStatement
<1>5. ASSUME NEW p \in Procs, Record(p) PROVE Resumable'
  <2>1. /\ at[p] \in Versions /\ tables' = tables \cup {"_skycode_migrations"}
        /\ UNCHANGED <<columns, line, together, torn>> /\ ledger' = ledger \cup {at[p]}
    BY <1>0, <1>5 DEF Record, TypeOK, history
  <2>2. 1 \in ledger'
    BY <1>0, <1>5, <2>1 DEF Ordered, Record, Versions
  <2>3. \A q \in Procs : \A v \in Versions : v # at[p] => (Working(q, v)' <=> Working(q, v))
    BY <1>0, <1>5 DEF Record, TypeOK, Working
  <2>4. ASSUME NEW v \in Versions \ {1}, NEW k, Untouched(v, k) PROVE Untouched(v, k)'
    <3>1. ASSUME NEW i \in DOMAIN Script[v] PROVE Script[v][i].op # "create"
      <4>1. CASE v = 8
        <5>1. i \in 1..10
          BY <3>1, <4>1, TasksScript
        <5> QED
          BY <4>1, <5>1, TasksScript
             DEF Ensure, Touch, Protect, Unprotect, Copy, Drop, Rename
      <4> QED BY <3>1, <4>1, OtherScripts
    <3> QED BY <2>1, <2>4, <3>1 DEF Untouched
  <2> QED
    BY <2>1, <2>2, <2>3, <2>4 DEF Resumable
<1>6. ASSUME NEW p \in Procs, Kill(p) PROVE Resumable'
  <2>1. /\ UNCHANGED <<tables, columns, ledger, together, at, line>>
        /\ pc' = [pc EXCEPT ![p] = "off"]
        /\ torn' = torn \cup {v \in {at[p]} : pc[p] # "check" /\ Unrepeatable(v, line[p])}
    BY <1>6 DEF Kill, schemaVars
  <2>2. \A q \in Procs : \A v \in Versions : Working(q, v)' <=> Working(q, v) /\ q # p
    BY <1>0, <2>1 DEF TypeOK, Working
  <2>3. \A w, k : Untouched(w, k)' <=> Untouched(w, k)
    BY <2>1 DEF Untouched
  <2>4. ASSUME NEW v \in Versions \ (ledger' \cup together' \cup torn')
        PROVE  /\ \A q \in Procs : Working(q, v)' => Untouched(v, line[q])'
               /\ (\A q \in Procs : ~Working(q, v)') => Untouched(v, 1)'
    <3>1. v \notin ledger \cup together \cup torn
      BY <2>1, <2>4
    <3>2. CASE Working(p, v)
      <4>1. \A q \in Procs : ~Working(q, v)'
        BY <1>0, <2>2, <3>1, <3>2 DEF Alone
      <4>2. ~Unrepeatable(v, line[p])
        BY <2>1, <2>4, <3>2 DEF Working
      <4>3. \A i \in DOMAIN Script[v] : i \in Nat \ {0}
        BY StatementTypes
      <4>4. Untouched(v, line[p]) /\ line[p] \in Nat
        BY <1>0, <3>1, <3>2 DEF Resumable, TypeOK
      <4>5. Untouched(v, 1)
        BY <4>2, <4>3, <4>4 DEF Untouched, Unrepeatable
      <4> QED BY <2>3, <4>1, <4>5
    <3>3. CASE ~Working(p, v)
      <4>1. \A q \in Procs : Working(q, v)' <=> Working(q, v)
        BY <2>2, <3>3
      <4> QED BY <2>1, <2>3, <3>1, <4>1 DEF Resumable
    <3> QED BY <3>2, <3>3
  <2> QED
    BY <2>4 DEF Resumable
<1>7. ASSUME NEW r \in Rows, AppendEvent(r) PROVE Resumable'
  BY <1>1, <1>7 DEF AppendEvent, procVars, Working
<1>8. CASE UNCHANGED vars
  BY <1>1, <1>8 DEF vars, procVars, history, schemaVars, Working
<1> QED
  BY <1>2, <1>3, <1>4, <1>5, <1>6, <1>7, <1>8 DEF Next

LEMMA ResumableInit == Init => Resumable
<1> SUFFICES ASSUME Init PROVE Resumable
  OBVIOUS
<1>1. \A p \in Procs : \A v \in Versions : ~Working(p, v)
  BY DEF Init, Working
<1>2. CASE Empty
  BY <1>1, <1>2 DEF Empty, Resumable, Untouched
<1>3. CASE LeftAtSeven
  <2>1. ASSUME NEW v \in {8, 9} PROVE Untouched(v, 1)
    <3>1. CASE v = 8
      <4>1. \A i \in 1..10 : Script[8][i].op \notin {"create", "addColumn"}
        BY TasksScript DEF Ensure, Touch, Protect, Unprotect, Copy, Drop, Rename
      <4> QED BY <3>1, <4>1, TasksScript DEF Untouched
    <3>2. CASE v = 9
      BY <1>3, <3>2, ScriptIs DEF LeftAtSeven, Untouched, KeyRegistry, AddColumn, Touch
    <3> QED BY <3>1, <3>2
  <2> QED
    BY <1>1, <1>3, <2>1 DEF Init, LeftAtSeven, Resumable, Versions
<1> QED
  BY <1>2, <1>3 DEF Init

LEMMA EventsThereStatement ==
    ASSUME MInv, Resumable, EventsThere, NEW p \in Procs, RunStatement(p) PROVE EventsThere'
<1> PICK w, n, s : w = at[p] /\ n = line[p] /\ s = Script[w][n]
  OBVIOUS
<1>0. TypeOK /\ Ordered /\ Alone /\ First
  BY DEF MInv
<1>1. /\ w \in Versions /\ n \in DOMAIN Script[w] /\ n \in Nat /\ Working(p, w)
      /\ UNCHANGED <<at, ledger, together, torn>>
  BY <1>0, AtStatement DEF Working, RunStatement, history
<1>2. CASE Fails(s)
  <2>1. w \in together \cup torn
    BY <1>2, NoStatementFails
  <2>2. UNCHANGED <<tables, line>> /\ pc' = [pc EXCEPT ![p] = "failed"]
    BY <1>2, StatementEnds, <1>1 DEF Execute, schemaVars, RunStatement
  <2>3. /\ \A q \in Procs : Working(q, 1)' => Working(q, 1)
        /\ \A q \in Procs : w # 8 => (Working(q, 8)' <=> Working(q, 8))
    BY <1>0, <1>1, <2>2 DEF Working, TypeOK
  <2> QED
    BY <1>1, <2>1, <2>2, <2>3 DEF EventsThere
<1>3. CASE ~Fails(s)
  <2>1. /\ Execute(s) /\ line' = [line EXCEPT ![p] = n + 1]
        /\ pc' = [pc EXCEPT ![p] = IF n = Len(Script[w]) THEN "record" ELSE pc[p]]
    BY <1>3, StatementEnds
  <2>2. \A q \in Procs : \A v \in Versions : Working(q, v)' <=> Working(q, v)
    BY <1>0, <1>1, <2>1 DEF Working, TypeOK, RunStatement
  <2>3. (\A q \in Procs \ {p} : line'[q] = line[q]) /\ line'[p] = n + 1
    BY <1>0, <2>1 DEF TypeOK
  <2>4. 1 \in Versions /\ 8 \in Versions
    BY DEF Versions
  <2>5. CASE w # 8
    <3>1. s.op \in {"create", "ensure", "addColumn", "touch", "protect"}
          /\ (s.op \in {"create", "ensure"} /\ s.on = "tool_events" => w = 1 /\ n = 2)
      BY <1>1, <2>5, OtherScripts
    <3>2. tables \subseteq tables'
      BY <2>1, <3>1 DEF Execute, schemaVars
    <3>3. w = 1 /\ n = 2 => "tool_events" \in tables'
      <4>1. w = 1 /\ n = 2 => s = Create("tool_events")
        BY InitialScript
      <4> QED BY <2>1, <4>1 DEF Execute, Create
    <3>4. "tool_events" \in tables' /\ "tool_events" \notin tables => 1 \notin ledger
      <4>1. "tool_events" \in tables' /\ "tool_events" \notin tables => w = 1 /\ n = 2
        BY <2>1, <3>1, ExecuteAdds
      <4> QED BY <1>0, <1>1, <4>1 DEF First
    <3>5. \A q \in Procs : Working(q, 8) => q # p /\ 1 \in ledger
      BY <1>0, <1>1, <2>4, <2>5 DEF Working, Ordered
    <3>6. \A q \in Procs : Working(q, 1)' /\ line'[q] > 2 =>
             Working(q, 1) /\ (line[q] > 2 \/ (w = 1 /\ n = 2))
      BY <1>1, <2>2, <2>3, <2>4 DEF Working
    <3> QED
      BY <1>1, <2>2, <2>3, <2>4, <3>2, <3>3, <3>4, <3>5, <3>6 DEF EventsThere
  <2>6. CASE w = 8
    <3>0. n \in DOMAIN Script[8] /\ Working(p, 8)
      BY <1>1, <2>6
    <3>1. 1 \in ledger /\ n \in 1..10
      BY <1>0, <2>4, <3>0, TasksScript DEF Ordered, Working
    <3>2. \A q \in Procs : Working(q, 1)' => ~(line'[q] > 2)
      <4>1. ASSUME NEW q \in Procs, Working(q, 1)' PROVE ~(line[q] > 2) /\ q # p
        <5>0. Working(q, 1) /\ line[q] \in Nat
          BY <1>0, <2>2, <2>4, <4>1 DEF TypeOK
        <5>1. Working(q, 1) /\ q # p /\ line[q] \in Nat
          BY <3>0, <5>0 DEF Working
        <5> QED BY <1>0, <3>1, <5>1 DEF First
      <4> QED BY <2>3, <4>1
    <3>3. ASSUME 8 \notin together \cup torn
          PROVE  /\ \/ "tool_events" \in tables'
                    \/ Working(p, 8)' /\ line'[p] = 7
                 /\ line'[p] \in 3..7 => "tool_events_phase9" \in tables'
                 /\ line'[p] = 7 => "tool_events" \notin tables'
      <4>0. /\ Working(p, 8) /\ line[p] = n
            /\ \A q \in Procs : Working(q, 8) => q = p
        BY <1>0, <1>1, <2>4, <2>6, <3>3 DEF Alone
      <4>1. /\ n # 7 => "tool_events" \in tables
            /\ n \in 3..7 => "tool_events_phase9" \in tables
        BY <3>1, <3>3, <4>0 DEF EventsThere
      <4> USE DEF Execute, Ensure, Touch, Protect, Unprotect, Copy, Drop, Rename, schemaVars
      <4>2. CASE n = 1
        <5>1. s = Ensure("submitted_tasks")
          BY <2>6, <4>2, TasksScript
        <5> QED BY <2>1, <2>3, <4>1, <4>2, <5>1
      <4>3. CASE n = 2
        <5>1. s = Ensure("tool_events_phase9")
          BY <2>6, <4>3, TasksScript
        <5> QED BY <2>1, <2>3, <4>1, <4>3, <5>1
      <4>4. CASE n \in {3, 4, 5, 8, 9, 10}
        <5>1. s.op \in {"copy", "unprotect", "touch", "protect"}
          BY <2>6, <4>4, TasksScript
        <5>2. UNCHANGED tables
          BY <2>1, <5>1
        <5> QED BY <2>3, <4>1, <4>4, <5>2
      <4>5. CASE n = 6
        <5>1. s = Drop("tool_events")
          BY <2>6, <4>5, TasksScript
        <5>2. tables' = tables \ {"tool_events"}
          BY <2>1, <5>1
        <5>3. Working(p, 8)' /\ line'[p] = 7
          BY <2>2, <2>3, <2>4, <4>0, <4>5
        <5> QED BY <4>1, <4>5, <5>2, <5>3
      <4>6. CASE n = 7
        <5>1. s = Rename
          BY <2>6, <4>6, TasksScript
        <5>2. "tool_events" \in tables'
          BY <2>1, <5>1
        <5> QED BY <2>3, <4>6, <5>2
      <4> QED BY <3>1, <4>2, <4>3, <4>4, <4>5, <4>6
    <3>4. \A q \in Procs : 8 \notin together /\ Working(q, 8)' => q = p
      BY <1>0, <1>1, <2>2, <2>4, <2>6 DEF Alone
    <3> QED
      BY <1>1, <3>2, <3>3, <3>4 DEF EventsThere
  <2> QED BY <2>5, <2>6
<1> QED
  BY <1>2, <1>3

LEMMA EventsThereStep == MInv /\ Resumable /\ EventsThere /\ [Next]_vars => EventsThere'
<1> SUFFICES ASSUME MInv, Resumable, EventsThere, [Next]_vars PROVE EventsThere'
  OBVIOUS
<1>0. TypeOK /\ Ordered
  BY DEF MInv
<1>1. ASSUME UNCHANGED <<tables, ledger>>, together \subseteq together', torn \subseteq torn',
             \A q \in Procs : \A v \in {1, 8} : Working(q, v)' /\ line'[q] > 1 =>
                Working(q, v) /\ line'[q] = line[q],
             8 \notin torn' => \A q \in Procs : Working(q, 8) /\ line[q] = 7 =>
                Working(q, 8)' /\ line'[q] = 7
      PROVE  EventsThere'
  <2>1. \A q \in Procs : Working(q, 1)' /\ line'[q] > 2 => Working(q, 1) /\ line[q] > 2
    <3>1. \A q \in Procs : \A v \in {1, 8} : Working(q, v)' /\ line'[q] > 1 =>
                Working(q, v) /\ line'[q] = line[q]
      BY <1>1
    <3>2. [Next]_vars => \A q \in Procs : line'[q] \in Nat
      BY <1>0, TypeStep DEF TypeOK
    <3> QED BY <3>1, <3>2
  <2>2. \A q \in Procs : Working(q, 8)' /\ line'[q] \in 3..7 => Working(q, 8) /\ line[q] = line'[q]
    BY <1>1
  <2> QED
    BY <1>1, <2>1, <2>2 DEF EventsThere
<1>2. ASSUME NEW p \in Procs, Start(p) PROVE EventsThere'
  BY <1>0, <1>1, <1>2 DEF Start, TypeOK, Working, history, schemaVars
<1>3. ASSUME NEW p \in Procs, Check(p) PROVE EventsThere'
  <2> PICK v : v = Following(at[p])
    OBVIOUS
  <2>1. UNCHANGED <<tables, ledger, torn>> /\ pc[p] = "check"
    BY <1>3 DEF Check, schemaVars
  <2>2. CASE pc' = [pc EXCEPT ![p] = "ready"] /\ UNCHANGED <<at, line, together>>
    BY <1>0, <1>1, <2>1, <2>2 DEF TypeOK, Working
  <2>3. CASE at' = [at EXCEPT ![p] = v] /\ UNCHANGED <<pc, line, together>>
    BY <1>0, <1>1, <2>1, <2>3 DEF TypeOK, Working
  <2>4. CASE /\ pc' = [pc EXCEPT ![p] = "run"] /\ at' = [at EXCEPT ![p] = v]
             /\ line' = [line EXCEPT ![p] = 1] /\ together \subseteq together'
    BY <1>0, <1>1, <2>1, <2>4 DEF TypeOK, Working
  <2> QED
    BY <1>3, <2>2, <2>3, <2>4 DEF Check
<1>4. ASSUME NEW p \in Procs, RunStatement(p) PROVE EventsThere'
  BY <1>4, EventsThereStatement
<1>5. ASSUME NEW p \in Procs, Record(p) PROVE EventsThere'
  <2>1. /\ at[p] \in Versions /\ tables' = tables \cup {"_skycode_migrations"}
        /\ UNCHANGED <<line, together, torn>> /\ ledger' = ledger \cup {at[p]}
        /\ pc[p] = "record" /\ line[p] = Len(Script[at[p]]) + 1
    BY <1>0, <1>5 DEF Record, TypeOK, history
  <2>2. \A q \in Procs : \A v \in Versions : Working(q, v)' <=> Working(q, v) /\ q # p
    BY <1>0, <1>5 DEF Record, TypeOK, Working
  <2>3. 1 \in Versions /\ 8 \in Versions
    BY DEF Versions
  <2>4. at[p] = 1 => "tool_events" \in tables
    <3>1. Len(Script[1]) = 8
      BY ScriptIs DEF Initial
    <3>2. ASSUME at[p] = 1 PROVE line[p] = 9 /\ Working(p, 1)
      <4>1. Script[at[p]] = Script[1]
        BY <3>2
      <4>2. line[p] = 9
        <5>1. line[p] = Len(Script[1]) + 1
          BY <2>1, <4>1
        <5> QED BY <3>1, <5>1
      <4>3. Working(p, 1)
        BY <2>1, <3>2 DEF Working
      <4> QED BY <4>2, <4>3
    <3> QED BY <3>2 DEF EventsThere
  <2>5. ASSUME at[p] = 8 PROVE line[p] = 11
    <3>1. Script[at[p]] = Script[8]
      BY <2>5
    <3> QED BY <2>1, <3>1, TasksLength
  <2>6. 8 \notin together \cup torn /\ 1 \in ledger =>
          \/ "tool_events" \in tables
          \/ \E q \in Procs \ {p} : Working(q, 8) /\ line[q] = 7
    BY <2>5 DEF EventsThere, Working
  <2> QED
    BY <2>1, <2>2, <2>3, <2>4, <2>6 DEF EventsThere
<1>6. ASSUME NEW p \in Procs, Kill(p) PROVE EventsThere'
  <2>1. /\ UNCHANGED <<tables, ledger, together, at, line>>
        /\ pc' = [pc EXCEPT ![p] = "off"]
        /\ torn' = torn \cup {v \in {at[p]} : pc[p] # "check" /\ Unrepeatable(v, line[p])}
    BY <1>6 DEF Kill, schemaVars
  <2>2. \A q \in Procs : \A v : Working(q, v)' <=> Working(q, v) /\ q # p
    BY <1>0, <2>1 DEF TypeOK, Working
  <2>3. Working(p, 8) /\ line[p] = 7 => 8 \in torn'
    <3>1. Unrepeatable(8, 7)
      BY TasksScript DEF Unrepeatable, Rename
    <3> QED BY <2>1, <3>1 DEF Working
  <2> QED
    BY <1>1, <2>1, <2>2, <2>3
<1>7. ASSUME NEW r \in Rows, AppendEvent(r) PROVE EventsThere'
  BY <1>1, <1>7 DEF AppendEvent, procVars, Working
<1>8. CASE UNCHANGED vars
  BY <1>1, <1>8 DEF vars, procVars, history, schemaVars, Working
<1> QED
  BY <1>2, <1>3, <1>4, <1>5, <1>6, <1>7, <1>8 DEF Next

LEMMA EventsThereInit == Init => EventsThere
<1> SUFFICES ASSUME Init PROVE EventsThere
  OBVIOUS
<1>1. \A p \in Procs : \A v : ~Working(p, v)
  BY DEF Init, Working
<1>2. 1 \in ledger => "tool_events" \in tables
  BY DEF Init, Empty, LeftAtSeven, TableNames
<1> QED
  BY <1>1, <1>2 DEF EventsThere

LEMMA FailuresStep ==
    MInv /\ Resumable /\ EventsThere /\ FailuresExplained /\ [Next]_vars => FailuresExplained'
<1> SUFFICES ASSUME MInv, Resumable, EventsThere, FailuresExplained, [Next]_vars
             PROVE  FailuresExplained'
  OBVIOUS
<1>0. TypeOK /\ Alone
  BY DEF MInv
<1>1. ASSUME NEW p \in Procs, Start(p) PROVE FailuresExplained'
  BY <1>0, <1>1 DEF Start, TypeOK, history, FailuresExplained
<1>2. ASSUME NEW p \in Procs, Check(p) PROVE FailuresExplained'
  BY <1>0, <1>2 DEF Check, TypeOK, FailuresExplained
<1>3. ASSUME NEW p \in Procs, RunStatement(p) PROVE FailuresExplained'
  <2>1. UNCHANGED <<at, together, torn>>
    BY <1>3 DEF RunStatement, history
  <2>2. pc'[p] = "failed" => at[p] \in together \cup torn
    <3>1. Fails(Script[at[p]][line[p]]) => at[p] \in together \cup torn
      BY <1>3, NoStatementFails
    <3>2. ~Fails(Script[at[p]][line[p]]) => pc'[p] # "failed"
      BY <1>0, <1>3, StatementEnds, AtStatement DEF TypeOK
    <3> QED BY <3>1, <3>2
  <2>3. \A q \in Procs \ {p} : pc'[q] = pc[q]
    BY <1>0, <1>3 DEF RunStatement, TypeOK
  <2> QED BY <2>1, <2>2, <2>3 DEF FailuresExplained
<1>4. ASSUME NEW p \in Procs, Record(p) PROVE FailuresExplained'
  <2>1. at[p] \in Versions /\ Working(p, at[p])
    BY <1>0, <1>4 DEF Record, TypeOK, Working
  <2>2. at[p] \in ledger => at[p] \in together
    BY <1>0, <2>1 DEF Alone
  <2> QED BY <1>0, <1>4, <2>2 DEF Record, TypeOK, history, FailuresExplained
<1>5. ASSUME NEW p \in Procs, Kill(p) PROVE FailuresExplained'
  BY <1>0, <1>5 DEF Kill, TypeOK, FailuresExplained
<1>6. ASSUME NEW r \in Rows, AppendEvent(r) PROVE FailuresExplained'
  BY <1>6 DEF AppendEvent, procVars, FailuresExplained
<1>7. CASE UNCHANGED vars
  BY <1>7 DEF vars, procVars, history, FailuresExplained
<1> QED
  BY <1>1, <1>2, <1>3, <1>4, <1>5, <1>6, <1>7 DEF Next

\* A start fails (the `?` of migrations.rs:42-64) only at a version that two processes
\* were at together, or where an earlier start was cut off past the point from which the
\* script can run again: for any number of processes, starts, kills and events.
THEOREM SpecFailuresExplained == Spec => []FailuresExplained
<1>1. Init => MInv /\ Resumable /\ EventsThere /\ FailuresExplained
  BY MInvInductive, ResumableInit, EventsThereInit DEF Init, FailuresExplained
<1>2. (MInv /\ Resumable /\ EventsThere /\ FailuresExplained) /\ [Next]_vars
        => (MInv /\ Resumable /\ EventsThere /\ FailuresExplained)'
  BY MInvInductive, ResumableStep, EventsThereStep, FailuresStep
<1> QED
  BY <1>1, <1>2, PTL DEF Spec
=============================================================================

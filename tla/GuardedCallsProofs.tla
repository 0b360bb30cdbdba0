-------------------------- MODULE GuardedCallsProofs ---------------------------
(***************************************************************************)
(* First the loop guard by itself: BudgetKept for every number of servers, *)
(* tasks and agents and every budget.  A call that was counted and has not *)
(* read the count yet may still go ahead; the invariant is that such calls *)
(* and those that ran are never more than the count.  EarlyBlocksBounded   *)
(* follows from an exact account of the calls that were counted            *)
(* (Accounted).                                                            *)
(*                                                                         *)
(* Then the tests beside it.  Each step of the composition is a step of    *)
(* LoopGuard or leaves it alone, so what is said of the guard holds here.  *)
(* For the results: a run that passed is over, and nothing changes the     *)
(* life of its command after that.                                         *)
(***************************************************************************)
EXTENDS GuardedCalls, FiniteSetTheorems, TLAPS

-----------------------------------------------------------------------------
(* The loop guard (Spec).                                                  *)

\* Servers that counted a call for k and have not read the count.
Reading(k) == {s \in Servers : pc[s] = "read" /\ call[s] = k}

Covered == \A k \in Pairs : ran[k] + Cardinality(Reading(k)) <= counter[k]

IInv == TypeOK /\ Covered /\ BudgetKept

\* The servers reading for one key are finitely many.
LEMMA ReadingFinite ==
    ASSUME NEW k \in Pairs
    PROVE  IsFiniteSet(Reading(k)) /\ Cardinality(Reading(k)) \in Nat
<1>1. IsFiniteSet(Reading(k))
  BY GuardAssumption, FS_Subset DEF Reading
<1> QED
  BY <1>1, FS_CardinalityType

\* The typing is inductive by itself.
LEMMA TypeStep == TypeOK /\ [Next]_vars => TypeOK'
<1> SUFFICES ASSUME TypeOK, [Next]_vars PROVE TypeOK'
  OBVIOUS
<1>1. ASSUME NEW s \in Servers, NEW k \in Pairs, Upsert(s, k) PROVE TypeOK'
  BY <1>1 DEF TypeOK, Upsert
<1>2. ASSUME NEW s \in Servers, Read(s) PROVE TypeOK'
  BY <1>2 DEF TypeOK, Read
<1>3. ASSUME NEW s \in Servers, Block(s) PROVE TypeOK'
  <2>1. Row(s) \in [task : Tasks, agent : Agents, calls : Nat]
    BY DEF TypeOK, Row, Pairs
  <2> QED BY <1>3, <2>1 DEF TypeOK, Block
<1>4. ASSUME NEW s \in Servers, Die(s) PROVE TypeOK'
  BY <1>4 DEF TypeOK, Die
<1>5. CASE UNCHANGED vars
  BY <1>5 DEF TypeOK, vars
<1> QED
  BY <1>1, <1>2, <1>3, <1>4, <1>5 DEF Next

\* Counting a call: one more is reading, for its key alone.
LEMMA UpsertStep ==
    ASSUME IInv, NEW s \in Servers, NEW k \in Pairs, Upsert(s, k)
    PROVE  (Covered /\ BudgetKept)'
<1>1. s \notin Reading(k)
  BY DEF Reading, Upsert
<1>2. Reading(k)' = Reading(k) \cup {s}
  BY DEF Reading, Upsert, IInv, TypeOK
<1>3. Cardinality(Reading(k)') = Cardinality(Reading(k)) + 1
  BY <1>1, <1>2, ReadingFinite, FS_AddElement
<1>4. ASSUME NEW j \in Pairs, j # k PROVE Reading(j)' = Reading(j)
  BY <1>4 DEF Reading, Upsert, IInv, TypeOK
<1>5. Covered'
  BY <1>3, <1>4, ReadingFinite DEF Covered, Upsert, IInv, TypeOK
<1> QED
  BY <1>5 DEF BudgetKept, Upsert, IInv

\* Leaving the guard: fewer are reading.
LEMMA LeaveStep ==
    ASSUME IInv, NEW s \in Servers, UNCHANGED <<counter, call, ran>>,
           \E l \in {"idle", "block"} : pc' = [pc EXCEPT ![s] = l]
    PROVE  (Covered /\ BudgetKept)'
<1>1. ASSUME NEW j \in Pairs PROVE Cardinality(Reading(j)') <= Cardinality(Reading(j))
  <2>1. Reading(j)' \subseteq Reading(j)
    BY DEF Reading, IInv, TypeOK
  <2> QED BY <2>1, ReadingFinite, FS_Subset
<1>2. ASSUME NEW j \in Pairs PROVE Cardinality(Reading(j)') \in Nat
  <2>1. Reading(j)' \subseteq Servers
    BY DEF Reading
  <2>2. IsFiniteSet(Reading(j)')
    BY <2>1, GuardAssumption, FS_Subset
  <2> QED BY <2>2, FS_CardinalityType
<1>3. Covered'
  BY <1>1, <1>2, ReadingFinite DEF Covered, IInv, TypeOK
<1> QED
  BY <1>3 DEF BudgetKept, IInv

\* Reading a count within the limit: the call was one of those counted.
LEMMA AdmitStep ==
    ASSUME IInv, NEW s \in Servers, Read(s), ~Exceeds(counter[call[s]])
    PROVE  (Covered /\ BudgetKept)'
<1>0. PICK k \in Pairs : k = call[s]
  BY DEF IInv, TypeOK
<1>1. s \in Reading(k)
  BY <1>0 DEF Reading, Read
<1>2. Reading(k)' = Reading(k) \ {s}
  BY <1>0 DEF Reading, Read, IInv, TypeOK
<1>3. Cardinality(Reading(k)') = Cardinality(Reading(k)) - 1
  BY <1>1, <1>2, ReadingFinite, FS_RemoveElement
<1>4. ASSUME NEW j \in Pairs, j # k PROVE Reading(j)' = Reading(j)
  BY <1>0, <1>4 DEF Reading, Read, IInv, TypeOK
<1>5. ran' = [ran EXCEPT ![k] = @ + 1] /\ counter' = counter
  BY <1>0 DEF Read
<1>6. Covered'
  <2>1. ran'[k] + Cardinality(Reading(k)') <= counter'[k]
    BY <1>1, <1>3, <1>5, ReadingFinite DEF Covered, IInv, TypeOK
  <2>2. ASSUME NEW j \in Pairs, j # k
        PROVE  ran'[j] + Cardinality(Reading(j)') <= counter'[j]
    <3>1. Cardinality(Reading(j)') = Cardinality(Reading(j))
      BY <1>4, <2>2
    <3>2. ran'[j] = ran[j] /\ counter'[j] = counter[j]
      BY <1>1, <1>5, <2>2 DEF IInv, TypeOK
    <3>3. ran[j] + Cardinality(Reading(j)) <= counter[j]
      BY DEF Covered, IInv
    <3> QED BY <3>1, <3>2, <3>3
  <2> QED BY <2>1, <2>2 DEF Covered
<1>7. Cardinality(Reading(k)) >= 1
  BY <1>1, <1>2, ReadingFinite, FS_EmptySet
<1>8. ran[k] + 1 <= Max
  BY <1>0, <1>7, ReadingFinite, GuardAssumption DEF Exceeds, Covered, IInv, TypeOK
<1>9. BudgetKept'
  BY <1>5, <1>8 DEF BudgetKept, IInv, TypeOK
<1> QED
  BY <1>6, <1>9

\* IInv is inductive.
LEMMA BudgetStep == IInv /\ [Next]_vars => IInv'
<1> SUFFICES ASSUME IInv, [Next]_vars PROVE (Covered /\ BudgetKept)'
  BY TypeStep DEF IInv
<1>1. ASSUME NEW s \in Servers, NEW k \in Pairs, Upsert(s, k) PROVE (Covered /\ BudgetKept)'
  BY <1>1, UpsertStep
<1>2. ASSUME NEW s \in Servers, Read(s), Exceeds(counter[call[s]])
      PROVE  (Covered /\ BudgetKept)'
  BY <1>2, LeaveStep DEF Read
<1>3. ASSUME NEW s \in Servers, Read(s), ~Exceeds(counter[call[s]])
      PROVE  (Covered /\ BudgetKept)'
  BY <1>3, AdmitStep
<1>4. ASSUME NEW s \in Servers, Block(s) \/ Die(s) PROVE (Covered /\ BudgetKept)'
  BY <1>4, LeaveStep DEF Block, Die
<1>5. CASE UNCHANGED vars
  BY <1>5 DEF vars, IInv, Covered, Reading, BudgetKept
<1> QED
  BY <1>1, <1>2, <1>3, <1>4, <1>5 DEF Next

\* The counter starts at zero with nobody in the guard.
LEMMA BudgetInit == Init => IInv
<1> SUFFICES ASSUME Init PROVE IInv
  OBVIOUS
<1>1. TypeOK
  BY DEF Init, TypeOK
<1>2. ASSUME NEW k \in Pairs PROVE Reading(k) = {}
  BY DEF Init, Reading
<1> QED
  BY <1>1, <1>2, FS_EmptySet, GuardAssumption DEF Init, IInv, Covered, BudgetKept

\* The tables and counters keep their types.
THEOREM GuardTypeCorrect == Spec => []TypeOK
<1>1. Init => TypeOK
  BY DEF Init, TypeOK
<1> QED
  BY <1>1, TypeStep, PTL DEF Spec

\* No interleaving of any number of servers, and no death of any of them, lets
\* more than Max guarded calls of a task and agent run.
THEOREM BudgetIsKept == Spec => []BudgetKept
<1>1. IInv => BudgetKept
  BY DEF IInv
<1> QED
  BY BudgetInit, BudgetStep, <1>1, PTL DEF Spec

\* A server about to refuse a call has read a count past the limit, and the
\* refusals without a row are some of the refusals.
RefusalInv ==
    /\ \A s \in Servers : pc[s] = "block" => seen[s] > Max /\ seen[s] <= counter[call[s]]
    /\ \A k \in Pairs : unwritten[k] <= refused[k]

LEMMA RefusalStep == TypeOK /\ RefusalInv /\ [Next]_vars => RefusalInv'
<1> SUFFICES ASSUME TypeOK, RefusalInv, [Next]_vars PROVE RefusalInv'
  OBVIOUS
<1>1. ASSUME NEW s \in Servers, NEW k \in Pairs, Upsert(s, k) PROVE RefusalInv'
  <2>1. \A q \in Servers : pc'[q] = "block" =>
            pc[q] = "block" /\ call'[q] = call[q] /\ call[q] \in Pairs
    BY <1>1 DEF Upsert, TypeOK
  <2>2. \A j \in Pairs : counter[j] \in Nat /\ counter'[j] \in Nat /\ counter[j] <= counter'[j]
    BY <1>1 DEF Upsert, TypeOK
  <2>3. \A q \in Servers : pc'[q] = "block" => seen'[q] > Max /\ seen'[q] <= counter'[call'[q]]
    BY <1>1, <2>1, <2>2, GuardAssumption DEF RefusalInv, Upsert, TypeOK
  <2> QED BY <1>1, <2>3 DEF RefusalInv, Upsert
<1>2. ASSUME NEW s \in Servers, Read(s) PROVE RefusalInv'
  <2>1. CASE ~Exceeds(counter[call[s]])
    BY <1>2, <2>1 DEF RefusalInv, Read, TypeOK
  <2>2. CASE Exceeds(counter[call[s]])
    BY <1>2, <2>2, GuardAssumption DEF RefusalInv, Read, Exceeds, TypeOK
  <2> QED BY <2>1, <2>2
<1>3. ASSUME NEW s \in Servers, Block(s) PROVE RefusalInv'
  <2>1. \A q \in Servers : pc'[q] = "block" => pc[q] = "block" /\ seen'[q] = seen[q]
    BY <1>3 DEF Block, TypeOK
  <2>2. \A k \in Pairs : unwritten'[k] <= refused'[k]
    BY <1>3 DEF RefusalInv, Block, TypeOK
  <2> QED BY <1>3, <2>1, <2>2 DEF RefusalInv, Block
<1>4. ASSUME NEW s \in Servers, Die(s) PROVE RefusalInv'
  <2>1. \A q \in Servers : pc'[q] = "block" => pc[q] = "block" /\ seen'[q] = seen[q]
    BY <1>4 DEF Die, TypeOK
  <2> QED BY <1>4, <2>1 DEF RefusalInv, Die
<1>5. CASE UNCHANGED vars
  BY <1>5 DEF RefusalInv, vars
<1> QED
  BY <1>1, <1>2, <1>3, <1>4, <1>5 DEF Next

\* Rows are never removed, and a refusal whose INSERT does not fail adds one
\* unless there is one with its id.
LEMMA RecordStep == TypeOK /\ RefusalInv /\ RefusalsRecorded /\ [Next]_vars => RefusalsRecorded'
<1> SUFFICES ASSUME TypeOK, RefusalInv, RefusalsRecorded, [Next]_vars PROVE RefusalsRecorded'
  OBVIOUS
<1>0. ASSUME NEW b \in blocked PROVE <<b.task, b.agent>> \in Pairs /\ b.calls \in Nat
  BY <1>0 DEF TypeOK, Pairs
<1>1. ASSUME NEW s \in Servers, NEW k \in Pairs, Upsert(s, k) PROVE RefusalsRecorded'
  <2>1. UNCHANGED <<blocked, refused, unwritten>>
    BY <1>1 DEF Upsert
  <2>2. \A j \in Pairs : counter[j] \in Nat /\ counter'[j] \in Nat /\ counter[j] <= counter'[j]
    BY <1>1 DEF Upsert, TypeOK
  <2>3. ASSUME NEW b \in blocked PROVE b.calls <= counter'[<<b.task, b.agent>>]
    BY <1>0, <2>2, <2>3 DEF RefusalsRecorded
  <2> QED BY <2>1, <2>3 DEF RefusalsRecorded
<1>2. ASSUME NEW s \in Servers, Read(s) PROVE RefusalsRecorded'
  BY <1>2 DEF RefusalsRecorded, Read
<1>3. ASSUME NEW s \in Servers, Block(s) PROVE RefusalsRecorded'
  <2> DEFINE k == call[s]
  <2>0. /\ k \in Pairs /\ refused[k] \in Nat /\ unwritten[k] \in Nat
        /\ refused'[k] = refused[k] + 1 /\ unwritten[k] <= refused[k]
        /\ \A j \in Pairs \ {k} : refused'[j] = refused[j]
        /\ counter' = counter
    BY <1>3 DEF Block, TypeOK, RefusalInv
  <2>1. CASE UNCHANGED blocked /\ unwritten' = [unwritten EXCEPT ![k] = @ + 1]
    <3>1. \A j \in Pairs : refused'[j] > unwritten'[j] <=> refused[j] > unwritten[j]
      <4>1. unwritten'[k] = unwritten[k] + 1 /\ \A j \in Pairs \ {k} : unwritten'[j] = unwritten[j]
        BY <2>0, <2>1 DEF TypeOK
      <4> QED BY <2>0, <4>1
    <3> QED BY <1>0, <2>0, <2>1, <3>1 DEF RefusalsRecorded
  <2>2. CASE blocked' = (IF IdTaken(s) THEN blocked ELSE blocked \cup {Row(s)}) /\ UNCHANGED unwritten
    <3>1. blocked \subseteq blocked' /\ \E b \in blocked' : b.task = k[1]
      <4>1. Row(s).task = k[1]
        BY DEF Row
      <4>2. CASE IdTaken(s)
        BY <2>2, <4>1, <4>2 DEF IdTaken
      <4>3. CASE ~IdTaken(s)
        BY <2>2, <4>1, <4>3
      <4> QED BY <4>2, <4>3
    <3>2. ASSUME NEW j \in Pairs, refused'[j] > unwritten'[j]
          PROVE  \E b \in blocked' : b.task = j[1]
      <4>1. CASE j = k
        BY <3>1, <4>1
      <4>2. CASE j # k
        BY <2>0, <2>2, <3>1, <3>2, <4>2 DEF RefusalsRecorded
      <4> QED BY <4>1, <4>2
    <3>3. ASSUME NEW b \in blocked'
          PROVE  /\ refused'[<<b.task, b.agent>>] > unwritten'[<<b.task, b.agent>>]
                 /\ b.calls > Max /\ b.calls <= counter'[<<b.task, b.agent>>]
      <4>1. CASE b \in blocked
        <5>1. <<b.task, b.agent>> \in Pairs /\ refused[<<b.task, b.agent>>] > unwritten[<<b.task, b.agent>>]
          BY <1>0, <4>1 DEF RefusalsRecorded
        <5>2. refused'[<<b.task, b.agent>>] > unwritten'[<<b.task, b.agent>>]
          BY <2>0, <2>2, <5>1
        <5> QED BY <2>0, <4>1, <5>2 DEF RefusalsRecorded
      <4>2. CASE b = Row(s)
        <5>1. <<b.task, b.agent>> = k /\ b.calls = seen[s]
          BY <2>0, <4>2 DEF Row, Pairs
        <5>2. seen[s] > Max /\ seen[s] <= counter[k]
          BY <1>3 DEF RefusalInv, Block
        <5> QED BY <2>0, <2>2, <5>1, <5>2
      <4> QED BY <2>2, <4>1, <4>2
    <3> QED BY <3>2, <3>3 DEF RefusalsRecorded
  <2> QED BY <1>3, <2>1, <2>2 DEF Block
<1>4. ASSUME NEW s \in Servers, Die(s) PROVE RefusalsRecorded'
  BY <1>4 DEF RefusalsRecorded, Die
<1>5. CASE UNCHANGED vars
  BY <1>5 DEF RefusalsRecorded, vars
<1> QED
  BY <1>1, <1>2, <1>3, <1>4, <1>5 DEF Next

\* However refusals of several servers interleave with deaths in the guard and
\* with INSERTs that fail, a task with a refused call has a security.blocked row
\* unless each of its INSERTs failed, and every row is of a refusal past the limit.
THEOREM RefusalsAreRecorded == Spec => []RefusalsRecorded
<1>1. Init => TypeOK /\ RefusalInv /\ RefusalsRecorded
  BY DEF Init, TypeOK, RefusalInv, RefusalsRecorded
<1>2. (TypeOK /\ RefusalInv /\ RefusalsRecorded) /\ [Next]_vars
          => (TypeOK /\ RefusalInv /\ RefusalsRecorded)'
  BY TypeStep, RefusalStep, RecordStep
<1> QED
  BY <1>1, <1>2, PTL DEF Spec

-----------------------------------------------------------------------------
(* Calls that are counted and in the guard make up the difference between  *)
(* the count and the calls that ran, were refused or died; at most one per *)
(* server, which is what a refusal may come too early by.                  *)

\* Servers with a counted call for k that has not left the guard.
InGuard(k) == {s \in Servers : pc[s] # "idle" /\ call[s] = k}

Accounted ==
    \A k \in Pairs : counter[k] = ran[k] + refused[k] + lost[k] + Cardinality(InGuard(k))

Floor(k) == ran[k] + lost[k] >= Max - (Cardinality(Servers) - 1)

EarlyInv ==
    \A k \in Pairs :
        refused[k] > 0 \/ (\E s \in Servers : pc[s] = "block" /\ call[s] = k) => Floor(k)

LEMMA InGuardFinite ==
    ASSUME NEW k \in Pairs
    PROVE  /\ IsFiniteSet(InGuard(k)) /\ Cardinality(InGuard(k)) \in Nat
           /\ Cardinality(InGuard(k)) <= Cardinality(Servers) /\ Cardinality(Servers) \in Nat
<1>1. InGuard(k) \subseteq Servers
  BY DEF InGuard
<1> QED
  BY <1>1, GuardAssumption, FS_Subset, FS_CardinalityType

\* A call that leaves the guard, by any way out.
LEMMA LeavesGuard ==
    ASSUME TypeOK, NEW s \in Servers, pc[s] # "idle", pc' = [pc EXCEPT ![s] = "idle"],
           UNCHANGED call
    PROVE  /\ Cardinality(InGuard(call[s])') = Cardinality(InGuard(call[s])) - 1
           /\ \A j \in Pairs \ {call[s]} : InGuard(j)' = InGuard(j)
<1>1. s \in InGuard(call[s]) /\ call[s] \in Pairs
  BY DEF InGuard, TypeOK
<1>2. InGuard(call[s])' = InGuard(call[s]) \ {s}
  BY DEF InGuard, TypeOK
<1>3. \A j \in Pairs \ {call[s]} : InGuard(j)' = InGuard(j)
  BY DEF InGuard, TypeOK
<1> QED
  BY <1>1, <1>2, <1>3, InGuardFinite, FS_RemoveElement

LEMMA AccountedStep == TypeOK /\ Accounted /\ [Next]_vars => Accounted'
<1> SUFFICES ASSUME TypeOK, Accounted, [Next]_vars PROVE Accounted'
  OBVIOUS
<1>1. ASSUME NEW s \in Servers, NEW k \in Pairs, Upsert(s, k) PROVE Accounted'
  <2>1. s \notin InGuard(k) /\ InGuard(k)' = InGuard(k) \cup {s}
    BY <1>1 DEF InGuard, Upsert, TypeOK
  <2>2. Cardinality(InGuard(k)') = Cardinality(InGuard(k)) + 1
    BY <2>1, InGuardFinite, FS_AddElement
  <2>3. \A j \in Pairs \ {k} : InGuard(j)' = InGuard(j)
    BY <1>1 DEF InGuard, Upsert, TypeOK
  <2> QED
    BY <1>1, <2>2, <2>3, InGuardFinite DEF Accounted, Upsert, TypeOK
<1>2. ASSUME NEW s \in Servers, pc[s] # "idle", pc' = [pc EXCEPT ![s] = "idle"],
             UNCHANGED <<call, counter>>,
             \/ ran' = [ran EXCEPT ![call[s]] = @ + 1] /\ UNCHANGED <<refused, lost>>
             \/ refused' = [refused EXCEPT ![call[s]] = @ + 1] /\ UNCHANGED <<ran, lost>>
             \/ lost' = [lost EXCEPT ![call[s]] = @ + 1] /\ UNCHANGED <<ran, refused>>
      PROVE  Accounted'
  <2> PICK k \in Pairs : k = call[s]
    BY DEF TypeOK
  <2>1. Cardinality(InGuard(k)') = Cardinality(InGuard(k)) - 1
    BY <1>2, LeavesGuard
  <2>2. ASSUME NEW j \in Pairs, j # k
        PROVE  counter'[j] = ran'[j] + refused'[j] + lost'[j] + Cardinality(InGuard(j)')
    <3>1. InGuard(j)' = InGuard(j)
      BY <1>2, <2>2, LeavesGuard
    <3>2. /\ counter'[j] = counter[j] /\ ran'[j] = ran[j]
          /\ refused'[j] = refused[j] /\ lost'[j] = lost[j]
      BY <1>2, <2>2 DEF TypeOK
    <3> QED BY <3>1, <3>2 DEF Accounted
  <2>3. counter'[k] = ran'[k] + refused'[k] + lost'[k] + Cardinality(InGuard(k)')
    BY <1>2, <2>1, InGuardFinite DEF Accounted, TypeOK
  <2> QED BY <2>2, <2>3 DEF Accounted
<1>3. ASSUME NEW s \in Servers, Read(s) PROVE Accounted'
  <2>1. CASE pc' = [pc EXCEPT ![s] = "idle"]
    BY <1>2, <1>3, <2>1 DEF Read, TypeOK
  <2>2. CASE pc' = [pc EXCEPT ![s] = "block"] /\ UNCHANGED ran
    <3>1. \A j \in Pairs : InGuard(j)' = InGuard(j)
      BY <1>3, <2>2 DEF Read, InGuard, TypeOK
    <3> QED BY <1>3, <2>2, <3>1 DEF Read, Accounted
  <2> QED BY <1>3, <2>1, <2>2 DEF Read
<1>4. ASSUME NEW s \in Servers, Block(s) \/ Die(s) PROVE Accounted'
  BY <1>2, <1>4 DEF Block, Die
<1>5. CASE UNCHANGED vars
  BY <1>5 DEF vars, Accounted, InGuard
<1> QED
  BY <1>1, <1>3, <1>4, <1>5 DEF Next

LEMMA EarlyStep == TypeOK /\ Accounted /\ EarlyInv /\ [Next]_vars => EarlyInv'
<1> SUFFICES ASSUME TypeOK, Accounted, EarlyInv, [Next]_vars PROVE EarlyInv'
  OBVIOUS
<1>0. GuardAssumption /\ Cardinality(Servers) \in Nat
  BY GuardAssumption, FS_CardinalityType
<1>1. ASSUME \A j \in Pairs : ran'[j] >= ran[j] /\ lost'[j] >= lost[j],
             \A j \in Pairs : \/ ~(refused'[j] > 0)
                              \/ refused[j] > 0
                              \/ \E s \in Servers : pc[s] = "block" /\ call[s] = j,
             \A s \in Servers : pc'[s] = "block" => pc[s] = "block" /\ call'[s] = call[s],
             ran' \in [Pairs -> Nat], lost' \in [Pairs -> Nat]
      PROVE  EarlyInv'
  BY <1>0, <1>1 DEF EarlyInv, Floor, TypeOK
<1>2. ASSUME NEW s \in Servers, NEW k \in Pairs, Upsert(s, k) PROVE EarlyInv'
  BY <1>1, <1>2 DEF Upsert, TypeOK
<1>3. ASSUME NEW s \in Servers, Read(s), ~Exceeds(counter[call[s]]) PROVE EarlyInv'
  BY <1>1, <1>3 DEF Read, TypeOK
<1>4. ASSUME NEW s \in Servers, Read(s), Exceeds(counter[call[s]]) PROVE EarlyInv'
  <2> PICK k \in Pairs : k = call[s]
    BY DEF TypeOK
  <2>1. UNCHANGED <<ran, lost, refused, call>> /\ pc' = [pc EXCEPT ![s] = "block"]
    BY <1>4 DEF Read
  <2>2. Floor(k)
    <3>1. CASE refused[k] > 0
      BY <3>1 DEF EarlyInv
    <3>2. CASE refused[k] = 0
      <4>1. ran[k] + lost[k] + Cardinality(InGuard(k)) > Max
        BY <1>0, <1>4, <3>2, InGuardFinite DEF Accounted, Exceeds, TypeOK
      <4> QED BY <1>0, <4>1, InGuardFinite DEF Floor, TypeOK
    <3> QED BY <3>1, <3>2 DEF TypeOK
  <2>3. \A j \in Pairs : Floor(j) => Floor(j)'
    BY <2>1 DEF Floor
  <2>4. \A q \in Servers : pc'[q] = "block" => q = s \/ pc[q] = "block"
    BY <2>1 DEF TypeOK
  <2> QED
    BY <2>1, <2>2, <2>3, <2>4 DEF EarlyInv
<1>5. ASSUME NEW s \in Servers, Block(s) PROVE EarlyInv'
  BY <1>1, <1>5 DEF Block, TypeOK
<1>6. ASSUME NEW s \in Servers, Die(s) PROVE EarlyInv'
  BY <1>1, <1>6 DEF Die, TypeOK
<1>7. CASE UNCHANGED vars
  BY <1>1, <1>7 DEF vars, TypeOK
<1> QED
  BY <1>2, <1>3, <1>4, <1>5, <1>6, <1>7 DEF Next

\* A call is refused before the budget is used up only by what may race: for any
\* number of servers, by at most one call of each of the others.
THEOREM EarlyBlocksAreBounded == Spec => []EarlyBlocksBounded
<1>1. Init => TypeOK /\ Accounted /\ EarlyInv
  <2> SUFFICES ASSUME Init PROVE TypeOK /\ Accounted /\ EarlyInv
    OBVIOUS
  <2>1. TypeOK /\ EarlyInv
    BY DEF Init, TypeOK, EarlyInv
  <2>2. ASSUME NEW k \in Pairs PROVE Cardinality(InGuard(k)) = 0
    <3>1. InGuard(k) = {}
      BY DEF Init, InGuard
    <3> QED BY <3>1, FS_EmptySet
  <2> QED BY <2>1, <2>2 DEF Init, Accounted
<1>2. (TypeOK /\ Accounted /\ EarlyInv) /\ [Next]_vars => (TypeOK /\ Accounted /\ EarlyInv)'
  BY TypeStep, AccountedStep, EarlyStep
<1>3. EarlyInv => EarlyBlocksBounded
  BY DEF EarlyInv, Floor, EarlyBlocksBounded
<1> QED
  BY <1>1, <1>2, <1>3, PTL DEF Spec

-----------------------------------------------------------------------------
(* The guard with the tests beside it (CallsSpec).                         *)

\* Only an exit by itself leads to the join, and only the end of a run to a
\* verdict; a row is written by a command that is done.
Ended ==
    /\ \A r \in Runners : at[r] = "join" => child[r] \in V!Exits
    /\ \A r \in Runners : verdict[r] = "passed" => at[r] = "idle" /\ child[r] = "passed"
    /\ "test_verify_passed" \in rows =>
          \E c \in Clis : cli[c] = "done" /\ at[c] = "idle" /\ child[c] = "passed"

PassedInv == CallsTypeOK /\ Ended

\* Each step of the composition is a step of the guard or none.
LEMMA GuardStep == [CallsNext]_callVars => [Next]_vars
<1> SUFFICES ASSUME [CallsNext]_callVars PROVE [Next]_vars
  OBVIOUS
<1>1. ASSUME NEW s \in Servers, Call(s) PROVE Next
  BY <1>1 DEF Call, Next
<1>2. ASSUME NEW s \in Servers, Decide(s) PROVE Next
  BY <1>2 DEF Decide, Next
<1>3. ASSUME NEW s \in Servers, Refuse(s) PROVE Next
  BY <1>3 DEF Refuse, Next
<1>4. ASSUME NEW c \in Clis, AfterApply(c) \/ Record(c) PROVE UNCHANGED vars
  BY <1>4 DEF AfterApply, Record
<1>5. ASSUME NEW r \in Runners, Test(r) PROVE UNCHANGED vars
  BY <1>5 DEF Test
<1>6. CASE Death
  BY <1>6 DEF Death, Next
<1>7. CASE World
  BY <1>7 DEF World
<1>8. CASE UNCHANGED callVars
  BY <1>8 DEF callVars
<1> QED
  BY <1>1, <1>2, <1>3, <1>4, <1>5, <1>6, <1>7, <1>8 DEF CallsNext

\* The tests do not get round the guard: the composition implements it.
THEOREM CallsKeepGuard == CallsSpec => Spec
<1>1. CallsInit => Init
  BY DEF CallsInit
<1> QED
  BY <1>1, GuardStep, PTL DEF CallsSpec, Spec

\* So no more than Max calls run for a task and an agent, whatever the tests
\* of other calls do meanwhile.
THEOREM TestsWithinBudget == CallsSpec => []BudgetKept
  BY CallsKeepGuard, BudgetIsKept, PTL

\* Nor do the tests make the guard refuse earlier than its own races do, or
\* change which refusals leave a security.blocked row: a task lacks one only if
\* each of its INSERTs failed, and no row is of a call that was not refused.
THEOREM TestsDoNotCount == CallsSpec => []EarlyBlocksBounded /\ []RefusalsRecorded
  BY CallsKeepGuard, EarlyBlocksAreBounded, RefusalsAreRecorded, PTL

-----------------------------------------------------------------------------

LEMMA PassedInit == CallsInit => PassedInv
  BY DEF CallsInit, V!VerifyInit, PassedInv, CallsTypeOK, V!VerifyTypeOK, Ended, V!Exits

\* A step of one runner keeps Ended if it does so for that runner, and does
\* not touch the command of an apply that is done.
LEMMA OneRunner ==
    ASSUME PassedInv, NEW r \in Runners,
           \A q \in Runners : q # r =>
               at'[q] = at[q] /\ child'[q] = child[q] /\ verdict'[q] = verdict[q],
           at'[r] = "join" => child'[r] \in V!Exits,
           verdict'[r] = "passed" => at'[r] = "idle" /\ child'[r] = "passed",
           (cli[r] = "done" /\ r \in Clis /\ at[r] = "idle" /\ child[r] = "passed")
               => at'[r] = "idle" /\ child'[r] = "passed",
           \A c \in Clis : cli[c] = "done" => cli'[c] = "done",
           rows' = rows
    PROVE  Ended'
<1>1. (\A q \in Runners : at[q] = "join" => child[q] \in V!Exits)'
  BY DEF PassedInv, Ended, V!Exits
<1>2. (\A q \in Runners : verdict[q] = "passed" => at[q] = "idle" /\ child[q] = "passed")'
  BY DEF PassedInv, Ended
<1>3. ("test_verify_passed" \in rows =>
          \E c \in Clis : cli[c] = "done" /\ at[c] = "idle" /\ child[c] = "passed")'
  <2> SUFFICES ASSUME "test_verify_passed" \in rows
               PROVE  (\E c \in Clis : cli[c] = "done" /\ at[c] = "idle" /\ child[c] = "passed")'
    OBVIOUS
  <2>1. PICK c \in Clis : cli[c] = "done" /\ at[c] = "idle" /\ child[c] = "passed"
    BY DEF PassedInv, Ended
  <2>2. c \in Runners
    BY DEF Runners
  <2> QED
    BY <2>1, <2>2
<1> QED
  BY <1>1, <1>2, <1>3 DEF Ended

\* The actions of Verify keep the types, and end a run as Ended says.
LEMMA VerifyStep ==
    ASSUME PassedInv, NEW r \in Runners,
           V!Start(r) \/ V!RunnerStep(r) \/ V!Gone(r)
              \/ V!Expire(r) \/ V!ChildExits(r) \/ V!LetGo(r)
    PROVE  /\ V!VerifyTypeOK'
           /\ \A q \in Runners : q # r =>
                 at'[q] = at[q] /\ child'[q] = child[q] /\ verdict'[q] = verdict[q]
           /\ at'[r] = "join" => child'[r] \in V!Exits
           /\ verdict'[r] = "passed" => at'[r] = "idle" /\ child'[r] = "passed"
           /\ ~V!Start(r) /\ at[r] = "idle" => at'[r] = "idle" /\ child'[r] = child[r]
<1> USE DEF PassedInv, CallsTypeOK, Ended, V!VerifyTypeOK, V!Exits
<1>1. CASE V!Start(r)
  BY <1>1 DEF V!Start, V!Answer
<1>2. CASE V!Poll(r)
  BY <1>2 DEF V!Poll, V!Answer, V!Start
<1>3. CASE V!Kill(r)
  BY <1>3 DEF V!Kill, V!Answer, V!Start
<1>4. CASE V!Join(r)
  BY <1>4 DEF V!Join, V!Outcome, V!Answer, V!Start
<1>5. CASE V!Gone(r)
  BY <1>5 DEF V!Gone, V!Answer, V!Start
<1>6. CASE V!Expire(r)
  BY <1>6 DEF V!Expire, V!Start
<1>7. CASE V!ChildExits(r)
  BY <1>7 DEF V!ChildExits, V!Start
<1>8. CASE V!LetGo(r)
  BY <1>8 DEF V!LetGo, V!Start
<1> QED
  BY <1>1, <1>2, <1>3, <1>4, <1>5, <1>6, <1>7, <1>8 DEF V!RunnerStep

\* A server's step, or one that no runner takes part in.
LEMMA StillStep == PassedInv /\ UNCHANGED <<testVars, cli, rows>> => PassedInv'
  BY DEF PassedInv, CallsTypeOK, Ended, V!VerifyTypeOK, V!Exits, testVars

LEMMA PassedStep == PassedInv /\ [CallsNext]_callVars => PassedInv'
<1> SUFFICES ASSUME PassedInv, [CallsNext]_callVars PROVE PassedInv'
  OBVIOUS
<1>a. Testers \subseteq Runners /\ Clis \subseteq Runners /\ Testers \cap Clis = {}
  BY CallsAssumption DEF Runners
<1>1. ASSUME NEW s \in Servers, Call(s) \/ Refuse(s) PROVE PassedInv'
  BY <1>1, StillStep DEF Call, Refuse
<1>2. ASSUME NEW s \in Servers, Decide(s) PROVE PassedInv'
  <2>1. CASE UNCHANGED testVars
    BY <1>2, <2>1, StillStep DEF Decide
  <2>2. CASE s \in Testers /\ V!Start(s)
    <3>1. UNCHANGED <<cli, rows>>
      BY <1>2 DEF Decide
    <3>2. Ended'
      BY <1>a, <2>2, <3>1, VerifyStep, OneRunner
    <3> QED
      BY <1>a, <2>2, <3>1, <3>2, VerifyStep DEF PassedInv, CallsTypeOK
  <2> QED
    BY <1>2, <2>1, <2>2 DEF Decide
<1>3. ASSUME NEW c \in Clis, AfterApply(c) PROVE PassedInv'
  <2>1. /\ rows' = rows /\ cli[c] = "applied"
        /\ cli' \in [Clis -> {"applied", "testing", "done"}]
        /\ \A d \in Clis : cli[d] = "done" => cli'[d] = "done"
    BY <1>3 DEF AfterApply, PassedInv, CallsTypeOK
  <2>2. CASE V!Start(c)
    <3>1. Ended'
      BY <1>a, <2>1, <2>2, VerifyStep, OneRunner
    <3> QED
      BY <1>a, <2>1, <2>2, <3>1, VerifyStep DEF PassedInv, CallsTypeOK
  <2>3. CASE UNCHANGED testVars
    BY <2>1, <2>3 DEF PassedInv, CallsTypeOK, Ended, V!VerifyTypeOK, V!Exits, testVars
  <2> QED
    BY <1>3, <2>2, <2>3 DEF AfterApply
<1>4. ASSUME NEW c \in Clis, Record(c) PROVE PassedInv'
  <2>a. \A v \in DOMAIN RowOf : RowOf[v] \in {"test_verify_passed", "apply_unverified"}
    BY DEF RowOf
  <2>b. rows' \subseteq {"test_verify_passed", "apply_unverified"}
    <3>1. CASE UNCHANGED rows
      BY <3>1 DEF PassedInv, CallsTypeOK
    <3>2. CASE verdict[c] \in DOMAIN RowOf /\ rows' = rows \cup {RowOf[verdict[c]]}
      BY <2>a, <3>2 DEF PassedInv, CallsTypeOK
    <3> QED
      BY <1>4, <3>1, <3>2 DEF Record
  <2>1. CallsTypeOK'
    BY <1>4, <2>b DEF Record, PassedInv, CallsTypeOK, V!VerifyTypeOK, testVars
  <2>2. Ended'
    BY <1>4, <1>a DEF Record, RowOf, PassedInv, CallsTypeOK, Ended, V!VerifyTypeOK, V!Exits, testVars
  <2> QED
    BY <2>1, <2>2 DEF PassedInv
<1>5. ASSUME NEW r \in Runners, Test(r) PROVE PassedInv'
  <2>1. UNCHANGED <<cli, rows>> /\ V!RunnerStep(r) /\ at[r] # "idle"
    BY <1>5 DEF Test, V!RunnerStep, V!Poll, V!Kill, V!Join
  <2>2. Ended'
    BY <2>1, VerifyStep, OneRunner
  <2> QED
    BY <2>1, <2>2, VerifyStep DEF PassedInv, CallsTypeOK
<1>6. CASE Death
  <2>1. ASSUME NEW r \in Runners, V!Gone(r), rows' = rows,
               cli' \in [Clis -> {"applied", "testing", "done"}],
               \A c \in Clis : cli[c] = "done" => cli'[c] = "done"
        PROVE  PassedInv'
    <3>1. at[r] # "idle"
      BY <2>1 DEF V!Gone
    <3>2. Ended'
      BY <2>1, <3>1, VerifyStep, OneRunner
    <3> QED
      BY <2>1, <3>2, VerifyStep DEF PassedInv, CallsTypeOK
  <2>2. cli \in [Clis -> {"applied", "testing", "done"}]
    BY DEF PassedInv, CallsTypeOK
  <2> QED
    BY <1>6, <1>a, <2>1, <2>2, StillStep DEF Death
<1>7. CASE World
  <2>1. PICK r \in Runners : V!Expire(r) \/ V!ChildExits(r) \/ V!LetGo(r)
    BY <1>7 DEF World
  <2>2. UNCHANGED <<cli, rows>>
    BY <1>7 DEF World
  <2>3. at[r] = "idle" /\ child[r] = "passed" => at'[r] = "idle" /\ child'[r] = "passed"
    BY <2>1 DEF V!Expire, V!ChildExits, V!LetGo
  <2>4. Ended'
    BY <2>1, <2>2, <2>3, VerifyStep, OneRunner
  <2> QED
    BY <2>1, <2>2, <2>4, VerifyStep DEF PassedInv, CallsTypeOK
<1>8. CASE UNCHANGED callVars
  BY <1>8, StillStep DEF callVars
<1> QED
  BY <1>1, <1>2, <1>3, <1>4, <1>5, <1>6, <1>7, <1>8 DEF CallsNext

\* Nobody is told that tests passed, and no row says so, unless the command
\* exited with code 0 by itself.
THEOREM PassedIsTrue == CallsSpec => []PassedMeansPassed
<1>1. PassedInv => PassedMeansPassed
  BY DEF PassedInv, Ended, PassedMeansPassed
<1> QED
  BY PassedInit, PassedStep, <1>1, PTL DEF CallsSpec
===============================================================================

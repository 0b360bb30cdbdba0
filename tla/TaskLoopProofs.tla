---------------------------- MODULE TaskLoopProofs ----------------------------
(***************************************************************************)
(* The safety of `scos ask` for every number of asks and servers, every    *)
(* models.yaml and every answer of a model.                                *)
(***************************************************************************)
EXTENDS TaskLoop, FiniteSetTheorems, WellFoundedInduction, TLAPS

\* A launcher has a child from the spawn on, until it is stopped or refused.
HandleOf(p) ==
    /\ at[p] = "idle" => child[p] = "none"
    /\ at[p] = "refused" => child[p] \in {"none", "reaped"}
    /\ at[p] = "stopped" => child[p] = "reaped"
    /\ at[p] \notin {"idle", "refused", "stopped"} => child[p] \notin {"none", "reaped"}

Handles ==
    /\ at \in [Launchers -> Phases] /\ child \in [Launchers -> Lives]
    /\ \A p \in Launchers : HandleOf(p)

ServerAction(p) ==
    \/ NoChild(p) \/ (\E n : Spawn(p, n)) \/ LaunchStep(p) \/ CallStep(p)
    \/ Stop(p) \/ Killed(p) \/ ChildStep(p)

\* Whatever a step of the composition does to the model servers is one action
\* of one launcher.
LEMMA OneServerAction ==
    ASSUME [Next]_vars
    PROVE  (\E p \in Launchers : ServerAction(p)) \/ UNCHANGED <<at, child>>
<1>1. ASSUME NEW p \in Asks, Start(p) \/ AskStep(p) \/ KillAsk(p)
      PROVE  ServerAction(p) \/ UNCHANGED <<at, child>>
  BY <1>1 DEF ServerAction, Start, AskStep, KillAsk, ResolveProfile, ApplySettings,
     LoadRegistry, Choose, RecordSelection, Launch, WaitForModel, UseAnswer,
     StoreProposal, Fail, serverVars
<1>2. ASSUME NEW p \in Serves, ServeLaunch(p) \/ ModelLaunch(p) \/ ServeStep(p)
      PROVE  ServerAction(p)
  BY <1>2 DEF ServerAction, ServeLaunch, ModelLaunch, ServeStep
<1>3. ASSUME NEW p \in Launchers, ChildStep(p) PROVE ServerAction(p)
  BY <1>3 DEF ServerAction
<1>4. ASSUME UserEdit PROVE UNCHANGED <<at, child>>
  BY <1>4 DEF UserEdit, serverVars
<1>5. ASSUME UNCHANGED vars PROVE UNCHANGED <<at, child>>
  BY <1>5 DEF vars, serverVars
<1> QED
  BY <1>1, <1>2, <1>3, <1>4, <1>5, TaskLoopAssumption DEF Next

\* An action of a launcher keeps its own handle and touches no other.
LEMMA HandlesStep ==
    ASSUME Handles, NEW p \in Launchers, ServerAction(p)
    PROVE  Handles'
<1> USE DEF Handles, HandleOf, Phases, Lives
<1>1. CASE NoChild(p) \/ (\E n : Spawn(p, n))
  BY <1>1 DEF NoChild, Spawn, Move
<1>2. CASE NoClient(p) \/ SawExit(p) \/ Deadline(p)
  BY <1>2 DEF NoClient, SawExit, Deadline, Refuse, EndChild
<1>3. CASE StillRunning(p) \/ HealthOk(p) \/ HealthFails(p) \/ Recheck(p)
  BY <1>3 DEF StillRunning, HealthOk, HealthFails, Recheck, Move
<1>4. CASE CallStep(p)
  BY <1>4 DEF CallStep, Call, Answer, CallFails, Move
<1>5. CASE Stop(p)
  BY <1>5 DEF Stop, EndChild
<1>6. CASE Killed(p)
  BY <1>6 DEF Killed
<1>7. CASE ChildStep(p)
  BY <1>7 DEF ChildStep, Bind, Loaded, Exit, Running
<1> QED
  BY <1>1, <1>2, <1>3, <1>4, <1>5, <1>6, <1>7 DEF ServerAction, LaunchStep

LEMMA HandlesHold == Spec => []Handles
<1>1. Init => Handles
  BY DEF Init, ServerInit, Handles, HandleOf, Phases, Lives
<1>2. Handles /\ [Next]_vars => Handles'
  <2> SUFFICES ASSUME Handles, [Next]_vars PROVE Handles'
    OBVIOUS
  <2>1. CASE UNCHANGED <<at, child>>
    BY <2>1 DEF Handles, HandleOf
  <2> QED
    BY <2>1, OneServerAction, HandlesStep
<1> QED
  BY <1>1, <1>2, PTL DEF Spec

\* No launcher that returns leaves a child behind, and none loses its child
\* earlier, for any number of launchers on any ports.
THEOREM HandlesOwnChildren == Spec => []ChildrenFollowHandles
<1>1. Handles => ChildrenFollowHandles
  BY DEF Handles, HandleOf, ChildrenFollowHandles, Running
<1> QED
  BY <1>1, HandlesHold, PTL

-----------------------------------------------------------------------------
(* The rows of the asks *)

Typed ==
    /\ step \in [Asks -> Steps]
    /\ DOMAIN has = Asks /\ has = [p \in Asks |-> has[p]]
    /\ DOMAIN arg = Asks /\ arg = [p \in Asks |-> arg[p]]

Traced(p) ==
    step[p] \in {"launch", "model"} =>
       p \in untraced \/ <<arg[p].task, has[p].name>> \in events

\* An ask whose settings a saved profile decides was allowed to write by it, or
\* is about to learn that it may not.
MayWrite(p) ==
    step[p] \notin {"idle", "done", "failed"} /\ arg[p].own /\ arg[p].profile = "precise" =>
       \/ p \in writable
       \/ step[p] = "profile" /\ Readonly(saved.profile)
       \/ step[p] = "settings" /\ Readonly(has[p].profile)

AskInv == Typed /\ (\A p \in Asks : Traced(p) /\ MayWrite(p)) /\ ReadonlyStoresNothing

\* The ask that moves keeps its row and its leave to write.
LEMMA MoverStep ==
    ASSUME AskInv, NEW p \in Asks, Start(p) \/ AskStep(p) \/ KillAsk(p)
    PROVE  Typed' /\ Traced(p)' /\ MayWrite(p)' /\ ReadonlyStoresNothing'
<1> USE DEF AskInv, Typed, Traced, MayWrite, ReadonlyStoresNothing, Steps
<1>1. CASE Start(p)
  <2>1. Typed' /\ Traced(p)' /\ ReadonlyStoresNothing'
    BY <1>1 DEF Start, userVars
  <2>2. step'[p] = "profile" /\ saved' = saved
    BY <1>1 DEF Start, userVars
  <2>3. p \in writable' \/ Readonly(saved.profile)
    BY <1>1 DEF Start
  <2>4. MayWrite(p)'
    BY <2>2, <2>3
  <2> QED
    BY <2>1, <2>4
<1>2. CASE ResolveProfile(p)
  <2>1. Typed' /\ Traced(p)' /\ ReadonlyStoresNothing'
    BY <1>2 DEF ResolveProfile, Go, userVars
  <2>2. step[p] = "profile" /\ step'[p] = "settings" /\ arg' = arg
    BY <1>2 DEF ResolveProfile, Go
  <2>3. \/ p \in writable'
        \/ writable' = writable /\ has'[p].profile = Resolved(p)
    BY <1>2 DEF ResolveProfile, Go
  <2>4. arg[p].own /\ arg[p].profile = "precise" /\ Readonly(saved.profile)
        => Resolved(p) = saved.profile
    BY TaskLoopAssumption DEF Readonly, Resolved
  <2>5. MayWrite(p)'
    BY <2>2, <2>3, <2>4
  <2> QED
    BY <2>1, <2>5
<1>3. CASE ApplySettings(p)
  BY <1>3 DEF ApplySettings, Carry, Go, End, userVars
<1>4. CASE LoadRegistry(p) \/ Choose(p)
  BY <1>4 DEF LoadRegistry, Choose, Carry, Go, End, userVars
<1>5. CASE RecordSelection(p)
  BY <1>5 DEF RecordSelection, Rows, Carry, Go, End, userVars
<1>6. CASE Launch(p)
  BY <1>6 DEF Launch, Go, End, userVars
<1>7. CASE WaitForModel(p)
  BY <1>7 DEF WaitForModel, Carry, Go, End, userVars
<1>8. CASE UseAnswer(p)
  BY <1>8 DEF UseAnswer, Carry, Go, End, userVars
<1>9. CASE StoreProposal(p)
  <2> DEFINE new == [args |-> arg[p], file |-> has[p].file, diff |-> has[p].diff,
                     writable |-> p \in writable]
  <2>1. Typed' /\ Traced(p)' /\ MayWrite(p)'
    BY <1>9 DEF StoreProposal, End, userVars
  <2>2. proposals' = proposals \cup {new}
    BY <1>9 DEF StoreProposal, End
  <2>3. arg[p].own /\ arg[p].profile = "precise" => p \in writable
    BY <1>9 DEF StoreProposal, End
  <2>4. new.args = arg[p] /\ (new.writable <=> p \in writable)
    BY Zenon
  <2>5. new.args.own /\ new.args.profile = "precise" => new.writable
    BY <2>3, <2>4
  <2> HIDE DEF new
  <2>6. ReadonlyStoresNothing'
    BY <2>2, <2>5
  <2> QED
    BY <2>1, <2>6
<1>10. CASE Fail(p) \/ KillAsk(p)
  BY <1>10 DEF Fail, KillAsk, End, userVars
<1> QED
  BY <1>1, <1>2, <1>3, <1>4, <1>5, <1>6, <1>7, <1>8, <1>9, <1>10 DEF AskStep

\* It leaves the others as they are, and only adds rows.
LEMMA OthersKept ==
    ASSUME Typed, NEW p \in Asks, NEW q \in Asks \ {p},
           Start(p) \/ AskStep(p) \/ KillAsk(p)
    PROVE  /\ step'[q] = step[q] /\ has'[q] = has[q] /\ arg'[q] = arg[q]
           /\ q \in untraced => q \in untraced'
           /\ q \in writable => q \in writable'
           /\ events \subseteq events' /\ saved' = saved
<1> USE DEF Typed, userVars
<1>1. CASE Start(p)
  BY <1>1 DEF Start
<1>2. CASE ResolveProfile(p) \/ ApplySettings(p) \/ LoadRegistry(p) \/ Choose(p)
  BY <1>2 DEF ResolveProfile, ApplySettings, LoadRegistry, Choose, Carry, Go, End
<1>3. CASE RecordSelection(p)
  BY <1>3 DEF RecordSelection, Rows, Carry, Go, End
<1>4. CASE Launch(p) \/ WaitForModel(p)
  BY <1>4 DEF Launch, WaitForModel, Carry, Go, End
<1>5. CASE UseAnswer(p) \/ StoreProposal(p)
  BY <1>5 DEF UseAnswer, StoreProposal, Carry, Go, End
<1>6. CASE Fail(p) \/ KillAsk(p)
  BY <1>6 DEF Fail, KillAsk, End
<1> QED
  BY <1>1, <1>2, <1>3, <1>4, <1>5, <1>6 DEF AskStep

\* The user gives leave to all asks under way, or saves a read-only profile.
LEMMA UserStep ==
    ASSUME AskInv, UserEdit
    PROVE  AskInv'
<1> USE DEF AskInv, Typed, Traced, MayWrite, ReadonlyStoresNothing, Steps
<1>1. UNCHANGED <<step, has, arg, untraced, events, proposals>>
  BY DEF UserEdit
<1>2. CASE \E n \in SavedProfiles : SaveProfile(n)
  <2>1. PICK n \in SavedProfiles : SaveProfile(n)
    BY <1>2
  <2>2. CASE Readonly(n)
    <3>1. writable' = writable /\ (saved'.profile = n \/ saved' = saved)
      BY <2>1, <2>2 DEF SaveProfile
    <3> QED
      BY <1>1, <2>2, <3>1
  <2>3. CASE ~Readonly(n)
    <3>1. \A p \in Asks : step[p] \notin {"idle", "done", "failed"} => p \in writable'
      BY <2>1, <2>3 DEF SaveProfile, Ended
    <3> QED
      BY <1>1, <3>1
  <2> QED
    BY <2>2, <2>3
<1>3. CASE \E m \in SavedModels : SaveModel(m)
  <2>1. writable' = writable /\ saved'.profile = saved.profile
    BY <1>3 DEF SaveModel
  <2> QED
    BY <1>1, <2>1
<1>4. CASE \E r \in Registries \ {registry} : EditRegistry(r)
  BY <1>1, <1>4 DEF EditRegistry
<1> QED
  BY <1>2, <1>3, <1>4 DEF UserEdit

LEMMA AskInvInductive == Spec => []AskInv
<1>1. Init => AskInv
  BY DEF Init, AskInv, Typed, Traced, MayWrite, ReadonlyStoresNothing, Steps
<1>2. AskInv /\ [Next]_vars => AskInv'
  <2> SUFFICES ASSUME AskInv, [Next]_vars PROVE AskInv'
    OBVIOUS
  <2>1. ASSUME NEW p \in Asks, Start(p) \/ AskStep(p) \/ KillAsk(p) PROVE AskInv'
    <3>1. Typed' /\ Traced(p)' /\ MayWrite(p)' /\ ReadonlyStoresNothing'
      BY <2>1, MoverStep
    <3>2. ASSUME NEW q \in Asks \ {p} PROVE Traced(q)' /\ MayWrite(q)'
      BY <2>1, OthersKept DEF AskInv, Traced, MayWrite
    <3> QED
      BY <3>1, <3>2 DEF AskInv
  <2>2. CASE UNCHANGED taskVars
    BY <2>2 DEF taskVars, askVars, userVars, AskInv, Typed, Traced, MayWrite,
       ReadonlyStoresNothing
  <2> QED
    BY <2>1, <2>2, UserStep DEF Next, vars, ServeLaunch, ModelLaunch, ServeStep
<1> QED
  BY <1>1, <1>2, PTL DEF Spec

\* Every model that was started has its row, or the database refused it, for any
\* number of asks, of one second or of many.
THEOREM LaunchesAreTraced == Spec => []LaunchesTraced
<1>1. AskInv => LaunchesTraced
  BY DEF AskInv, Traced, LaunchesTraced
<1> QED
  BY <1>1, AskInvInductive, PTL

\* A read-only profile that is saved, and stays, keeps asks from proposing,
\* however asks, edits of the settings and failures interleave.
THEOREM ReadonlyIsKept == Spec => []ReadonlyStoresNothing
<1>1. AskInv => ReadonlyStoresNothing
  BY DEF AskInv
<1> QED
  BY <1>1, AskInvInductive, PTL

-----------------------------------------------------------------------------
(* The guard *)

Touches(d, f) ==
    /\ d \in Diffs /\ f \in Files
    /\ \A g \in Files \ {f} : d[g] = NoEdit

\* The lines of a diff that touches one file, counted over all files.
LEMMA CountOneFile ==
    ASSUME NEW f \in Files, NEW S \in SUBSET Lines, NEW T, T = {x \in Files \X Lines :
               x[1] = f /\ x[2] \in S}
    PROVE  Cardinality(T) = Cardinality(S)
<1>1. T = {f} \X S
  OBVIOUS
<1>2. IsFiniteSet(S) /\ Cardinality(S) \in Nat
  BY TaskLoopAssumption, FS_Subset, FS_CardinalityType
<1>3. IsFiniteSet({f}) /\ Cardinality({f}) = 1
  BY FS_Singleton
<1> QED
  BY <1>1, <1>2, <1>3, FS_Product

LEMMA StatsOfOneFile ==
    ASSUME NEW d, NEW f, Touches(d, f), DashLines = {}
    PROVE  /\ StatRemoved(d) = Cardinality(d[f].removed)
           /\ StatAdded(d) <= Cardinality(d[f].added)
           /\ StatRemoved(d) \in Nat /\ StatAdded(d) \in Nat
<1>1. d[f].removed \in SUBSET Lines /\ d[f].added \in SUBSET Lines
  BY DEF Touches, Diffs
<1>2. \A g \in Files : g # f => d[g].removed = {} /\ d[g].added = {}
  BY DEF Touches, NoEdit
<1>3. StatRemoved(d) = Cardinality(d[f].removed)
  <2>1. {x \in Files \X Lines : x[2] \in d[x[1]].removed \ DashLines}
        = {x \in Files \X Lines : x[1] = f /\ x[2] \in d[f].removed}
    BY <1>2
  <2> QED
    BY <1>1, <2>1, CountOneFile DEF StatRemoved, Touches
<1>4. StatAdded(d) = Cardinality(d[f].added \ PlusLines)
  <2>1. {x \in Files \X Lines : x[2] \in d[x[1]].added \ PlusLines}
        = {x \in Files \X Lines : x[1] = f /\ x[2] \in d[f].added \ PlusLines}
    BY <1>2
  <2> QED
    BY <1>1, <2>1, CountOneFile DEF StatAdded, Touches
<1>5. IsFiniteSet(d[f].removed) /\ IsFiniteSet(d[f].added)
  BY <1>1, TaskLoopAssumption, FS_Subset
<1>6. /\ Cardinality(d[f].added \ PlusLines) <= Cardinality(d[f].added)
      /\ Cardinality(d[f].added \ PlusLines) \in Nat
  BY <1>5, FS_Subset, FS_CardinalityType
<1> QED
  BY <1>3, <1>4, <1>5, <1>6, FS_CardinalityType

Harmless(d, f) ==
    Touches(d, f) /\ Content[f] # None /\ Cardinality(Content[f]) >= MinOriginal
    /\ 2 * Cardinality(d[f].removed) > Cardinality(Content[f])
    => Cardinality(d[f].added) >= Cardinality(d[f].removed) \div 2

\* What the guard lets pass is harmless, when it can count.
LEMMA GuardCounts ==
    ASSUME NEW d, NEW f, DashLines = {}, ~Destructive(d, f)
    PROVE  Harmless(d, f)
<1> SUFFICES ASSUME Touches(d, f), Content[f] # None,
                    Cardinality(Content[f]) >= MinOriginal,
                    2 * Cardinality(d[f].removed) > Cardinality(Content[f])
             PROVE  Cardinality(d[f].added) >= Cardinality(d[f].removed) \div 2
  BY DEF Harmless
<1>1. OnDisk(f) = Content[f]
  BY DEF OnDisk
<1>2. ~(StatAdded(d) < StatRemoved(d) \div 2)
  BY <1>1, StatsOfOneFile DEF Destructive
<1>3. IsFiniteSet(d[f].added) /\ Cardinality(d[f].added) \in Nat
  BY TaskLoopAssumption, FS_Subset, FS_CardinalityType DEF Touches, Diffs
<1> QED
  BY <1>2, <1>3, StatsOfOneFile

LEMMA DiffTyped ==
    ASSUME NEW a \in Responses
    PROVE  a.file \in Files /\ DiffOf(a) \in Diffs
<1>1. \A f \in Files : OnDisk(f) \subseteq Lines
  BY TaskLoopAssumption DEF OnDisk
<1>2. CASE a.rewrite
  BY <1>1, <1>2, TaskLoopAssumption DEF DiffOf, Diffs, NoEdit
<1>3. CASE ~a.rewrite
  BY <1>3, TaskLoopAssumption DEF DiffOf
<1> QED
  BY <1>2, <1>3, TaskLoopAssumption

Guarded(p) ==
    step[p] = "store" =>
       /\ has[p].file \in Files /\ has[p].diff \in Diffs
       /\ ~arg[p].destructive => Harmless(has[p].diff, has[p].file)

ProposalsHarmless ==
    \A d \in proposals :
       /\ d.file \in Files /\ d.diff \in Diffs
       /\ ~d.args.destructive => Harmless(d.diff, d.file)

GuardInv == (\A p \in Asks : Guarded(p)) /\ ProposalsHarmless

\* Only an answer puts an ask before its INSERT, and only after the guard.
LEMMA GuardStep ==
    ASSUME Typed, GuardInv, DashLines = {},
           NEW p \in Asks, Start(p) \/ AskStep(p) \/ KillAsk(p)
    PROVE  Guarded(p)' /\ ProposalsHarmless'
<1> USE DEF Typed, GuardInv, Guarded, ProposalsHarmless
<1>1. CASE UseAnswer(p)
  <2>1. proposals' = proposals /\ arg'[p] \in {arg[p], None}
    BY <1>1 DEF UseAnswer, Carry, Go, End
  <2>2. CASE step'[p] # "store"
    BY <2>1, <2>2
  <2>3. CASE step'[p] = "store"
    <3>1. PICK a \in Responses :
             /\ arg[p].destructive \/ ~Destructive(DiffOf(a), a.file)
             /\ Go(p, "model", "store", [file |-> a.file, diff |-> DiffOf(a)])
      BY <1>1, <2>3 DEF UseAnswer, Carry, End
    <3>2. has'[p].file = a.file /\ has'[p].diff = DiffOf(a) /\ arg' = arg
      BY <3>1 DEF Go
    <3>3. ~arg[p].destructive => Harmless(DiffOf(a), a.file)
      BY <3>1, GuardCounts
    <3> QED
      BY <2>1, <3>2, <3>3, DiffTyped
  <2> QED
    BY <2>2, <2>3
<1>2. CASE StoreProposal(p)
  <2> DEFINE new == [args |-> arg[p], file |-> has[p].file, diff |-> has[p].diff,
                     writable |-> p \in writable]
  <2>1. proposals' = proposals \cup {new} /\ step'[p] = "done" /\ step[p] = "store"
    BY <1>2 DEF StoreProposal, End
  <2>2. new.args = arg[p] /\ new.file = has[p].file /\ new.diff = has[p].diff
    OBVIOUS
  <2> HIDE DEF new
  <2> QED
    BY <2>1, <2>2
<1>3. CASE ~UseAnswer(p) /\ ~StoreProposal(p)
  <2>1. proposals' = proposals /\ step'[p] # "store"
    BY <1>3 DEF AskStep, Start, KillAsk, ResolveProfile, ApplySettings, LoadRegistry,
       Choose, RecordSelection, Launch, WaitForModel, Fail, Carry, Go, End
  <2> QED
    BY <2>1
<1> QED
  BY <1>1, <1>2, <1>3

\* In a repository no line of which begins with two dashes, no ask without
\* --allow-destructive proposes to delete more than half of a file of any size
\* without giving half of that back.
THEOREM GuardRefuses ==
    ASSUME DashLines = {}
    PROVE  Spec => []DestructiveRefused
<1>1. Init => GuardInv
  BY DEF Init, GuardInv, Guarded, ProposalsHarmless
<1>2. AskInv /\ GuardInv /\ [Next]_vars => GuardInv'
  <2> SUFFICES ASSUME Typed, GuardInv, [Next]_vars PROVE GuardInv'
    BY DEF AskInv
  <2>1. ASSUME NEW p \in Asks, Start(p) \/ AskStep(p) \/ KillAsk(p) PROVE GuardInv'
    <3>1. Guarded(p)' /\ ProposalsHarmless'
      BY <2>1, GuardStep
    <3>2. ASSUME NEW q \in Asks \ {p} PROVE Guarded(q)'
      BY <2>1, OthersKept DEF GuardInv, Guarded
    <3> QED
      BY <3>1, <3>2 DEF GuardInv
  <2>2. CASE UNCHANGED <<step, has, arg, proposals>>
    BY <2>2 DEF GuardInv, Guarded, ProposalsHarmless
  <2> QED
    BY <2>1, <2>2 DEF Next, vars, taskVars, askVars, ServeLaunch, ModelLaunch,
       ServeStep, UserEdit
<1>3. GuardInv => DestructiveRefused
  BY DEF GuardInv, ProposalsHarmless, DestructiveRefused, Harmless, Touches
<1> QED
  BY <1>1, <1>2, <1>3, AskInvInductive, PTL DEF Spec

-----------------------------------------------------------------------------
(* Types *)

AnyEntry == Entries \cup {RemoteAdapter}

\* An ask under way has a command line of some second, a health poll a turn left.
TypeInv ==
    /\ TypeOK
    /\ \A p \in Asks : arg[p] # None => arg[p].task \in Seconds
    /\ \A p \in Launchers : at[p] = "get" => polls[p] < MaxPolls

\* What a launcher carries, place by place.
LEMMA CarriesCases ==
    ASSUME NEW p, step[p] \in Steps
    PROVE  CarriesOK(p) <=>
             /\ step[p] = "settings" => has[p].profile \in {arg[p].profile} \cup SavedProfiles
             /\ step[p] = "registry" => has[p].model \in ModelNames
             /\ step[p] = "choose" => has[p] \in [model : ModelNames, registry : Registries]
             /\ step[p] \in {"record", "launch", "model"} => has[p] \in AnyEntry
             /\ step[p] = "store" => has[p] \in [file : Files, diff : Diffs]
             /\ step[p] \in {"idle", "profile", "done", "failed"} => has[p] = None
  BY DEF CarriesOK, Steps, AnyEntry

\* The first entry of some that a registry has is one of its entries.
LEMMA FirstIsEntry ==
    ASSUME NEW r \in Seq(AnyEntry), NEW S \in SUBSET DOMAIN r, First(r, S) # None
    PROVE  First(r, S) \in AnyEntry
<1>1. DOMAIN r \subseteq Nat /\ \A i \in DOMAIN r : r[i] \in AnyEntry
  OBVIOUS
<1>2. S # {} /\ S \subseteq Nat
  BY <1>1 DEF First
<1>3. PICK m \in S : \A k \in S : ~ <<k, m>> \in OpToRel(<, Nat)
  BY <1>2, NatLessThanWellFounded, WFMin
<1>4. ASSUME NEW k \in S PROVE m <= k
  <2>1. k \in Nat /\ m \in Nat
    BY <1>2
  <2>2. ~ k < m
    BY <1>3, <2>1 DEF OpToRel
  <2> QED
    BY <2>1, <2>2
<1>5. (CHOOSE i \in S : \A j \in S : i <= j) \in S
  BY <1>4
<1> QED
  BY <1>1, <1>2, <1>5 DEF First

LEMMA ValidatedTyped ==
    ASSUME NEW r \in Registries
    PROVE  Validated(r) \in Seq(AnyEntry)
<1>1. r \in Seq(AnyEntry)
  <2>1. r \in Seq(Entries)
    BY TaskLoopAssumption
  <2> QED
    BY <2>1 DEF AnyEntry
<1>2. RemoteAdapter \in AnyEntry
  BY DEF AnyEntry
<1> QED
  BY <1>1, <1>2 DEF Validated

\* Whatever is chosen is an entry of models.yaml or the remote adapter.
LEMMA ChosenTyped ==
    ASSUME NEW r \in Registries, NEW class, NEW name
    PROVE  /\ Select(class, name, Validated(r)) \in AnyEntry \cup {None}
           /\ MapToModel(class, Validated(r)) \in AnyEntry \cup {None}
<1> DEFINE v == Validated(r)
<1>1. v \in Seq(AnyEntry)
  BY ValidatedTyped
<1>2. \A n : Named(v, n) \in SUBSET DOMAIN v
  BY DEF Named
<1>3. LocalEntries(v) \in SUBSET DOMAIN v
  BY DEF LocalEntries
<1> HIDE DEF v
<1>4. \A S \in SUBSET DOMAIN v : First(v, S) \in AnyEntry \cup {None}
  BY <1>1, FirstIsEntry
<1>5. MapToModel(class, v) \in AnyEntry \cup {None}
  <2> DEFINE fast == LocalEntries(v) \cap Named(v, "local-coder-fast")
             coder == LocalEntries(v) \cap Named(v, "local-coder")
             preferred == IF class = "ShortAnswer" THEN fast ELSE coder
             S == IF preferred # {} THEN preferred
                  ELSE IF fast \cup coder # {} THEN fast \cup coder ELSE LocalEntries(v)
  <2>1. S \in SUBSET DOMAIN v
    BY <1>3
  <2>2. MapToModel(class, v) = First(v, S)
    BY DEF MapToModel
  <2> QED
    BY <1>4, <2>1, <2>2
<1> QED
  BY <1>2, <1>4, <1>5 DEF Select, v

LEMMA PortsTyped ==
    ASSUME NEW m \in AnyEntry
    PROVE  m.port \in Ports \cup {None}
  BY TaskLoopAssumption DEF AnyEntry, RemoteAdapter

\* An action of a launcher that is told a port of models.yaml keeps the types.
LEMMA ServerTypes ==
    ASSUME TypeInv, Handles, NEW p \in Launchers,
           \/ NoChild(p) \/ (\E n \in Ports \cup {None} : Spawn(p, n)) \/ LaunchStep(p)
           \/ CallStep(p) \/ Stop(p) \/ Killed(p) \/ ChildStep(p)
    PROVE  ServerTypeOK' /\ \A q \in Launchers : at'[q] = "get" => polls'[q] < MaxPolls
<1>1. Handles'
  BY HandlesStep DEF ServerAction
<1>2. /\ port' \in [Launchers -> Ports \cup {None}]
      /\ polls' \in [Launchers -> 0..MaxPolls]
      /\ \A q \in Launchers : at'[q] = "get" => polls'[q] < MaxPolls
  <2> USE ModelServerAssumption DEF TypeInv, TypeOK, ServerTypeOK
  <2>1. CASE NoChild(p) \/ (\E n \in Ports \cup {None} : Spawn(p, n))
    BY <2>1 DEF NoChild, Spawn, Move
  <2>2. CASE NoClient(p) \/ SawExit(p) \/ Deadline(p)
    BY <2>2 DEF NoClient, SawExit, Deadline, Refuse, EndChild
  <2>3. CASE StillRunning(p) \/ HealthOk(p)
    BY <2>3 DEF StillRunning, HealthOk, Move
  <2>4. CASE HealthFails(p)
    BY <2>4 DEF HealthFails, Move
  <2>5. CASE Recheck(p)
    BY <2>5 DEF Recheck, Move
  <2>6. CASE CallStep(p)
    BY <2>6 DEF CallStep, Call, Answer, CallFails, Move
  <2>7. CASE Stop(p)
    BY <2>7 DEF Stop, EndChild
  <2>8. CASE Killed(p)
    BY <2>8 DEF Killed
  <2>9. CASE ChildStep(p)
    BY <2>9 DEF ChildStep, Bind, Loaded, Exit
  <2> QED
    BY <2>1, <2>2, <2>3, <2>4, <2>5, <2>6, <2>7, <2>8, <2>9 DEF LaunchStep
<1> QED
  BY <1>1, <1>2 DEF Handles, ServerTypeOK

\* What the ask that moves has to show of itself and of the tables.
AskTyped(p) ==
    /\ step[p] \in Steps /\ CarriesOK(p)
    /\ arg[p] = None <=> step[p] \in {"idle", "done", "failed"}
    /\ arg[p] # None => arg[p].task \in Seconds

Tables ==
    /\ untraced \subseteq Asks /\ writable \subseteq Asks
    /\ events \subseteq Earlier \cup (Seconds \X {m.name : m \in AnyEntry})
    /\ \A d \in proposals : d.file \in Files /\ d.diff \in Diffs

\* An ask that ends carries nothing.
LEMMA EndTyped ==
    ASSUME TypeInv, Typed, NEW p \in Asks, NEW from, NEW to \in {"done", "failed"},
           End(p, from, to)
    PROVE  AskTyped(p)' /\ untraced' \subseteq Asks /\ writable' \subseteq Asks
<1>1. step'[p] = to /\ has'[p] = None /\ arg'[p] = None
  BY DEF End, Typed
<1>2. step'[p] \in Steps
  BY <1>1 DEF Steps
<1>3. CarriesOK(p)'
  BY <1>1, <1>2, CarriesCases DEF CarriesOK, Steps
<1> QED
  BY <1>1, <1>2, <1>3 DEF AskTyped, End, TypeInv, TypeOK

\* One that goes on keeps its command line.
LEMMA GoTyped ==
    ASSUME TypeInv, Typed, NEW p \in Asks, NEW from \in Steps \ {"idle", "done", "failed"},
           NEW to \in Steps \ {"idle", "done", "failed"}, NEW v, Go(p, from, to, v)
    PROVE  /\ step'[p] = to /\ has'[p] = v /\ arg' = arg
           /\ untraced' = untraced /\ writable' = writable
           /\ arg[p] # None /\ arg[p].task \in Seconds
           /\ CarriesOK(p)' => AskTyped(p)'
  BY DEF Go, Typed, AskTyped, TypeInv, TypeOK

LEMMA AskTypes ==
    ASSUME TypeInv, Typed, NEW p \in Asks, Start(p) \/ AskStep(p) \/ KillAsk(p)
    PROVE  AskTyped(p)' /\ Tables'
<1>0. /\ step[p] \in Steps /\ CarriesOK(p) /\ Tables
      /\ arg[p] = None <=> step[p] \in {"idle", "done", "failed"}
      /\ saved \in [profile : {None} \cup SavedProfiles, model : {None} \cup ModelNames]
      /\ registry \in Registries
  BY DEF TypeInv, TypeOK, Tables, AnyEntry
<1>1. CASE Start(p)
  <2>1. /\ step'[p] = "profile" /\ has'[p] = has[p]
        /\ \E a \in Args, t \in Seconds : arg'[p] = CommandLine(a, t)
    BY <1>1 DEF Start, Typed
  <2>2. has[p] = None
    BY <1>0, <1>1, CarriesCases DEF Start
  <2>3. step'[p] \in Steps
    BY <2>1 DEF Steps
  <2>4. CarriesOK(p)'
    BY <2>1, <2>2 DEF CarriesOK
  <2>5. arg'[p] # None /\ arg'[p].task \in Seconds
    BY <2>1, TaskLoopAssumption DEF CommandLine
  <2>6. Tables'
    BY <1>0, <1>1 DEF Start, Tables
  <2> QED
    BY <2>1, <2>3, <2>4, <2>5, <2>6 DEF AskTyped
<1>2. CASE ResolveProfile(p)
  <2>1. /\ step[p] = "profile" /\ step'[p] = "settings" /\ arg' = arg
        /\ has'[p].profile \in {Resolved(p), arg[p].profile}
    BY <1>2 DEF ResolveProfile, Go, Typed
  <2>2. Resolved(p) \in {arg[p].profile} \cup SavedProfiles
    BY <1>0 DEF Resolved
  <2>3. step'[p] \in Steps
    BY <2>1 DEF Steps
  <2>4. CarriesOK(p)'
    BY <2>1, <2>2 DEF CarriesOK
  <2>5. arg[p] # None /\ arg[p].task \in Seconds
    BY <1>0, <2>1 DEF TypeInv
  <2>6. Tables'
    BY <1>0, <1>2 DEF ResolveProfile, Go, Tables
  <2> QED
    BY <2>1, <2>3, <2>4, <2>5, <2>6 DEF AskTyped
<1>3. CASE ApplySettings(p)
  <2>1. PICK m \in ModelNames : Carry(p, "settings", ~Readonly(has[p].profile), "registry",
                                      [model |-> m])
    BY <1>0, <1>3 DEF ApplySettings, ModelNames
  <2>2. CASE Go(p, "settings", "registry", [model |-> m])
    <3>1. step'[p] = "registry" /\ has'[p].model = m /\ (CarriesOK(p)' => AskTyped(p)')
      BY <2>2, GoTyped DEF Steps
    <3> QED
      BY <1>0, <1>3, <2>2, <3>1 DEF CarriesOK, ApplySettings, Go, Tables
  <2>3. CASE End(p, "settings", "failed")
    BY <1>0, <1>3, <2>3, EndTyped DEF ApplySettings, Tables
  <2> QED
    BY <2>1, <2>2, <2>3 DEF Carry
<1>4. CASE LoadRegistry(p)
  <2> DEFINE v == [model |-> has[p].model, registry |-> registry]
  <2>1. step[p] = "registry" /\ UNCHANGED <<events, proposals>>
    BY <1>4 DEF LoadRegistry
  <2>2. v \in [model : ModelNames, registry : Registries]
    BY <1>0, <2>1, CarriesCases
  <2>3. CASE Go(p, "registry", "choose", v)
    <3>1. step'[p] = "choose" /\ has'[p] = v /\ (CarriesOK(p)' => AskTyped(p)')
      BY <2>3, GoTyped DEF Steps
    <3> QED
      BY <1>0, <2>1, <2>2, <2>3, <3>1 DEF CarriesOK, Go, Tables
  <2>4. CASE End(p, "registry", "failed")
    BY <1>0, <2>1, <2>4, EndTyped DEF Tables
  <2> QED
    BY <1>4, <2>3, <2>4 DEF LoadRegistry, Carry
<1>5. CASE Choose(p)
  <2>1. UNCHANGED <<events, proposals>>
    BY <1>5 DEF Choose
  <2>2. CASE End(p, "choose", "failed")
    BY <1>0, <2>1, <2>2, EndTyped DEF Tables
  <2>3. CASE ~End(p, "choose", "failed")
    <3>1. PICK r \in {has[p].registry, registry} :
            LET m == Select(arg[p].class, has[p].model, Validated(r))
            IN  m # None /\ Go(p, "choose", "record", m)
      BY <1>5, <2>3 DEF Choose, Carry
    <3>2. step[p] = "choose"
      BY <3>1 DEF Go
    <3>3. r \in Registries
      BY <1>0, <3>2, CarriesCases
    <3>4. PICK m \in AnyEntry : Go(p, "choose", "record", m)
      BY <3>1, <3>3, ChosenTyped
    <3>5. step'[p] = "record" /\ has'[p] = m /\ (CarriesOK(p)' => AskTyped(p)')
      BY <3>4, GoTyped DEF Steps
    <3> QED
      BY <1>0, <2>1, <3>4, <3>5 DEF CarriesOK, Go, Tables, AnyEntry
  <2> QED
    BY <2>2, <2>3
<1>6. CASE RecordSelection(p)
  <2>1. step[p] = "record" /\ proposals' = proposals
    BY <1>6 DEF RecordSelection, Carry, Go, End
  <2>2. has[p] \in AnyEntry /\ arg[p] # None /\ arg[p].task \in Seconds
    BY <1>0, <2>1, CarriesCases DEF TypeInv
  <2>3. Rows(p) \subseteq Earlier \cup (Seconds \X {m.name : m \in AnyEntry})
    BY <1>0, <2>2 DEF Rows, Tables
  <2>4. events' \in {Rows(p), events}
    BY <1>6 DEF RecordSelection
  <2>5. CASE End(p, "record", "failed")
    BY <1>0, <2>1, <2>3, <2>4, <2>5, EndTyped DEF Tables
  <2>6. CASE Go(p, "record", "launch", has[p])
    <3>1. step'[p] = "launch" /\ has'[p] = has[p] /\ (CarriesOK(p)' => AskTyped(p)')
      BY <2>6, GoTyped DEF Steps
    <3> QED
      BY <1>0, <2>1, <2>2, <2>3, <2>4, <2>6, <3>1 DEF CarriesOK, Go, Tables, AnyEntry
  <2>7. CASE /\ step' = [step EXCEPT ![p] = "launch"]
             /\ untraced' = untraced \cup {p}
             /\ UNCHANGED <<has, arg, writable, events>>
    <3>1. step'[p] = "launch" /\ has'[p] = has[p] /\ arg'[p] = arg[p]
      BY <2>7 DEF Typed
    <3>2. CarriesOK(p)' /\ step'[p] \in Steps
      BY <2>2, <3>1 DEF CarriesOK, AnyEntry, Steps
    <3> QED
      BY <1>0, <2>1, <2>2, <2>7, <3>1, <3>2 DEF AskTyped, Tables
  <2> QED
    BY <1>6, <2>5, <2>6, <2>7 DEF RecordSelection, Carry
<1>7. CASE Launch(p) \/ WaitForModel(p)
  <2>1. UNCHANGED <<events, proposals>>
    BY <1>7 DEF Launch, WaitForModel
  <2>2. \/ End(p, "launch", "failed") \/ End(p, "model", "failed")
        \/ Go(p, "launch", "model", has[p]) \/ Go(p, "model", "model", has[p])
    BY <1>7 DEF Launch, WaitForModel, Carry
  <2>3. CASE End(p, "launch", "failed") \/ End(p, "model", "failed")
    BY <1>0, <2>1, <2>3, EndTyped DEF Tables
  <2>4. CASE Go(p, "launch", "model", has[p]) \/ Go(p, "model", "model", has[p])
    <3>1. has[p] \in AnyEntry
      BY <1>0, <2>4, CarriesCases DEF Go
    <3>2. step'[p] = "model" /\ has'[p] = has[p] /\ (CarriesOK(p)' => AskTyped(p)')
      BY <2>4, GoTyped DEF Steps
    <3> QED
      BY <1>0, <2>1, <2>4, <3>1, <3>2 DEF CarriesOK, Go, Tables, AnyEntry
  <2> QED
    BY <2>2, <2>3, <2>4
<1>8. CASE UseAnswer(p)
  <2>1. UNCHANGED <<events, proposals>>
    BY <1>8 DEF UseAnswer
  <2>2. CASE End(p, "model", "failed")
    BY <1>0, <2>1, <2>2, EndTyped DEF Tables
  <2>3. CASE ~End(p, "model", "failed")
    <3>1. PICK a \in Responses : Go(p, "model", "store", [file |-> a.file, diff |-> DiffOf(a)])
      BY <1>8, <2>3 DEF UseAnswer, Carry
    <3>2. /\ step'[p] = "store" /\ has'[p] = [file |-> a.file, diff |-> DiffOf(a)]
          /\ CarriesOK(p)' => AskTyped(p)'
      BY <3>1, GoTyped DEF Steps
    <3>3. has'[p] \in [file : Files, diff : Diffs]
      BY <3>2, DiffTyped
    <3> QED
      BY <1>0, <2>1, <3>1, <3>2, <3>3 DEF CarriesOK, Go, Tables
  <2> QED
    BY <2>2, <2>3
<1>9. CASE StoreProposal(p)
  <2> DEFINE new == [args |-> arg[p], file |-> has[p].file, diff |-> has[p].diff,
                     writable |-> p \in writable]
  <2>1. End(p, "store", "done") /\ proposals' = proposals \cup {new} /\ events' = events
    BY <1>9 DEF StoreProposal
  <2>2. new.file = has[p].file /\ new.diff = has[p].diff
    OBVIOUS
  <2>3. has[p] \in [file : Files, diff : Diffs]
    BY <1>0, <2>1, CarriesCases DEF End
  <2> HIDE DEF new
  <2> QED
    BY <1>0, <2>1, <2>2, <2>3, EndTyped DEF Tables
<1>10. CASE Fail(p) \/ KillAsk(p)
  <2>1. PICK from : End(p, from, "failed")
    BY <1>10 DEF Fail, KillAsk
  <2> QED
    BY <1>0, <1>10, <2>1, EndTyped DEF Fail, KillAsk, Tables
<1> QED
  BY <1>1, <1>2, <1>3, <1>4, <1>5, <1>6, <1>7, <1>8, <1>9, <1>10 DEF AskStep

\* What the step of an ask does to its model server.
LEMMA AskServer ==
    ASSUME TypeInv, NEW p \in Asks, Start(p) \/ AskStep(p) \/ KillAsk(p)
    PROVE  \/ UNCHANGED serverVars
           \/ NoChild(p) \/ (\E n \in Ports \cup {None} : Spawn(p, n)) \/ LaunchStep(p)
           \/ CallStep(p) \/ Stop(p) \/ Killed(p)
<1>1. ASSUME Launch(p) PROVE NoChild(p) \/ (\E n \in Ports \cup {None} : Spawn(p, n))
  <2>1. step[p] = "launch" /\ step[p] \in Steps /\ CarriesOK(p)
    BY <1>1 DEF Launch, TypeInv, TypeOK
  <2> QED
    BY <1>1, <2>1, CarriesCases, PortsTyped DEF Launch
<1> QED
  BY <1>1 DEF Start, AskStep, KillAsk, ResolveProfile, ApplySettings, LoadRegistry, Choose,
     RecordSelection, WaitForModel, UseAnswer, StoreProposal, Fail

LEMMA ServeServer ==
    ASSUME TypeInv, NEW p \in Serves, ServeLaunch(p) \/ ModelLaunch(p) \/ ServeStep(p)
    PROVE  /\ UNCHANGED taskVars
           /\ \/ NoChild(p) \/ (\E n \in Ports \cup {None} : Spawn(p, n))
              \/ LaunchStep(p) \/ Stop(p) \/ Killed(p)
<1>0. registry \in Registries
  BY DEF TypeInv, TypeOK
<1>1. CASE ServeLaunch(p)
  <2>1. MapToModel("CodeEdit", Validated(registry)) \in AnyEntry \cup {None}
    BY <1>0, ChosenTyped
  <2> QED
    BY <1>1, <2>1, PortsTyped DEF ServeLaunch
<1>2. CASE ModelLaunch(p)
  <2>1. \A i \in DOMAIN Validated(registry) : Validated(registry)[i] \in AnyEntry
    BY <1>0, ValidatedTyped
  <2> QED
    BY <1>2, <2>1, PortsTyped DEF ModelLaunch
<1>3. CASE ServeStep(p)
  BY <1>3 DEF ServeStep
<1> QED
  BY <1>1, <1>2, <1>3

LEMMA UserTypes ==
    ASSUME TypeInv, UserEdit
    PROVE  TypeInv'
<1>1. UNCHANGED <<serverVars, step, has, arg, untraced, events, proposals>>
  BY DEF UserEdit
<1>2. /\ saved' \in [profile : {None} \cup SavedProfiles, model : {None} \cup ModelNames]
      /\ registry' \in Registries /\ writable' \subseteq Asks
  <2>1. ASSUME NEW n \in SavedProfiles, SaveProfile(n) PROVE <1>2!1 /\ <1>2!2
    BY <2>1 DEF SaveProfile, TypeInv, TypeOK
  <2>2. ASSUME NEW m \in SavedModels, SaveModel(m) PROVE <1>2!1 /\ <1>2!2
    BY <2>2 DEF SaveModel, TypeInv, TypeOK, ModelNames
  <2> QED
    BY <2>1, <2>2 DEF UserEdit, EditRegistry, TypeInv, TypeOK
<1>3. edits' \in 0..MaxEdits
  BY TaskLoopAssumption DEF UserEdit, TypeInv, TypeOK
<1> QED
  BY <1>1, <1>2, <1>3 DEF TypeInv, TypeOK, ServerTypeOK, serverVars, CarriesOK

LEMMA TypeStep ==
    ASSUME TypeInv, Typed, Typed', Handles, [Next]_vars
    PROVE  TypeInv'
<1>1. ASSUME NEW p \in Asks, Start(p) \/ AskStep(p) \/ KillAsk(p) PROVE TypeInv'
  <2>1. ServerTypeOK' /\ \A q \in Launchers : at'[q] = "get" => polls'[q] < MaxPolls
    BY <1>1, AskServer, ServerTypes, TaskLoopAssumption
    DEF TypeInv, TypeOK, ServerTypeOK, serverVars
  <2>2. AskTyped(p)' /\ Tables'
    BY <1>1, AskTypes
  <2>3. ASSUME NEW q \in Asks \ {p} PROVE AskTyped(q)'
    <3>1. step'[q] = step[q] /\ has'[q] = has[q] /\ arg'[q] = arg[q]
      BY <1>1, OthersKept
    <3>2. AskTyped(q)
      BY DEF AskTyped, TypeInv, TypeOK
    <3> QED
      BY <3>1, <3>2 DEF AskTyped, CarriesOK
  <2>4. UNCHANGED userVars
    BY <1>1 DEF Start, AskStep, KillAsk, ResolveProfile, ApplySettings, LoadRegistry, Choose,
       RecordSelection, Launch, WaitForModel, UseAnswer, StoreProposal, Fail
  <2>5. \A q \in Asks : AskTyped(q)'
    BY <2>2, <2>3
  <2> QED
    BY <2>1, <2>2, <2>4, <2>5 DEF TypeInv, TypeOK, Typed, AskTyped, Tables, AnyEntry, userVars
<1>2. ASSUME ServerTypeOK', \A q \in Launchers : at'[q] = "get" => polls'[q] < MaxPolls,
             UNCHANGED taskVars
      PROVE  TypeInv'
  BY <1>2 DEF TypeInv, TypeOK, CarriesOK, taskVars, askVars, userVars
<1>3. ASSUME NEW p \in Serves, ServeLaunch(p) \/ ModelLaunch(p) \/ ServeStep(p) PROVE TypeInv'
  BY <1>2, <1>3, ServeServer, ServerTypes, TaskLoopAssumption
<1>4. ASSUME NEW p \in Launchers, ChildStep(p) /\ UNCHANGED taskVars PROVE TypeInv'
  BY <1>2, <1>4, ServerTypes
<1>5. CASE UNCHANGED vars
  BY <1>2, <1>5 DEF vars, serverVars, ServerTypeOK, TypeInv, TypeOK
<1> QED
  BY <1>1, <1>3, <1>4, <1>5, UserTypes DEF Next

\* What each ask carries from one step to the next, its row, its server and every
\* port have their types, for any models.yaml, settings and answers.
THEOREM TaskTypes == Spec => []TypeOK
<1>1. Init => TypeInv
  <2> SUFFICES ASSUME Init PROVE TypeInv
    OBVIOUS
  <2>1. ServerTypeOK /\ \A p \in Launchers : at[p] # "get"
    BY ModelServerAssumption DEF Init, ServerInit, ServerTypeOK, Phases, Lives
  <2>2. \A p \in Asks : CarriesOK(p)
    BY DEF Init, CarriesOK
  <2> QED
    BY <2>1, <2>2, TaskLoopAssumption DEF Init, TypeInv, TypeOK, Steps
<1>2. Spec => []Handles
  BY HandlesHold
<1>3. AskInv => Typed
  BY DEF AskInv
<1>4. TypeInv /\ Typed /\ Typed' /\ Handles /\ [Next]_vars => TypeInv'
  BY TypeStep
<1>5. TypeInv => TypeOK
  BY DEF TypeInv
<1> QED
  BY <1>1, <1>2, <1>3, <1>4, <1>5, AskInvInductive, PTL DEF Spec
=============================================================================

------------------------------- MODULE TaskLoop -------------------------------
(***************************************************************************)
(* `scos ask` up to its approval prompt: run_task_loop with the router,    *)
(* the permission policy, the model registry and the guard against         *)
(* destructive diffs; composed with ModelServer, whose launchers are the   *)
(* asks, the `scos serve` and the `scos model` processes.                  *)
(*                                                                         *)
(* A file is a set of lines, and a diff says for each file which lines it  *)
(* removes and which it adds.  A goal is its TaskClass.  The prompt, the   *)
(* context and the sampling settings are left out; what the model answers  *)
(* is any of Responses.  Approving and applying is in ApprovalPipeline.    *)
(*                                                                         *)
(* Operators named Slip... are mistakes, as in ApprovalPipeline.           *)
(***************************************************************************)
EXTENDS ModelServer, FiniteSets, Sequences

CONSTANTS
    Asks, Serves,    \* the launchers: `scos ask`; `scos serve` and `scos model`
    Args,            \* command lines: [profile, class, own, destructive]
    Profiles,        \* profiles.yaml: name -> [model, permissions]
    SavedProfiles, SavedModels,   \* what the user may switch to
    Registries,      \* what models.yaml may say: sequences of entries
    Files, Lines,
    Content,         \* file -> its lines, or None
    DashLines,       \* lines that begin with two dashes
    PlusLines,       \* lines that begin with two pluses
    Responses,       \* diff artifacts the model may answer with
    MinOriginal,     \* DESTRUCTIVE_MIN_ORIGINAL_LINES, 20
    Seconds,         \* the times asks start at
    Earlier,         \* model_invoked rows of asks that have ended
    MaxEdits         \* bound on what the user changes

Diffs == [Files -> [removed : SUBSET Lines, added : SUBSET Lines]]

Entries == UNION {{r[i] : i \in DOMAIN r} : r \in Registries}

\* The command line is read; the task id is the second.
CommandLine(a, t) ==
    [profile |-> a.profile, class |-> a.class, own |-> a.own,
     destructive |-> a.destructive, task |-> t]

ASSUME TaskLoopAssumption ==
    /\ Launchers = Asks \cup Serves /\ Asks \cap Serves = {}
    /\ \A a \in Args, t \in Seconds : CommandLine(a, t) # None
    /\ Registries \subseteq Seq(Entries) /\ \A m \in Entries : m.port \in Ports \cup {None}
    /\ "precise" \in DOMAIN Profiles /\ None \notin DOMAIN Profiles
    /\ Content \in [Files -> (SUBSET Lines) \cup {None}]
    /\ IsFiniteSet(Files) /\ IsFiniteSet(Lines)
    /\ \A a \in Responses :
         /\ a.file \in Files
         /\ IF a.rewrite THEN a.content \subseteq Lines ELSE a.edits \in Diffs
    /\ MinOriginal \in Nat \ {0} /\ MaxEdits \in Nat

VARIABLES
    step,            \* where an ask is in run_task_loop
    has,             \* the value it carries to its next step
    arg,             \* its command line, and its task id: the second it started in
    untraced,        \* asks whose row the locked database refused
    writable,        \* asks during which the saved profile let them write,
                     \* or that could not read it
    saved,           \* the row of agent_state: profile and model
    registry,        \* models.yaml
    events,          \* the model_invoked rows: task and model
    proposals,       \* diff_proposals
    edits

askVars == <<step, has, arg, untraced, writable>>
userVars == <<saved, registry, edits>>
taskVars == <<askVars, userVars, events, proposals>>

vars == <<serverVars, taskVars>>

Steps == {"idle", "profile", "settings", "registry", "choose", "record",
          "launch", "model", "store", "done", "failed"}

RemoteAdapter == [name |-> "remote-adapter", runtime |-> "openai_compatible",
                  enabled |-> FALSE, port |-> None]

\* "local-coder" is what an unknown profile runs with.
ModelNames == {"local-coder"} \cup {m.name : m \in Entries} \cup SavedModels
              \cup {Profiles[n].model : n \in DOMAIN Profiles}

\* Profile name, model name, model name with registry, entry, file with diff.
CarriesOK(p) ==
    CASE step[p] = "settings" -> has[p].profile \in {arg[p].profile} \cup SavedProfiles
      [] step[p] = "registry" -> has[p].model \in ModelNames
      [] step[p] = "choose"   -> has[p] \in [model : ModelNames, registry : Registries]
      [] step[p] \in {"record", "launch", "model"} -> has[p] \in Entries \cup {RemoteAdapter}
      [] step[p] = "store"    -> has[p] \in [file : Files, diff : Diffs]
      [] OTHER -> has[p] = None

TypeOK ==
    /\ ServerTypeOK
    /\ step \in [Asks -> Steps]
    /\ \A p \in Asks : CarriesOK(p)
    /\ \A p \in Asks : arg[p] = None <=> step[p] \in {"idle", "done", "failed"}
    /\ untraced \subseteq Asks /\ writable \subseteq Asks
    /\ saved \in [profile : {None} \cup SavedProfiles, model : {None} \cup ModelNames]
    /\ registry \in Registries
    /\ events \subseteq Earlier \cup (Seconds \X {m.name : m \in Entries \cup {RemoteAdapter}})
    /\ \A d \in proposals : d.file \in Files /\ d.diff \in Diffs
    /\ edits \in 0..MaxEdits

Init ==
    /\ ServerInit
    /\ step = [p \in Asks |-> "idle"]
    /\ has = [p \in Asks |-> None]
    /\ arg = [p \in Asks |-> None]
    /\ untraced = {} /\ writable = {}
    /\ saved = [profile |-> None, model |-> None]
    /\ registry \in Registries
    /\ events = Earlier /\ proposals = {}
    /\ edits = 0

\* An ask goes on with v; one that ends takes its memory with it.
Go(p, from, to, v) ==
    /\ step[p] = from
    /\ step' = [step EXCEPT ![p] = to]
    /\ has' = [has EXCEPT ![p] = v]
    /\ UNCHANGED <<arg, untraced, writable>>

End(p, from, to) ==
    /\ step[p] = from
    /\ step' = [step EXCEPT ![p] = to]
    /\ has' = [has EXCEPT ![p] = None]
    /\ arg' = [arg EXCEPT ![p] = None]
    /\ untraced' = untraced \ {p}
    /\ writable' = writable \ {p}

Carry(p, from, ok, to, v) == IF ok THEN Go(p, from, to, v) ELSE End(p, from, "failed")

Ended(p) == step[p] \in {"done", "failed"}

Readonly(name) ==
    name \in DOMAIN Profiles /\ Profiles[name].permissions = "readonly"

-----------------------------------------------------------------------------
(* Registry and router *)

\* validate_registry: an enabled remote entry is an error, and an entry for
\* the remote adapter is always there.
Valid(r) == \A i \in DOMAIN r : r[i].runtime = "local_gguf" \/ ~r[i].enabled

Validated(r) ==
    IF \E i \in DOMAIN r : r[i].runtime = "openai_compatible"
    THEN r ELSE Append(r, RemoteAdapter)

Named(r, n) == {i \in DOMAIN r : r[i].name = n}

LocalEntries(r) == {i \in DOMAIN r : r[i].runtime = "local_gguf" /\ r[i].enabled}

First(r, S) == IF S = {} THEN None ELSE r[CHOOSE i \in S : \A j \in S : i <= j]

\* map_to_model: the model for the class, the other one, any local one.
MapToModel(class, r) ==
    LET fast  == LocalEntries(r) \cap Named(r, "local-coder-fast")
        coder == LocalEntries(r) \cap Named(r, "local-coder")
        preferred == IF class = "ShortAnswer" THEN fast ELSE coder
    IN  First(r, IF preferred # {} THEN preferred
                 ELSE IF fast \cup coder # {} THEN fast \cup coder
                 ELSE LocalEntries(r))

\* The named model whatever its entry says, or the router's.
Select(class, name, r) ==
    IF Named(r, name) # {} THEN First(r, Named(r, name)) ELSE MapToModel(class, r)

-----------------------------------------------------------------------------
(* Settings *)

Start(p) ==
    /\ step[p] = "idle"
    /\ step' = [step EXCEPT ![p] = "profile"]
    /\ \E a \in Args, t \in Seconds : arg' = [arg EXCEPT ![p] = CommandLine(a, t)]
    /\ writable' = IF Readonly(saved.profile) THEN writable ELSE writable \cup {p}
    /\ UNCHANGED <<serverVars, has, untraced, userVars, events, proposals>>

\* resolve_active_profile: an explicit --profile, the saved one, "precise".
\* The row is that of the ask's project; the CLI only writes the default one.
\* A SELECT that fails counts as no row.
SlipResolved(p) == arg[p].profile
Resolved(p) ==
    IF arg[p].profile = "precise" /\ arg[p].own /\ saved.profile # None
    THEN saved.profile ELSE arg[p].profile

ResolveProfile(p) ==
    /\ \/ Go(p, "profile", "settings", [profile |-> Resolved(p)])
       \/ /\ step[p] = "profile"
          /\ step' = [step EXCEPT ![p] = "settings"]
          /\ has' = [has EXCEPT ![p] = [profile |-> arg[p].profile]]
          /\ writable' = writable \cup {p}
          /\ UNCHANGED <<arg, untraced>>
    /\ UNCHANGED <<serverVars, userVars, events, proposals>>

\* load_profile with its fallback, apply_profile_state_overrides, and
\* enforce_permission_set for file_write.
ApplySettings(p) ==
    LET own == IF has[p].profile \in DOMAIN Profiles
               THEN Profiles[has[p].profile].model ELSE "local-coder"
        override == arg[p].own /\ saved.model # None
    IN  /\ step[p] = "settings"
        /\ Carry(p, "settings", ~Readonly(has[p].profile), "registry",
                 [model |-> IF override THEN saved.model ELSE own])
        /\ UNCHANGED <<serverVars, userVars, events, proposals>>

-----------------------------------------------------------------------------
(* The model *)

LoadRegistry(p) ==
    /\ step[p] = "registry"
    /\ Carry(p, "registry", Valid(registry), "choose",
             [model |-> has[p].model, registry |-> registry])
    /\ UNCHANGED <<serverVars, userVars, events, proposals>>

\* reload_if_changed and the choice.  load reads the file before its mtime, so
\* an edit in between is missed and one after it is seen.
Choose(p) ==
    /\ step[p] = "choose"
    /\ \E r \in {has[p].registry, registry} :
         LET m == Select(arg[p].class, has[p].model, Validated(r))
         IN  Carry(p, "choose", Valid(r) /\ m # None, "record", m)
    /\ UNCHANGED <<serverVars, userVars, events, proposals>>

\* record_model_selection: the row's id is a hash of task and model, so when the
\* INSERT fails for it a row that says the same is there; a database that stays
\* locked is warned of.  Then the check of the runtime.
SlipRows(p) ==
    IF \E e \in events : e[1] = arg[p].task THEN events
    ELSE events \cup {<<arg[p].task, has[p].name>>}
Rows(p) == events \cup {<<arg[p].task, has[p].name>>}

RecordSelection(p) ==
    /\ step[p] = "record"
    /\ \/ /\ Carry(p, "record", has[p].runtime = "local_gguf", "launch", has[p])
          /\ events' = Rows(p)
       \/ /\ has[p].runtime = "local_gguf"
          /\ step' = [step EXCEPT ![p] = "launch"]
          /\ untraced' = untraced \cup {p}
          /\ UNCHANGED <<has, arg, writable, events>>
    /\ UNCHANGED <<serverVars, userVars, proposals>>

\* The launch may fail before there is a child.
Launch(p) ==
    /\ step[p] = "launch"
    /\ \/ NoChild(p) /\ End(p, "launch", "failed")
       \/ Spawn(p, has[p].port) /\ Go(p, "launch", "model", has[p])
    /\ UNCHANGED <<userVars, events, proposals>>

\* launch_server and call_model go on; an error from launch_server ends the ask.
WaitForModel(p) ==
    /\ LaunchStep(p) \/ CallStep(p)
    /\ Carry(p, "model", at'[p] # "refused", "model", has[p])
    /\ UNCHANGED <<userVars, events, proposals>>

KillAsk(p) ==
    /\ Killed(p) /\ End(p, "model", "failed")
    /\ UNCHANGED <<userVars, events, proposals>>

-----------------------------------------------------------------------------
(* The diff *)

NoEdit == [removed |-> {}, added |-> {}]

OnDisk(f) == IF Content[f] = None THEN {} ELSE Content[f]

\* build_rewrite_patch for a full content, the model's own patch otherwise.
DiffOf(a) ==
    IF a.rewrite
    THEN [f \in Files |-> IF f = a.file
                          THEN [removed |-> OnDisk(f) \ a.content,
                                added   |-> a.content \ OnDisk(f)]
                          ELSE NoEdit]
    ELSE a.edits

\* diff_stats: lines of the text that begin with + or -, but not with +++ or
\* ---, in all its files.
StatAdded(d) == Cardinality({x \in Files \X Lines : x[2] \in d[x[1]].added \ PlusLines})
StatRemoved(d) == Cardinality({x \in Files \X Lines : x[2] \in d[x[1]].removed \ DashLines})

\* guard_destructive_diff, on the file the artifact names first.
SlipDestructive(d, f) ==
    LET original == Cardinality(OnDisk(f))
    IN  /\ Content[f] # None /\ original > MinOriginal
        /\ 2 * StatRemoved(d) > original
        /\ StatAdded(d) < StatRemoved(d) \div 2
Destructive(d, f) ==
    LET original == Cardinality(OnDisk(f))
    IN  /\ Content[f] # None /\ original >= MinOriginal
        /\ 2 * StatRemoved(d) > original
        /\ StatAdded(d) < StatRemoved(d) \div 2

\* The handle is dropped; the answer is parsed, and has a diff artifact or not.
UseAnswer(p) ==
    /\ Stop(p)
    /\ \/ End(p, "model", "failed")
       \/ /\ at[p] = "answered"
          /\ \E a \in Responses :
               Carry(p, "model",
                     arg[p].destructive \/ ~Destructive(DiffOf(a), a.file),
                     "store", [file |-> a.file, diff |-> DiffOf(a)])
    /\ UNCHANGED <<userVars, events, proposals>>

StoreProposal(p) ==
    /\ End(p, "store", "done")
    /\ proposals' = proposals \cup
         {[args |-> arg[p], file |-> has[p].file, diff |-> has[p].diff,
           writable |-> p \in writable]}
    /\ UNCHANGED <<serverVars, userVars, events>>

\* A `?` on a file or a statement, or a kill.
Fail(p) ==
    /\ step[p] \in {"profile", "settings", "registry", "choose", "record", "launch", "store"}
    /\ End(p, step[p], "failed")
    /\ UNCHANGED <<serverVars, userVars, events, proposals>>

AskStep(p) ==
    \/ ResolveProfile(p) \/ ApplySettings(p) \/ LoadRegistry(p) \/ Choose(p)
    \/ RecordSelection(p) \/ Launch(p) \/ WaitForModel(p) \/ UseAnswer(p)
    \/ StoreProposal(p) \/ Fail(p)

-----------------------------------------------------------------------------
(* scos serve, scos model, and the user *)

\* prepare_llama_server with select_default_serve_model.
ServeLaunch(p) ==
    LET m == MapToModel("CodeEdit", Validated(registry))
    IN  /\ Valid(registry) /\ m # None
        /\ NoChild(p) \/ Spawn(p, m.port)
        /\ UNCHANGED taskVars

\* `scos model load`, `verify`, `bench`: the model of that name, enabled or not,
\* if it is local; bench does it once for each of its prompts.
ModelLaunch(p) ==
    LET r == Validated(registry)
    IN  /\ Valid(registry)
        /\ \E i \in DOMAIN r :
             /\ r[i] = First(r, Named(r, r[i].name)) /\ r[i].runtime = "local_gguf"
             /\ NoChild(p) \/ Spawn(p, r[i].port)
        /\ UNCHANGED taskVars

\* `scos profile use`: the profile and the override in two statements.
SaveProfile(n) ==
    /\ saved' = [saved EXCEPT !.profile = n]
    /\ writable' = IF Readonly(n) THEN writable
                   ELSE writable \cup {p \in Asks : step[p] # "idle" /\ ~Ended(p)}
    /\ UNCHANGED registry

SaveModel(n) ==
    /\ saved.profile # None
    /\ saved' = [saved EXCEPT !.model = n]
    /\ UNCHANGED <<writable, registry>>

EditRegistry(r) == registry' = r /\ UNCHANGED <<writable, saved>>

UserEdit ==
    /\ edits < MaxEdits /\ edits' = edits + 1
    /\ \/ \E n \in SavedProfiles : SaveProfile(n)
       \/ \E m \in SavedModels : SaveModel(m)
       \/ \E r \in Registries \ {registry} : EditRegistry(r)
    /\ UNCHANGED <<serverVars, step, has, arg, untraced, events, proposals>>

ServeStep(p) ==
    /\ LaunchStep(p) \/ (at[p] = "ready" /\ Stop(p)) \/ Killed(p)
    /\ UNCHANGED taskVars

Next ==
    \/ \E p \in Asks : Start(p) \/ AskStep(p) \/ KillAsk(p)
    \/ \E p \in Serves : ServeLaunch(p) \/ ModelLaunch(p) \/ ServeStep(p)
    \/ \E p \in Launchers : ChildStep(p) /\ UNCHANGED taskVars
    \/ UserEdit

\* An ask that was started runs on; health polls and requests end, by the
\* client's timeouts at the latest.  Nothing makes a llama-server load.
Fairness == \A p \in Asks : WF_vars(AskStep(p))

Spec == Init /\ [][Next]_vars /\ Fairness

-----------------------------------------------------------------------------
(* What is to hold *)

\* Every model that was started for a task has its model_invoked row: the row
\* is written before the launch, and another ask of the same second, which has
\* the same task id, takes its place only with a row that says the same.
LaunchesTraced ==
    \A p \in Asks : step[p] = "model" =>
       p \in untraced \/ <<arg[p].task, has[p].name>> \in events

\* A user who saved a read-only profile and left it so gets no proposal from
\* any ask that was started since, asked for no other profile and could read
\* what was saved.
ReadonlyStoresNothing ==
    \A d \in proposals :
       d.args.own /\ d.args.profile = "precise" => d.writable

\* No proposal of an ask without --allow-destructive deletes more than half of
\* the existing file it is about, small files and files that get half as many
\* lines back excepted (run_task_loop calls guard_destructive_diff before it
\* stores).  The guard does not tell files apart: a patch of the model that
\* touches other files is not counted file by file.
DestructiveRefused ==
    \A d \in proposals :
       LET f == d.file
           gone == Cardinality(d.diff[f].removed)
       IN  /\ ~d.args.destructive
           /\ \A g \in Files \ {f} : d.diff[g] = NoEdit
           /\ Content[f] # None /\ Cardinality(Content[f]) >= MinOriginal
           /\ 2 * gone > Cardinality(Content[f])
           => Cardinality(d.diff[f].added) >= gone \div 2

\* Every ask comes to an end, with a proposal or an error: no llama-server
\* that does not load, exits, or belongs to somebody else makes it hang.
AsksEnd == \A p \in Asks : (step[p] # "idle") ~> Ended(p)
=============================================================================

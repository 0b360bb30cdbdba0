----------------------------- MODULE DiffSetApply -----------------------------
(***************************************************************************)
(* Diff sets: create_diff_set, which writes a set and its members for good,*)
(* and apply_diff_set, the MCP tool that applies the members in order, with*)
(* one approval token each.  One call of the tool runs at a time (it holds *)
(* the server's connection mutex), but other processes create the set, and *)
(* the user edits the work tree, while its `git` children run.             *)
(*                                                                         *)
(* git is external.  It is modelled by what its commands do to the work    *)
(* tree, the index and the stash list; a file is one patch hunk, so a      *)
(* patch fits when every file it changes has the version it starts from.   *)
(*                                                                         *)
(* Operators named Slip... are mistakes, as in ApprovalPipeline.           *)
(***************************************************************************)
EXTENDS Integers, Sequences, FiniteSets

CONSTANTS
    Files, Versions,
    Absent,       \* the version of a file that does not exist
    HeadTree,     \* what HEAD holds: a version, or Absent, for each file
    Diffs,
    Patch,        \* Patch[d][f] = [from, to] for each file f that d changes
    Stored,       \* the diffs with a row in diff_proposals
    Requests,     \* the memberships create_diff_set is asked for, all under
                  \* one set_id: lists of [diff, ord]
    ProjectOf,    \* the project of each diff
    Tokens,       \* approval tokens
    DiffOfToken,  \* the diff each token is bound to
    Expired,      \* tokens validate_token refuses for another reason than reuse
    None,
    MaxCalls,     \* bound on the calls of the tool
    MaxEdits,     \* bound on the edits of the user
    MaxFaults     \* bound on the child processes that fail to run

Content == Versions \cup {Absent}

ASSUME SetAssumption ==
    /\ HeadTree \in [Files -> Content]
    /\ \A req \in Requests : req \in Seq([diff : Diffs, ord : Int])
    /\ Stored \subseteq Diffs
    /\ \A d \in Stored : /\ DOMAIN Patch[d] \subseteq Files
                        /\ \A f \in DOMAIN Patch[d] : Patch[d][f].to \in Content
    /\ DiffOfToken \in [Tokens -> Diffs] /\ None \notin Tokens
    /\ Absent \notin Versions
    /\ MaxCalls \in Nat /\ MaxEdits \in Nat /\ MaxFaults \in Nat

VARIABLES
    tree, index,   \* the work tree and the index
    stash,         \* the stash list, newest entry first
    isSet,         \* diff_sets has the row
    rows,          \* diff_set_members: [diff, ord] of the set
    asked,         \* calls of create_diff_set still to come
    creating,      \* calls of create_diff_set that found no set
    used,          \* approval_tokens_used
    events,        \* diff_applied rows of the caller's task, one per diff
    pc, i,         \* the phase of the call and the position in members
    members,       \* the local of that name: the diffs by ord
    args,          \* the token passed for each diff, None if there is none
    stashed,       \* the local of that name
    result,        \* what the last call returned
    start, goal,   \* the trees the call should restore, or produce; None for a
                   \* file that others wrote at their own risk
    depth,         \* the length of the stash list when the call began
    paid,          \* the tokens consumed when the call began
    work,          \* uncommitted content of the user's: not to be lost
    calls, edits, faults

gitVars  == <<tree, index, stash>>
setVars  == <<isSet, rows, asked, creating>>
dbVars   == <<used, events>>
callVars == <<pc, i, members, args, stashed, result>>
pastVars == <<start, goal, depth, paid, work>>
capVars  == <<calls, edits, faults>>
vars     == <<gitVars, setVars, dbVars, callVars, pastVars, capVars>>

Phases  == {"idle", "precheck", "validate", "stash", "apply", "reset", "unstash", "pop"}
Results == {"none", "ok", "EmptySet", "NotFound", "PrecheckFailed", "MissingToken", "Validation", "GitStash",
            "MidFlightFailure", "Io", "killed"}

TypeOK ==
    /\ tree \in [Files -> Content] /\ index \in [Files -> Content]
    /\ stash \in Seq([index : [Files -> Content], work : [Files -> Content]])
    /\ isSet \in BOOLEAN /\ rows \subseteq [diff : Diffs, ord : Int]
    /\ asked \subseteq Requests /\ creating \subseteq Requests
    /\ used \subseteq Tokens
    /\ events \subseteq [diff : Diffs, token : Tokens \cup {None}]
    /\ members \in Seq(Diffs)
    /\ pc \in Phases /\ (pc = "idle" \/ i \in DOMAIN members) /\ stashed \in BOOLEAN
    /\ args \in [Diffs -> Tokens \cup {None}]
    /\ result \in Results
    /\ start \in [Files -> Content \cup {None}] /\ goal \in [Files -> Content \cup {None}]
    /\ work \in [Files -> Content \cup {None}]
    /\ depth \in Nat /\ paid \subseteq Tokens
    /\ calls \in 0..MaxCalls /\ edits \in 0..MaxEdits /\ faults \in 0..MaxFaults

Init ==
    /\ tree = HeadTree /\ index = HeadTree /\ stash = <<>>
    /\ isSet = FALSE /\ rows = {} /\ asked = Requests /\ creating = {}
    /\ used = {} /\ events = {}
    /\ pc = "idle" /\ i = 1 /\ members = <<>> /\ stashed = FALSE
    /\ args = [d \in Diffs |-> None]
    /\ result = "none"
    /\ start = HeadTree /\ goal = HeadTree /\ depth = 0 /\ paid = {}
    /\ work = [f \in Files |-> None]
    /\ calls = 0 /\ edits = 0 /\ faults = 0

-----------------------------------------------------------------------------
(* git.                                                                    *)

Tracked(f) == HeadTree[f] # Absent \/ index[f] # Absent

\* `git apply` is all or nothing, and so is its --check.
Fits(d) == \A f \in DOMAIN Patch[d] : tree[f] = Patch[d][f].from
Patched(d, t) == [f \in Files |-> IF f \in DOMAIN Patch[d] THEN Patch[d][f].to ELSE t[f]]

\* `git stash push` saves and reverts what is tracked; with nothing to save it
\* says so and adds no entry.
NothingToSave == index = HeadTree /\ \A f \in Files : Tracked(f) => tree[f] = index[f]
Reverted == [f \in Files |-> IF Tracked(f) THEN HeadTree[f] ELSE tree[f]]
Entry == [index |-> index, work |-> [f \in Files |-> IF Tracked(f) THEN tree[f] ELSE HeadTree[f]]]

\* `git stash pop` refuses when a file it must write differs from the index.
Saved(s) == {f \in Files : s.work[f] # HeadTree[f]}
PopFits == \A f \in Saved(stash[1]) : tree[f] = index[f]
GitPop ==
    /\ tree' = [f \in Files |-> IF f \in Saved(stash[1]) THEN stash[1].work[f] ELSE tree[f]]
    /\ index' = stash[1].index
    /\ stash' = Tail(stash)

-----------------------------------------------------------------------------
(* create_diff_set.                                                        *)

\* The exists check; past it the transaction has still to begin.
CheckSet(req) ==
    /\ req \in asked
    /\ asked' = asked \ {req}
    /\ creating' = IF isSet THEN creating ELSE creating \cup {req}
    /\ UNCHANGED <<isSet, rows, gitVars, dbVars, callVars, pastVars, capVars>>

Distinct(req) ==
    \A j, k \in DOMAIN req : j # k => req[j].diff # req[k].diff /\ req[j].ord # req[k].ord

SlipInsertSet(req) ==
    /\ req \in creating
    /\ creating' = creating \ {req}
    /\ IF Distinct(req)
       THEN rows' = rows \cup {req[k] : k \in DOMAIN req} /\ isSet' = TRUE
       ELSE UNCHANGED <<rows, isSet>>
    /\ UNCHANGED <<asked, gitVars, dbVars, callVars, pastVars, capVars>>

\* The transaction.  The first INSERT takes the write lock; a trigger or a
\* UNIQUE constraint undoes the whole.
InsertSet(req) ==
    /\ req \in creating
    /\ creating' = creating \ {req}
    /\ IF ~isSet /\ Distinct(req)
       THEN rows' = {req[k] : k \in DOMAIN req} /\ isSet' = TRUE
       ELSE UNCHANGED <<rows, isSet>>
    /\ UNCHANGED <<asked, gitVars, dbVars, callVars, pastVars, capVars>>

\* get_diff_set_members: ORDER BY ord.
Ordered(rs) ==
    [k \in 1..Cardinality(rs) |->
        (CHOOSE r \in rs : Cardinality({q \in rs : q.ord < r.ord}) = k - 1).diff]

-----------------------------------------------------------------------------
(* The call.                                                               *)

\* The call returns r.
Return(r) ==
    /\ pc' = "idle" /\ result' = r
    /\ UNCHANGED <<i, members, args, stashed>>

SlipAdvance(next) ==
    /\ IF i <= Len(members) THEN i' = i + 1 /\ UNCHANGED pc
                            ELSE i' = 1 /\ pc' = next
    /\ UNCHANGED <<members, args, stashed, result>>

\* The loop over the members goes on, or the next phase begins.
Advance(next) ==
    /\ IF i < Len(members) THEN i' = i + 1 /\ UNCHANGED pc
                           ELSE i' = 1 /\ pc' = next
    /\ UNCHANGED <<members, args, stashed, result>>

\* The tool reads the members and each one's diff, and refuses an empty set.
\* apply_diff_set reads the members again, which are final by then.
Begin ==
    /\ pc = "idle" /\ calls < MaxCalls
    /\ calls' = calls + 1
    /\ members' = Ordered(rows) /\ i' = 1 /\ stashed' = FALSE
    /\ \/ /\ rows = {}
          /\ pc' = "idle" /\ result' = "EmptySet" /\ UNCHANGED args
       \/ /\ \E r \in rows : r.diff \notin Stored
          /\ pc' = "idle" /\ result' = "NotFound" /\ UNCHANGED args
       \/ /\ rows # {} /\ \A r \in rows : r.diff \in Stored
          /\ \E a \in [Diffs -> Tokens \cup {None}] :
                /\ \A d \in Diffs : a[d] \in Tokens => DiffOfToken[a[d]] = d
                /\ args' = a
          /\ pc' = "precheck" /\ result' = "none"
    /\ start' = tree /\ goal' = tree /\ depth' = Len(stash) /\ paid' = used
    /\ UNCHANGED <<gitVars, setVars, dbVars, work, edits, faults>>

\* Phase 1: every member is checked against the tree as it is now.
Precheck ==
    /\ pc = "precheck"
    /\ IF Fits(members[i]) THEN Advance("validate") ELSE Return("PrecheckFailed")
    /\ UNCHANGED <<gitVars, setVars, dbVars, pastVars, capVars>>

\* validate_token, with the project of the first member.
Authorised(t, d) ==
    /\ t \notin used \cup Expired
    /\ ProjectOf[d] = ProjectOf[members[1]]

SlipValidate ==
    /\ pc = "validate"
    /\ \/ /\ args[members[i]] = None
          /\ Return("MissingToken")
          /\ UNCHANGED used
       \/ /\ args[members[i]] # None
          /\ used' = used \cup {args[members[i]]}
          /\ pc' = "stash" /\ i' = 1
          /\ UNCHANGED <<members, args, stashed, result>>
    /\ UNCHANGED <<gitVars, setVars, events, pastVars, capVars>>

\* Phase 2: validate_token consumes the tokens one by one.
Validate ==
    /\ pc = "validate"
    /\ LET d == members[i]
           t == args[d]
       IN  \/ /\ t = None
              /\ Return("MissingToken")
              /\ UNCHANGED used
           \/ /\ t # None /\ ~Authorised(t, d)
              /\ Return("Validation")
              /\ UNCHANGED used
           \/ /\ t # None /\ Authorised(t, d)
              /\ used' = used \cup {t}
              /\ Advance("stash")
    /\ UNCHANGED <<gitVars, setVars, events, pastVars, capVars>>

SlipStash ==
    /\ pc = "stash"
    /\ pc' = "apply" /\ stashed' = FALSE
    /\ UNCHANGED <<i, members, args, result, gitVars, setVars, dbVars, pastVars, capVars>>

\* Phase 3: an empty stash is no error; another refusal of git is.
Stash ==
    /\ pc = "stash"
    /\ \/ /\ NothingToSave
          /\ pc' = "apply" /\ stashed' = FALSE
          /\ UNCHANGED <<i, members, args, result, gitVars, capVars>>
       \/ /\ ~NothingToSave
          /\ pc' = "apply" /\ stashed' = TRUE
          /\ stash' = <<Entry>> \o stash
          /\ tree' = Reverted /\ index' = HeadTree
          /\ UNCHANGED <<i, members, args, result, capVars>>
       \/ /\ faults < MaxFaults /\ faults' = faults + 1
          /\ Return("GitStash")
          /\ UNCHANGED <<gitVars, calls, edits>>
    /\ UNCHANGED <<setVars, dbVars, pastVars>>

\* A patch that rewrites the user's own version of a file was approved to.
Kept(f) == \E k \in DOMAIN stash : f \in Saved(stash[k]) /\ stash[k].work[f] = work[f]
Rewritten(d) ==
    [f \in Files |-> IF f \in DOMAIN Patch[d] /\ tree[f] = work[f] /\ ~Kept(f)
                     THEN None ELSE work[f]]

\* The row's id is a hash of task and diff, so the first one stays.
AppliedRow(d) == [diff |-> d, token |-> args[d]]
Recorded(d) == \E e \in events : e.diff = d

\* record_diff_applied_best_effort: no clock, or a failing INSERT, is a warning.
RecordApplied(d) ==
    \/ ~Recorded(d) /\ events' = events \cup {AppliedRow(d)}
    \/ UNCHANGED events

\* Phase 4: one `git apply`, and its diff_applied row.
Apply ==
    /\ pc = "apply"
    /\ LET d == members[i]
       IN  \/ /\ Fits(d)
              /\ tree' = Patched(d, tree)
              /\ goal' = [f \in Files |-> IF goal[f] = None THEN None ELSE Patched(d, goal)[f]]
              /\ work' = Rewritten(d)
              /\ RecordApplied(d)
              /\ \/ (i < Len(members) \/ stashed) /\ Advance("pop")
                 \/ i = Len(members) /\ ~stashed /\ Return("ok")
              /\ UNCHANGED <<index, stash, start, depth, paid>>
           \/ /\ ~Fits(d)
              /\ pc' = "reset"
              /\ UNCHANGED <<i, members, args, stashed, result, gitVars, events, pastVars>>
    /\ UNCHANGED <<setVars, used, capVars>>

\* `git reset --hard HEAD`; whether it worked is not looked at.
Reset ==
    /\ pc = "reset"
    /\ \/ tree' = Reverted /\ index' = HeadTree /\ UNCHANGED capVars
       \/ /\ faults < MaxFaults /\ faults' = faults + 1
          /\ UNCHANGED <<tree, index, calls, edits>>
    /\ IF stashed THEN pc' = "unstash" /\ UNCHANGED <<i, members, args, stashed, result>>
                  ELSE Return("MidFlightFailure")
    /\ UNCHANGED <<stash, setVars, dbVars, pastVars>>

\* The pop after the reset; whether it worked is not looked at either.
Unstash ==
    /\ pc = "unstash"
    /\ IF PopFits THEN GitPop ELSE UNCHANGED gitVars
    /\ Return("MidFlightFailure")
    /\ UNCHANGED <<setVars, dbVars, pastVars, capVars>>

SlipPop ==
    /\ pc = "pop"
    /\ IF PopFits THEN GitPop ELSE UNCHANGED gitVars
    /\ Return("ok")
    /\ UNCHANGED <<setVars, dbVars, pastVars, capVars>>

\* Phase 5: the pop after the last patch; a refusal is reported.
Pop ==
    /\ pc = "pop"
    /\ \/ PopFits /\ GitPop /\ Return("ok")
       \/ ~PopFits /\ Return("GitStash") /\ UNCHANGED gitVars
    /\ UNCHANGED <<setVars, dbVars, pastVars, capVars>>

\* A child that cannot be spawned, or whose pipe breaks: `?` returns at once.
IoError ==
    /\ pc \in {"precheck", "stash", "apply", "pop"}
    /\ faults < MaxFaults /\ faults' = faults + 1
    /\ Return("Io")
    /\ UNCHANGED <<gitVars, setVars, dbVars, pastVars, calls, edits>>

\* The server process dies between two steps.
Kill ==
    /\ pc # "idle"
    /\ faults < MaxFaults /\ faults' = faults + 1
    /\ Return("killed")
    /\ UNCHANGED <<gitVars, setVars, dbVars, pastVars, calls, edits>>

-----------------------------------------------------------------------------
(* The user, and other processes that write the work tree.                 *)

\* Once the stash is pushed, what others write to the tree is at their risk.
Promised == pc \in {"idle", "precheck", "validate", "stash"}

Edit(f, v) ==
    /\ edits < MaxEdits /\ v # tree[f]
    /\ edits' = edits + 1
    /\ tree' = [tree EXCEPT ![f] = v]
    /\ LET kept == IF Promised THEN v ELSE None
       IN  /\ start' = [start EXCEPT ![f] = kept]
           /\ goal' = [goal EXCEPT ![f] = kept]
           /\ work' = [work EXCEPT ![f] = kept]
    /\ UNCHANGED <<index, stash, setVars, dbVars, callVars, depth, paid, calls, faults>>

\* `git add`, between calls.
Stage(f) ==
    /\ pc = "idle" /\ index[f] # tree[f]
    /\ index' = [index EXCEPT ![f] = tree[f]]
    /\ UNCHANGED <<tree, stash, setVars, dbVars, callVars, pastVars, capVars>>

Next ==
    \/ \E req \in Requests : CheckSet(req) \/ InsertSet(req)
    \/ Begin \/ Precheck \/ Validate \/ Stash \/ Apply
    \/ Reset \/ Unstash \/ Pop \/ IoError \/ Kill
    \/ \E f \in Files : Stage(f) \/ \E v \in Content : Edit(f, v)

Spec == Init /\ [][Next]_vars

-----------------------------------------------------------------------------
(* Properties.                                                             *)

\* "append-only" (004_diff_sets.sql): the members of a set are those it was
\* created with, whoever else was about to create a set of that id.
MembershipFrozen == [][isSet => isSet' /\ rows' = rows]_vars

\* No patch of a set reaches the tree before every member's own token was
\* validated and consumed: one approval per diff, none for the set.  A
\* diff_applied row, which stays when the set is rolled back, names a consumed
\* token of its diff and stands for a set whose members were all approved.
WholeSetApproved ==
    /\ pc \in {"apply", "reset", "unstash", "pop"} =>
          \A r \in rows :
              /\ args[r.diff] \in used \ paid
              /\ DiffOfToken[args[r.diff]] = r.diff
    /\ \A e \in events :
          /\ e.token \in used /\ DiffOfToken[e.token] = e.diff
          /\ \E r \in rows : r.diff = e.diff
          /\ \A r \in rows : \E t \in used : DiffOfToken[t] = r.diff

\* What the user had not committed when the call stashed it is never lost,
\* whatever fails, dies or conflicts: it is in the work tree or in the stash.
UserWorkKept ==
    \A f \in Files : work[f] # None => tree[f] = work[f] \/ Kept(f)

\* A call that returns Ok applied every patch on top of what was there, gave
\* the user's changes back, and left no stash entry behind.  A file that the
\* patches changed and changed back has what the user had there.  Nothing is
\* said of the diff_applied rows, which may be missing.
OkIsComplete ==
    result = "ok" =>
        /\ \A f \in Files : \/ goal[f] \in {tree[f], None}
                            \/ goal[f] = HeadTree[f] /\ tree[f] = start[f]
        /\ Len(stash) = depth

\* "Mid-flight failure: reset working tree to pre-apply state, then restore
\* stash" (apply.rs).
RollbackRestores ==
    result = "MidFlightFailure" => \A f \in Files : start[f] \in {tree[f], None}
=============================================================================

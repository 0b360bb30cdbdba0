--------------------------- MODULE ApprovalPipeline ---------------------------
(***************************************************************************)
(* The approve / apply pipeline of SkyCodeOS: `scos approve`, `scos apply`,*)
(* the HTTP handlers POST /v1/diffs/:id/approve and /apply, and the MCP    *)
(* tools approve_diff and apply_diff, all over one SQLite database, one    *)
(* signing-key file, one token file per diff and one git work tree.        *)
(*                                                                         *)
(* Each member of Procs is one caller: a CLI process, a request handler of *)
(* the API server or a tool call of the MCP server (Mode).  A step is one  *)
(* database statement, one file-system call or one child-process event, so *)
(* the callers interleave where the operating system lets them; handlers   *)
(* of one server share its connection mutex (holder).                      *)
(*                                                                         *)
(* Operators named Slip... are no part of the model: each is a plausible   *)
(* mistake in the definition after it, put in its place to see that a      *)
(* property notices.                                                       *)
(***************************************************************************)
EXTENDS Integers, FiniteSets

CONSTANTS
    Procs,        \* callers
    Mode,         \* Mode[p] is "cli", "api" or "mcp"
    Diffs,        \* diff proposal ids
    ProjectOf,    \* the project_id column of each proposal
    TaskOf,       \* the task_id column of each proposal
    Agents,       \* agent identities
    CliAgent,     \* "coder-primary", the agent the CLI always acts for
    Tasks,        \* task ids a caller may name
    Keys,         \* ed25519 key pairs
    Tokens,       \* token ids (fresh UUIDs)
    Reasons,      \* what `git apply` may print when it refuses a patch
    InitialKey,   \* the key file when the run starts: a key or None
    TTL,          \* 300 s
    Grace,        \* CLOCK_SKEW_GRACE_SECONDS, 30 s
    MaxClock,     \* bound on the clock
    None,         \* "absent": no row, no file, no lock holder
    Torn          \* a file that was truncated and not yet written

ASSUME PipelineAssumption ==
    /\ Mode \in [Procs -> {"api", "mcp", "cli"}]
    /\ TaskOf \in [Diffs -> Tasks]
    /\ CliAgent \in Agents
    /\ InitialKey \in Keys \cup {None}
    /\ TTL \in Nat /\ Grace \in Nat /\ MaxClock \in Nat
    /\ None \notin Procs \cup Diffs \cup Agents \cup Tasks \cup Keys \cup Tokens \cup {Torn}
    /\ Torn \notin Keys \cup Tokens

VARIABLES
    now,          \* the system clock, seconds
    proposals,    \* table diff_proposals: immutable rows
    signingKeys,  \* table signing_keys: the public key of each agent
    used,         \* table approval_tokens_used: append-only rows
    failures,     \* diff_apply_failed rows of tool_events, by content id
    decisions,    \* the diffs with a decision row
    keyFile,      \* .skycode/keys/approval_ed25519.pk8
    keysMade,     \* key pairs generated so far: a key pair is fresh
    tokenFile,    \* .skycode/tokens/<diff>.json
    tokens,       \* what create_signed made for each token id
    handed,       \* tokens that left the request that created them
    tree,         \* how often each patch was put in the work tree
    launches,     \* how many `git apply` children each token paid for
    holder,       \* the connection mutex of each server
    pc, req       \* where each caller is, and its local variables

dbVars   == <<proposals, signingKeys, used, failures, decisions>>
fileVars == <<keyFile, keysMade, tokenFile>>
gitVars  == <<tree, launches>>
vars     == <<now, dbVars, fileVars, tokens, handed, gitVars, holder, pc, req>>

Servers == {"api", "mcp"}
Modes   == Servers \cup {"cli"}

Labels == {"idle", "key", "keywrite", "keyflush", "load", "mint", "register",
           "persist", "flush", "check", "lookup", "consume", "git", "gitrun",
           "logfail", "cleanup", "remember"}

\* ApprovalToken: the signed payload and the key pair that signed it.  The
\* project is the diff's own, key_id is always agent_id, the nonce is unique.
Token == [diff : Diffs, agent : Agents, key : Keys, created : 0..MaxClock]

ASSUME NoTokenAssumption == None \notin Token

Request == [diff  : Diffs \cup {None},  agent : Agents \cup {None},
            task  : Tasks \cup {None},  tid   : Tokens \cup {None},
            key   : Keys \cup {None},   at    : 0..MaxClock,
            why   : Reasons \cup {None}]

Blank == [diff |-> None, agent |-> None, task |-> None, tid |-> None,
          key |-> None, at |-> 0, why |-> None]

UsedRow   == [tid : Tokens, diff : Diffs, task : Tasks, at : 0..MaxClock]
FailedRow == [task : Tasks, diff : Diffs, why : Reasons, tid : Tokens]

TypeOK ==
    /\ now \in 0..MaxClock
    /\ proposals \subseteq Diffs
    /\ signingKeys \in [Agents -> Keys \cup {None}]
    /\ used \subseteq UsedRow
    /\ failures \subseteq FailedRow
    /\ decisions \subseteq Diffs
    /\ keyFile \in Keys \cup {None, Torn}
    /\ keysMade \subseteq Keys
    /\ tokenFile \in [Diffs -> Tokens \cup {None, Torn}]
    /\ tokens \in [Tokens -> Token \cup {None}]
    /\ handed \subseteq Tokens
    /\ tree \in [Diffs -> Nat]
    /\ launches \in [Tokens -> Nat]
    /\ holder \in [Modes -> Procs \cup {None}]
    /\ pc \in [Procs -> Labels]
    /\ req \in [Procs -> Request]

Init ==
    /\ now = 0
    /\ proposals = {}
    /\ signingKeys = [a \in Agents |-> None]
    /\ used = {}
    /\ failures = {}
    /\ decisions = {}
    /\ keyFile = InitialKey
    /\ keysMade = {InitialKey} \ {None}
    /\ tokenFile = [d \in Diffs |-> None]
    /\ tokens = [t \in Tokens |-> None]
    /\ handed = {}
    /\ tree = [d \in Diffs |-> 0]
    /\ launches = [t \in Tokens |-> 0]
    /\ holder = [m \in Modes |-> None]
    /\ pc = [p \in Procs |-> "idle"]
    /\ req = [p \in Procs |-> Blank]

-----------------------------------------------------------------------------
(* Helpers: control flow and the connection mutex of a server.             *)

At(p, label) == pc[p] = label
Goto(p, label) == pc' = [pc EXCEPT ![p] = label]

\* A CLI process has a connection of its own: nobody ever holds "cli".
LockFree(p) == holder[Mode[p]] = None
SlipTakeLock(p) == UNCHANGED holder
TakeLock(p) == holder' = [holder EXCEPT ![Mode[p]] = IF Mode[p] = "cli" THEN None ELSE p]

\* Dropping the guard of the mutex when the handler returns.
DropLock(p) == holder' = [m \in Modes |-> IF holder[m] = p THEN None ELSE holder[m]]

\* The request ends, with or without an error: the locals and the lock go.
Return(p) ==
    /\ Goto(p, "idle")
    /\ req' = [req EXCEPT ![p] = Blank]
    /\ DropLock(p)

-----------------------------------------------------------------------------
(* The environment: the clock, which NTP may also step back, and the task  *)
(* loop, which stores proposals.                                           *)

SetClock == 
    /\ \E n \in 0..MaxClock \ {now} : now' = n
    /\ UNCHANGED <<dbVars, fileVars, tokens, handed, gitVars, holder, pc, req>>

StoreProposal(d) ==
    /\ d \notin proposals
    /\ proposals' = proposals \cup {d}
    /\ UNCHANGED <<now, signingKeys, used, failures, decisions, fileVars,
                   tokens, handed, gitVars, holder, pc, req>>

-----------------------------------------------------------------------------
(* Approving.  The CLI creates the key file when it is missing; the servers*)
(* only load it.  MCP loads it before it looks the diff up.                *)

BeginApprove(p, d, a) ==
    /\ At(p, "idle")
    /\ \/ Mode[p] = "cli" /\ d \in proposals /\ a = CliAgent /\ Goto(p, "key")
       \/ Mode[p] = "api" /\ d \in proposals /\ LockFree(p) /\ Goto(p, "load")
       \/ Mode[p] = "mcp" /\ Goto(p, "load")
    /\ req' = [req EXCEPT ![p].diff = d, ![p].agent = a]
    /\ UNCHANGED <<now, dbVars, fileVars, tokens, handed, gitVars, holder>>

SlipFindKey(p) ==
    /\ At(p, "key")
    /\ \E k \in Keys \ keysMade :
          /\ keysMade' = keysMade \cup {k}
          /\ req' = [req EXCEPT ![p].key = k]
    /\ Goto(p, "keywrite")
    /\ UNCHANGED <<now, dbVars, keyFile, tokenFile, tokens, handed, gitVars, holder>>

\* load_or_create_signing_key: the existence test, and a new key pair when
\* there is no file.
FindKey(p) ==
    /\ At(p, "key")
    /\ \/ /\ keyFile \in Keys
          /\ Goto(p, "mint")
          /\ req' = [req EXCEPT ![p].key = keyFile]
          /\ UNCHANGED <<keysMade, holder>>
       \/ /\ keyFile = Torn
          /\ Return(p)
          /\ UNCHANGED keysMade
       \/ /\ keyFile = None
          /\ \E k \in Keys \ keysMade :
                /\ keysMade' = keysMade \cup {k}
                /\ req' = [req EXCEPT ![p].key = k]
          /\ Goto(p, "keywrite")
          /\ UNCHANGED holder
    /\ UNCHANGED <<now, dbVars, keyFile, tokenFile, tokens, handed, gitVars>>

\* fs::write of the key file: it truncates, then writes.
TruncateKey(p) ==
    /\ At(p, "keywrite")
    /\ keyFile' = Torn
    /\ Goto(p, "keyflush")
    /\ UNCHANGED <<now, dbVars, keysMade, tokenFile, tokens, handed, gitVars, holder, req>>

FlushKey(p) ==
    /\ At(p, "keyflush")
    /\ keyFile' = req[p].key
    /\ Goto(p, "mint")
    /\ UNCHANGED <<now, dbVars, keysMade, tokenFile, tokens, handed, gitVars, holder, req>>

\* load_signing_key of the servers: no file, or a torn one, ends the request.
LoadKey(p) ==
    /\ At(p, "load")
    /\ IF keyFile \in Keys
       THEN /\ Goto(p, "mint")
            /\ req' = [req EXCEPT ![p].key = keyFile]
            /\ UNCHANGED holder
       ELSE Return(p)
    /\ UNCHANGED <<now, dbVars, fileVars, tokens, handed, gitVars>>

SlipIssueTime == now + TTL

\* created_at of a new token.
IssueTime == now

\* ApprovalToken::create_signed.  The MCP tool takes the mutex first and
\* only then finds out whether the diff exists.
Mint(p) ==
    /\ At(p, "mint")
    /\ Mode[p] = "mcp" => LockFree(p)
    /\ IF req[p].diff \notin proposals
       THEN Return(p) /\ UNCHANGED tokens
       ELSE /\ \E t \in Tokens :
                 /\ tokens[t] = None
                 /\ tokens' = [tokens EXCEPT ![t] =
                       [diff |-> req[p].diff, agent |-> req[p].agent,
                        key |-> req[p].key, created |-> IssueTime]]
                 /\ req' = [req EXCEPT ![p].tid = t]
            /\ IF Mode[p] = "mcp" THEN TakeLock(p) ELSE UNCHANGED holder
            /\ Goto(p, "register")
    /\ UNCHANGED <<now, dbVars, fileVars, handed, gitVars>>

\* register_signing_key: INSERT OR REPLACE, so it also rotates the key.
Register(p) ==
    /\ At(p, "register")
    /\ Mode[p] = "api" => LockFree(p)
    /\ signingKeys' = [signingKeys EXCEPT ![req[p].agent] = req[p].key]
    /\ IF Mode[p] = "mcp"
       THEN Return(p) /\ handed' = handed \cup {req[p].tid}
       ELSE Goto(p, "persist") /\ UNCHANGED <<handed, req, holder>>
    /\ UNCHANGED <<now, proposals, used, failures, decisions, fileVars, tokens, gitVars>>

\* persist_token: fs::write over whatever token the diff had.
TruncateToken(p) ==
    /\ At(p, "persist")
    /\ tokenFile' = [tokenFile EXCEPT ![req[p].diff] = Torn]
    /\ Goto(p, "flush")
    /\ UNCHANGED <<now, dbVars, keyFile, keysMade, tokens, handed, gitVars, holder, req>>

FlushToken(p) ==
    /\ At(p, "flush")
    /\ tokenFile' = [tokenFile EXCEPT ![req[p].diff] = req[p].tid]
    /\ handed' = handed \cup {req[p].tid}
    /\ Return(p)
    /\ UNCHANGED <<now, dbVars, keyFile, keysMade, tokens, gitVars>>

-----------------------------------------------------------------------------
(* Applying.                                                               *)

ApplyRequest(d, a, k, t) == [diff |-> d, agent |-> a, task |-> k, tid |-> t,
                             key |-> None, at |-> 0, why |-> None]

\* `scos apply`: the diff's row and the diff's token file.
BeginCliApply(p, d) ==
    /\ At(p, "idle") /\ Mode[p] = "cli"
    /\ d \in proposals /\ tokenFile[d] \in Tokens
    /\ req' = [req EXCEPT ![p] = ApplyRequest(d, CliAgent, TaskOf[d], tokenFile[d])]
    /\ Goto(p, "check")
    /\ UNCHANGED <<now, dbVars, fileVars, tokens, handed, gitVars, holder>>

\* The servers take token, agent and task from the request.  The API drops
\* the mutex between reading the row and applying; the MCP tool keeps it.
BeginServerApply(p, d, a, k, t) ==
    /\ At(p, "idle") /\ Mode[p] \in Servers
    /\ LockFree(p) /\ d \in proposals /\ t \in handed
    /\ req' = [req EXCEPT ![p] = ApplyRequest(d, a, k, t)]
    /\ IF Mode[p] = "mcp" THEN TakeLock(p) ELSE UNCHANGED holder
    /\ Goto(p, "check")
    /\ UNCHANGED <<now, dbVars, fileVars, tokens, handed, gitVars>>

SlipInTime(tok, clock) == tok.created <= clock + Grace

\* The checks of validate_token that need no database.
InTime(tok, clock) ==
    /\ tok.created <= clock + Grace
    /\ clock <= tok.created + TTL + Grace

SlipBound(tok, r) == tok.agent = r.agent

Bound(tok, r) ==
    /\ ProjectOf[tok.diff] = ProjectOf[r.diff]
    /\ tok.diff = r.diff
    /\ tok.agent = r.agent

CheckBindings(p) ==
    /\ At(p, "check")
    /\ holder[Mode[p]] \in {None, p}
    /\ IF InTime(tokens[req[p].tid], now) /\ Bound(tokens[req[p].tid], req[p])
       THEN /\ Goto(p, "lookup")
            /\ req' = [req EXCEPT ![p].at = now]
            /\ TakeLock(p)
       ELSE Return(p)
    /\ UNCHANGED <<now, dbVars, fileVars, tokens, handed, gitVars>>

\* SELECT public_key_hex and the signature check: a missing row is
\* UnknownKeyId, another key is InvalidSignature.
CheckSignature(p) ==
    /\ At(p, "lookup")
    /\ IF signingKeys[req[p].agent] = tokens[req[p].tid].key
       THEN Goto(p, "consume") /\ UNCHANGED <<req, holder>>
       ELSE Return(p)
    /\ UNCHANGED <<now, dbVars, fileVars, tokens, handed, gitVars>>

SlipReplayed(t) == FALSE

\* A row with this primary key makes the INSERT fail.
Replayed(t) == \E row \in used : row.tid = t

SlipConsume(p) ==
    /\ At(p, "consume")
    /\ IF Replayed(req[p].tid) THEN Return(p)
       ELSE Goto(p, "git") /\ UNCHANGED <<req, holder>>
    /\ UNCHANGED <<now, dbVars, fileVars, tokens, handed, gitVars>>

\* INSERT INTO approval_tokens_used: the replay defence.
Consume(p) ==
    /\ At(p, "consume")
    /\ IF Replayed(req[p].tid)
       THEN Return(p) /\ UNCHANGED used
       ELSE /\ used' = used \cup {[tid |-> req[p].tid, diff |-> tokens[req[p].tid].diff,
                                   task |-> req[p].task, at |-> req[p].at]}
            /\ Goto(p, "git")
            /\ UNCHANGED <<req, holder>>
    /\ UNCHANGED <<now, proposals, signingKeys, failures, decisions, fileVars,
                   tokens, handed, gitVars>>

\* Spawning `git apply`; a spawn error returns with the token spent.
SpawnGit(p) ==
    /\ At(p, "git")
    /\ \/ /\ launches' = [launches EXCEPT ![req[p].tid] = @ + 1]
          /\ Goto(p, "gitrun")
          /\ UNCHANGED <<req, holder>>
       \/ Return(p) /\ UNCHANGED launches
    /\ UNCHANGED <<now, dbVars, fileVars, tokens, handed, tree>>

\* The child exits 0: the patch is in the work tree.  apply_diff returns Ok
\* and writes no event; only the CLI goes on.
GitApplied(p) ==
    /\ At(p, "gitrun")
    /\ tree' = [tree EXCEPT ![req[p].diff] = @ + 1]
    /\ IF Mode[p] = "cli"
       THEN Goto(p, "cleanup") /\ UNCHANGED <<req, holder>>
       ELSE Return(p)
    /\ UNCHANGED <<now, dbVars, fileVars, tokens, handed, launches>>

SlipGitRefused(p) ==
    /\ At(p, "gitrun")
    /\ Goto(p, "cleanup")
    /\ UNCHANGED <<now, dbVars, fileVars, tokens, handed, gitVars, holder, req>>

\* The child refuses the patch, or the pipe to it breaks: the tree is as it
\* was.  Only a refusal is recorded.
GitRefused(p) ==
    /\ At(p, "gitrun")
    /\ \/ \E w \in Reasons :
             /\ req' = [req EXCEPT ![p].why = w]
             /\ Goto(p, "logfail")
             /\ UNCHANGED holder
       \/ Return(p)
    /\ UNCHANGED <<now, dbVars, fileVars, tokens, handed, gitVars>>

\* record_apply_failed: the event's primary key is the hash of task, diff
\* and git's output; a second row with that key is refused, with a warning.
FailureKnown(r) ==
    \E row \in failures : row.task = r.task /\ row.diff = r.diff /\ row.why = r.why

RecordFailure(p) ==
    /\ At(p, "logfail")
    /\ failures' = IF FailureKnown(req[p]) THEN failures
                   ELSE failures \cup {[task |-> req[p].task, diff |-> req[p].diff,
                                        why |-> req[p].why, tid |-> req[p].tid]}
    /\ Return(p)
    /\ UNCHANGED <<now, proposals, signingKeys, used, decisions, fileVars,
                   tokens, handed, gitVars>>

\* remove_token: the CLI removes the file of the diff, whatever it now holds.
RemoveToken(p) ==
    /\ At(p, "cleanup")
    /\ tokenFile' = [tokenFile EXCEPT ![req[p].diff] = None]
    /\ Goto(p, "remember")
    /\ UNCHANGED <<now, dbVars, keyFile, keysMade, tokens, handed, gitVars, holder, req>>

\* write_decision and insert_memory, best effort: their ids derive from the
\* diff id, so a second row is refused with a warning.
Remember(p) ==
    /\ At(p, "remember")
    /\ decisions' = decisions \cup {req[p].diff}
    /\ Return(p)
    /\ UNCHANGED <<now, proposals, signingKeys, used, failures, fileVars,
                   tokens, handed, gitVars>>

-----------------------------------------------------------------------------
(* A file operation or a statement fails (disk full, SQLITE_BUSY): the     *)
(* handler returns, or passes over its last, best-effort, steps.           *)

Fail(p) ==
    /\ pc[p] \notin {"idle", "git", "gitrun"}
    /\ Return(p)
    /\ UNCHANGED <<now, dbVars, fileVars, tokens, handed, gitVars>>

-----------------------------------------------------------------------------
(* A process dies: a CLI caller alone, or a server with all its handlers.  *)
(* Files stay as they were left; the database keeps every statement.       *)

DiesWith(p, q) == q = p \/ (Mode[p] \in Servers /\ Mode[q] = Mode[p])

SlipCrash(p) ==
    /\ pc[p] # "idle"
    /\ pc' = [q \in Procs |-> IF DiesWith(p, q) THEN "idle" ELSE pc[q]]
    /\ req' = [q \in Procs |-> IF DiesWith(p, q) THEN Blank ELSE req[q]]
    /\ holder' = [holder EXCEPT ![Mode[p]] = None]
    /\ used' = {row \in used : row.tid # req[p].tid}
    /\ UNCHANGED <<now, proposals, signingKeys, failures, decisions, fileVars,
                   tokens, handed, gitVars>>

Crash(p) ==
    /\ pc[p] # "idle"
    /\ pc' = [q \in Procs |-> IF DiesWith(p, q) THEN "idle" ELSE pc[q]]
    /\ req' = [q \in Procs |-> IF DiesWith(p, q) THEN Blank ELSE req[q]]
    /\ holder' = [holder EXCEPT ![Mode[p]] = None]
    /\ UNCHANGED <<now, dbVars, fileVars, tokens, handed, gitVars>>

ApproveStep(p) ==
    \/ \E d \in Diffs, a \in Agents : BeginApprove(p, d, a)
    \/ FindKey(p)
    \/ TruncateKey(p)
    \/ FlushKey(p)
    \/ LoadKey(p)
    \/ Mint(p)
    \/ Register(p)
    \/ TruncateToken(p)
    \/ FlushToken(p)

ApplyStep(p) ==
    \/ \E d \in Diffs : BeginCliApply(p, d)
    \/ \E d \in Diffs, a \in Agents, k \in Tasks, t \in Tokens :
          BeginServerApply(p, d, a, k, t)
    \/ CheckBindings(p)
    \/ CheckSignature(p)
    \/ Consume(p)
    \/ SpawnGit(p)
    \/ GitApplied(p)
    \/ GitRefused(p)
    \/ RecordFailure(p)
    \/ RemoveToken(p)
    \/ Remember(p)

Next ==
    \/ SetClock
    \/ \E d \in Diffs : StoreProposal(d)
    \/ \E p \in Procs : ApproveStep(p) \/ ApplyStep(p) \/ Fail(p) \/ Crash(p)

Spec == Init /\ [][Next]_vars

-----------------------------------------------------------------------------
(* Properties.                                                             *)

\* A token pays for at most one `git apply`: not two callers holding the same
\* token file, not a retry, not a caller that died between the INSERT into
\* approval_tokens_used and the launch can use it again.
SingleUse == \A t \in Tokens : launches[t] <= 1

\* A patch is never in the work tree more often than its diff was approved:
\* tokens of other diffs, of other agents or used before do not count.
Approvals(d) == {t \in Tokens : tokens[t] # None /\ tokens[t].diff = d}
AppliesWithinApprovals ==
    \A d \in Diffs : tree[d] <= Cardinality(Approvals(d))

\* Whatever was consumed had been approved: the row names a token that was
\* minted for its diff, and validate_token ran while the token was neither
\* too new nor expired, the clock-skew grace included.
UsesAuthorised ==
    \A u \in used :
        /\ tokens[u.tid] # None
        /\ tokens[u.tid].diff = u.diff
        /\ tokens[u.tid].created - Grace <= u.at
        /\ u.at <= tokens[u.tid].created + TTL + Grace

\* The audit trail is sound: a diff_apply_failed row names a token that was
\* consumed, for that diff and on behalf of that task.
FailuresTraceToUse ==
    \A f \in failures : \E u \in used :
        u.tid = f.tid /\ u.diff = f.diff /\ u.task = f.task

\* The agent's memory never claims an apply that did not happen: a decision
\* row for a diff means its patch was put in the work tree.
DecisionsFollowApply == \A d \in decisions : tree[d] > 0

\* Handlers of one server never run `git apply` at the same time: the work
\* tree is only shared with other processes.
GitSerialPerServer ==
    \A p, q \in {r \in Procs : Mode[r] \in Servers /\ At(r, "gitrun")} :
        Mode[p] = Mode[q] => p = q

\* The token `scos apply` would load verifies: the key that signed it is the
\* one registered for its agent, so validate_token can look it up.
PersistedTokenVerifies ==
    \A d \in Diffs : tokenFile[d] \in Tokens =>
        LET tok == tokens[tokenFile[d]] IN signingKeys[tok.agent] = tok.key

-----------------------------------------------------------------------------
(* The promise, and the mapping under which the pipeline keeps it.         *)

Granted == [t \in Tokens |-> IF tokens[t] = None THEN None ELSE tokens[t].diff]
Spent   == {row.tid : row \in used}
Flight  == {t \in Tokens : \E p \in Procs : At(p, "gitrun") /\ req[p].tid = t}

Grants == INSTANCE ApprovalGrants WITH
    NoDiff <- None, granted <- Granted, spent <- Spent, paid <- launches, flight <- Flight

\* The pipeline implements ApprovalGrants.
GrantsKept == Grants!Spec
=============================================================================

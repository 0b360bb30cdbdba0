# SkyCodeOS: models, checks and proofs

SkyCodeOS is a local coding agent: it asks a local language model for a patch,
stores the patch as a *diff proposal*, lets a person approve it with a signed
token, and applies it with `git apply`.  A CLI (`scos`), an HTTP API server and
MCP servers (one per client on stdio, one on HTTP) do this over one SQLite
database, one `.skycode` directory and one git work tree, each as a process of
its own.  This directory holds TLA+ modules of the parts whose correctness
depends on order, concurrency and failure, the TLC runs over them and proofs
that TLAPS checks.

## The system

| part | state it keeps | operations | what makes it correct |
|---|---|---|---|
| approval tokens (`skycode-core/src/approval`) | `signing_keys`, `approval_tokens_used` | `create_signed`, `register_signing_key`, `validate_token` | a token is used once, in time, for its own diff, project and agent |
| approve, apply (`cli/src/commands`, `api/src/routes/diffs.rs`, `mcp/src/dispatch.rs`) | the key file, a token file per diff, `decisions`, `memories` | approve, apply | what is approved can be applied; what is recorded happened |
| apply tool (`skycode-tools/src/tools/apply.rs`) | work tree, index, stash, `tool_events` | `apply_diff`, `apply_diff_set` | no patch without approval; no user work lost; a set is all or nothing |
| loop guard (`contracts/src/sky_loop_guard.rs`) | `task_loop_counters`, `tool_events` | `check_and_increment` | no more than the budget runs; refusals are on record |
| event log and stream (`skycode-core/src/db/events.rs`, `api/src/routes/events.rs`, `tasks.rs`) | `tool_events`, `submitted_tasks`, a cursor and queue per connection | `append_event`, POST a task, SSE stream | every row, once, in order, in the end; the first event of a posted task included |
| code graph (`skycode-graph`, `cli/src/commands/scan.rs`) | `graph_nodes`, `graph_edges` | scan, forced scan, impact query | the graph says what the files say |
| diff sets (`skycode-core/src/db/diff_sets.rs`) | `diff_sets`, `diff_set_members` | create, list in order | members are frozen |
| migrations (`skycode-core/src/db/migrations.rs`, `memory/migrations/*.sql`) | the schema and its ledger | `run_migrations` | the ledger is true, and no event is lost |
| chat proxy (`api/src/routes/chat.rs`, `server.rs`) | a line buffer and a queue per stream | chat, streamed or whole; graceful shutdown | every data line once, in order; Ctrl-C ends the server |
| model server, registry (`skycode-inference`) | a child process on a port, a YAML file in memory | launch, poll, call, stop, reload | no orphan, and every launch ends |
| task loop, router, policy (`skycode-orchestrator`, `scos ask`, `scos serve`, `scos model`, `scos profile`) | `diff_proposals`, `agent_state`, `model_invoked` rows | resolve the profile, route, ask the model, guard, store | no destructive or unpermitted diff is stored; what was started is on record |
| verify (`skycode-tools/src/tools/verify.rs`, `cli/src/commands/apply.rs`) | a child process, its pipes, rows of `tool_events` | `run_verify`, `apply --verify` | it ends by its deadline; what is said to have passed has passed |
| memory (`skycode-memory`) | `memories` and a full-text index, `decisions` | insert, search | the index agrees with the table |

The parts interact through the database (every statement commits by itself
unless `create_diff_set` opens its transaction), through the files of
`.skycode`, through the work tree, and inside a server through one connection
mutex.  The MCP tools hold that mutex from the lookup of a diff to the end of
`git apply`; the API's `apply_handler` drops it after the lookup and takes it
again for the apply; the CLI has a connection of its own.  The hard behaviours
are the interleavings this leaves open, a process that dies between two
statements or in an `fs::write`, clocks that step, events on cut connections,
and children (`git`, the model server, a test command) that fail in the middle.
`PROJECT.json` lists them as hazards, each at its line, with the properties
that are about it or the reason why none is yet.

## The modules

A step of a model is one database statement, one file-system call or one event
of a child process; a caller's locals are lost when it dies.  An operator named
`Slip...` is no part of a model: it is a mistake a programmer could have made in
the definition after it, and putting it there breaks a property.

**ApprovalPipeline** (implements **ApprovalGrants**; instances in
**MCApproval**; proofs in **ApprovalProofs**).  `Procs` are callers and
`Mode[p]` says whether `p` is a CLI process or a handler of the API or MCP
server.  `proposals`, `signingKeys`, `used`, `failures` and `decisions` are
tables, `keyFile` and `tokenFile` files (`Torn` between the truncation and the
write), `tree` and `launches` count the patches in the work tree and the
children each token paid for, `holder` is the mutex of each server.  Approving
runs `FindKey`/`TruncateKey`/`FlushKey` (CLI) or `LoadKey` (servers), `Mint`,
`Register`, `TruncateToken`, `FlushToken`; applying runs `CheckBindings`,
`CheckSignature`, `Consume` (the three parts of `validate_token`), `SpawnGit`,
then `GitApplied` or `GitRefused` with `RecordFailure`, and for the CLI
`RemoveToken` and `Remember`.  `Fail` is a `?` on a file or a statement, `Crash`
the death of a process with all its handlers and their git children (one that
outlived its server is not modelled).  A signature is the key pair that
made it; since `key_id` is always the agent, the key is looked up by agent.
ApprovalGrants is the promise: one approval, one launch, of the diff approved.

**DiffSetApply** (instances in **MCDiffSetApply**; proofs in **DiffSetProofs**) is `create_diff_set` and
`apply_diff_set`.  Processes that create a set first look whether it exists
(`CheckSet`) and then write the set and its members in a transaction
(`InsertSet`), which a trigger or a UNIQUE constraint undoes.  One call of
`apply_diff_set` at a time takes the members as `get_diff_set_members` orders
them (`Begin`) and goes phase by phase, while a user edits and stages files.  git
is external: `Fits`, `Entry`, `Reverted`, `PopFits` and `GitPop` say what `apply`,
`stash push`, `reset --hard` and `stash pop --index` do to work tree, index and
stash.  `start`, `goal`, `work`, `depth` and `paid` only remember.  A patch that
landed is recorded by `RecordApplied`, which may fail and then only warns; the row
of a task and diff is written once and names the token of that time.

**LoopGuard** (proofs in **GuardedCallsProofs**) is `check_and_increment`: `Upsert`,
`Read`, `Block`, and `Die` for a call that ends between them, because its server
dies or the SELECT fails.  `Block` refuses the call whether its row is written or
not; `unwritten` counts the refusals whose INSERT failed for another reason than a
row with its id.  One server is one caller, as its mutex is held throughout.

**Verify** is `run_verify`: the shell is started (`Start`), asked every 50 ms
whether it has exited (`Poll`), killed at the deadline (`Kill`), and otherwise the
threads that read its output are joined (`Join`), which a process that the command
left behind with its pipes (`left`) can hold up.  The test command is external:
it may exit, leave such a process, or do nothing at all.

**GuardedCalls** (extends LoopGuard, composes Verify; proofs in
**GuardedCallsProofs**) is who runs the tests: MCP servers on stdio, which read
no request before they have answered the last one (`Call`, `Decide`, `Refuse`,
`Test`), and `scos apply --verify` (`AfterApply`, `Record`), which puts the result
in `tool_events` if it can.  Any of these processes may die.

**EventStream** (implements **EventDelivery**) is the SSE handler with its
cursor and queue, the wire, and a client that reconnects with `Last-Event-ID`;
`CreateTask` and `StartTask` are the two statements of POST /v1/tasks.
`Publish` is `append_event` in any process.  EventDelivery is what the client
may rely on: the rows of its task, each once, in order, all of them in the end.

**Migrations** (proofs in **MigrationsProofs**) is `run_migrations` in every
process that starts: `Check` asks the ledger for the next version, `RunStatement`
executes one statement of its script, `Record` writes the ledger row.  No
transaction encloses them, so each is a step that others come between and a
`Kill` may follow.  A script is the list of its statements that SQLite may refuse
(`Fails`) or that another one depends on (`Execute` says what each does); a
process that came up, or a server of the version before 0008, appends events
(`AppendEvent`).  `late`, `together` and `torn` remember the rows that came
between copy and drop, the versions two processes were in at once, and the ones a
kill left where they cannot be resumed.

**ChatStream** (instances in **MCChatStream**; proofs in **ChatProofs**) is `POST /v1/chat/completions`: the
model is looked up (`Look`), the upstream answers or not (`Unreachable`,
`Head200`, `WaitForBody`, `Body`), a stream's bytes come in chunks of any length
(`Chunk`), break off (`Break`) or end (`Over`), and events go to the client one by
one (`Deliver`, `Close`), who may hang up (`Leave`).  `Interrupt` and `Stop` are
Ctrl-C and `with_graceful_shutdown`.  Text is a sequence of symbols that tells
apart what the line buffer and the decoder do: line ends, blanks, prefixes and
characters of two bytes.

**GraphIndex** (instances in **MCGraphIndex**; proofs in **GraphIndexProofs**) is `scan_project`: the walk, pass
1 (`Stat`), pass 2 (`Read`, `Clean`, `PutSymbols`, `PutCalls`, `PutImports`),
`Begin`/`Drop` for `--force`, and a failure at any point that leaves a part of
the inserts done, while files are edited, removed and created.  `Impact` is the
recursive query.  `owed` remembers which files have a stamp without having been
indexed, and `missed` which calls had no symbol to go to when their file was
indexed, or lost it when the callee's file was indexed again.

**ModelServer** is `launch_server`, `poll_health`, `call_model` and the end of a
`ModelHandle`: `at` says where a launcher is in them, `child` what has become of
its llama-server, `port` where that was told to listen, `polls` how often
`/health` was asked (the deadline of 300 s may come after any poll, a request
takes up to 600 s).  The child is external: it binds its port if nobody has it,
loads, and may exit at any time.  `HealthOk` and `Answer` ask the port and not
the child, as the code does, so the child of another launcher may answer.

**TaskLoop** (composes ModelServer; instances in **MCTaskLoop**; proofs in
**TaskLoopProofs**) is `run_task_loop` from the command line to the row in
`diff_proposals`, one `step` per read or write that somebody else's step may
come before: the profile (`ResolveProfile`), its overrides and permission
(`ApplySettings`), models.yaml (`LoadRegistry`, and `Choose`, which reads it
again if its mtime has moved), the `model_invoked` row (`RecordSelection`), the
launch and the call (`Launch`, `WaitForModel`), the answer, the diff and the
guard (`UseAnswer`), the INSERT (`StoreProposal`).  `has` is what the ask carries
from one step to the next.  Beside asks run `scos serve` and `scos model` processes
(`ServeLaunch`, `ModelLaunch`, `ServeStep`; `scos model` starts a disabled model
too) and a user (`UserEdit`: `scos profile use`, edits of models.yaml).  A file is a set of lines and a diff the sets of lines it removes
and adds; a goal is its task class; `untraced` and `writable` only remember.
`profiles.yaml` and the files of the repository do not change, and every file
can be read as text.  `ReadonlyStoresNothing` and `DestructiveRefused` rest on that:
where a profile is missing the code goes on with default permissions
(`task_loop.rs:106`), and it takes a file it cannot read for an empty one
(`task_loop.rs:151`).

## The runs

| run | bounds | what it shows |
|---|---|---|
| `approval_cli` | CLI + API handler, 1 diff, 2 tokens, 2 key pairs, TTL 1, clock 0..2 | single use, timeliness, traceable failures, decisions that follow an apply, a token file that verifies, and the refinement of ApprovalGrants |
| `approval_servers` | 2 API handlers + 1 MCP call, 2 diffs of 2 projects, clock still | no apply without an approval of that diff, one git child per server |
| `approval_two_clis` | 2 CLI processes, 1 diff | **violated**: two first approvals create two keys |
| `diff_set` | 2 files, 3 creations of one set, 2 calls, 2 edits, 1 fault | members are final, all tokens come first, also for the rows that stay after a rollback, no uncommitted work is lost, Ok means complete in tree and stash |
| `diff_set_rollback` | set of 3 with a clash | **violated**: rollback leaves a created file |
| `guarded_calls` | 2 servers (one that tests), 1 `apply --verify`, budget 2, 4 calls, 1 death in the guard | budget kept, refusals explained by the race, on record unless their INSERTs fail, and the rows true, passed means passed, and every call answered unless a process holds the pipes |
| `event_stream` | 5 rows of 2 tasks, one of them posted, pages of 2, 2 cuts | in order, no gaps, delivery in the end (the refinement of EventDelivery), and the first event of a posted task heard |
| `graph_scan` | 2 files, 3 contents, 2 scans, 2 edits, clock 0..2 | exact symbols, sound edges, and an impact query that finds every caller but those in `missed` |
| `migrations` | 2 processes, 3 starts, 2 kills, 1 old and 1 new event, from nothing or from version 7 | a true ledger, no event lost but `late` ones, failing starts explained |
| `chat_stream` | 1 streamed and 1 whole request, 4 bodies of up to 12 symbols, every split into chunks | lines put together again, errors last, and a Ctrl-C that ends the server unless an upstream is silent |
| `ask` | 1 ask, 1 `scos serve` or `scos model`, 2 ports, 2 health polls, 2 models.yaml, 3 command lines, 4 answers, 2 edits by the user, 1 earlier row of the same second | no orphaned child, every launch on record, the read-only profile, the guard, and an end of every ask |
| `ask_dashes` | the same, with lines that begin with two dashes | **violated**: the guard does not count them |

The bounds are the smallest at which every action fires and the cases the
properties are about occur: a second token for a diff is needed for a token file
that is overwritten and for a patch approved twice; a third process is left out
of `approval_cli` because every race there is between two; two projects are
needed for the binding checks of `validate_token`; two calls of `apply_diff_set`
are needed for a token used before and a stash left behind; creations in the
wrong order, with a diff that has no row and with a diff twice reach each outcome
of `create_diff_set`, and two of them race past the exists check; two servers
are needed for one to read the count of the other, four calls with a budget of two
for refusals that are early and refusals that are not, and one agent is enough, as
two share no counter; a page of two rows makes five rows
span pages; an ask and a server on one port are needed for a stranger's answer;
two edits for a profile that is saved and taken back, a file of four lines (with
`MinOriginal` 4 for the code's 20) for a guard at its threshold; two scans make the second one skip;
two processes and three starts are needed for a race and for a start after a kill,
two kills for a restart that is killed too; each body of `chat_stream` has a line
end, a blank or a character that a cut can fall into.  Deadlock is not checked: a
bounded number of tokens, calls, rows or scans runs out, and no part of the
system waits for another without end (the mutex apart, which every handler
drops as it returns).

**Fairness** is assumed of EventStream, GuardedCalls, TaskLoop and ChatStream.  EventStream: the server's interval ticks, the
runtime flushes what the stream yields, and the client reads and reconnects
(`WF` of `PollRows`, `Send`, `Receive`, `Connect`).  Cuts and failed polls are
bounded, so a connection that lives long enough comes in the end.  Nothing is
assumed of publishing, of posting, of timeouts or of cuts.  GuardedCalls: a process
that is alive goes on (`WF` of a server's guard, of each runner's next step and of
`Record`), and the clock reaches each deadline (`WF` of `Expire`).  Nothing is
assumed of the test command or of what it leaves behind.  TaskLoop: an ask that was started
goes on (`WF` of `AskStep` for each ask), which is what an operating system gives
a process; its two waits, for `/health` and for the answer, end because the HTTP
client has a timeout of 600 s.  Nothing is assumed of llama-server, of `scos
serve` or of the user.  ChatStream: the server writes what is queued, the client reads
it, a stream without more to send is closed, and the server ends once nothing is open
(`WF` of `Deliver`, `Close` and `Stop`); nothing is assumed of the upstream, which
no timeout bounds.

### What the violated runs say

* `cli/src/commands/approve.rs:87`: the key file is tested and written in two
  steps.  With one CLI process, or with servers that only load the key,
  `PersistedTokenVerifies` holds (`approval_cli`); with two it does not, and the
  approval must be repeated.
* `skycode-tools/src/tools/apply.rs:191`: `git reset --hard HEAD` does not remove
  files that earlier members created, so the tree is not as it was.
* `skycode-orchestrator/src/orchestrator/task_loop.rs:217`: `diff_stats` takes
  every line that starts with `---` for a file header, so a removed line that
  begins with two dashes is not counted, and `guard_destructive_diff` lets a
  rewrite pass that deletes most of an SQL or Lua file's comments or a YAML
  document's marks.

Noticed on the way, without a run: a set refused at its second token has used up
the first one (`apply.rs:132` calls the phase free of side effects); `diff_applied`
rows of a rolled-back set stay, and Ok may leave a member without one
(`apply.rs:297`, `apply.rs:322`: a failing clock or INSERT is a warning, where
`docs/protocol.md:145` lists the append); the second identical `diff_apply_failed` is lost
(`apply.rs:344`); two asks of one second share a task id (`ask.rs:46`;
`docs/dogfood-checklist.md:56` counts on distinct ones); `/health` may be answered
by another launcher's server, and the ask then talks to that; the guard looks at
the first affected file only, so a patch that names another file, or touches
several, is not judged file by file; `scos profile use readonly` holds for the
project `default` only, not while the row cannot be read, and not if
`profiles.yaml` lacks the profile; a model named by a profile is started even if
its entry is disabled; a rewrite is diffed against the file as it is after the
model's answer (`task_loop.rs:151`), so it reverts what the user typed meanwhile,
and `base_blob_hashes_json`, which would tell, is stored empty; `run_verify` joins
its reading threads without a deadline (`verify.rs:94`), so tests that exit in time and
leave a process with their pipes go beyond the "Hard timeout" of
`docs/ROADMAP.md:364` and keep an MCP server on stdio from its next request - the
model has it as `HeldBack`, and `CallsAnswered` says that there is no other way;
when `apply --verify` of one diff is repeated, a row with an outcome that is
already there is dropped, so the last row need not be the last result;
a scan that failed after pass 1 makes later scans skip files it
never indexed (`indexer.rs:623`).

Loop guard: `docs/ROADMAP.md:863` has a `security.blocked` row "written to
`tool_events` on budget exceeded".  The code drops every failure of that INSERT
(`sky_loop_guard.rs:51`), so a task whose refusals all met a busy database or a
full disk has no row.  And the row's id lacks the agent (`sky_loop_guard.rs:62`), so
two refusals that read one count, of two agents or of two servers, leave one row.
`RefusalsRecorded` therefore speaks of the task and exempts refusals in `unwritten`;
it also says that no row is of a call that was not refused, or names a count that
was within the limit or was never reached.

Code graph: calls are resolved while the graph is being built
(`indexer.rs:704`), so a caller that the walk reaches before its callee has no
edge, a callee's file that is indexed again loses the calls from files that are
skipped as unchanged, and `graph impact`, which "returns all nodes that depend on
the target" (`impact.rs:16`), misses those callers.  `ImpactComplete` says that
it misses no other.  Nodes of files that were deleted stay.

Migrations (`docs/ROADMAP.md:74` calls them idempotent): a kill in 001 after its
first table, or after an `ALTER TABLE` of 005 or 0009, leaves a database on which
every later start fails; so does one between the DROP and the RENAME of 0008.  A
row that a running server appends between the copy and the DROP of 0008 is lost,
and two processes in 0008 at once can lose all of them.

Chat proxy: a character that a chunk boundary cuts becomes U+FFFD (`chat.rs:166`;
`docs/ROADMAP.md:1068` has frames that span chunks reassembled); a streamed reply
is 200 whatever the upstream's status; the incomplete line at an error is dropped,
at the end of the body it is sent; the branch for `openai_compatible` models is
never reached, as `from_yaml` refuses an enabled one; Ctrl-C waits for open
streams, and no upstream call has a timeout.  `InterruptEnds` is about chat requests:
an open `/v1/events` stream whose log stays busy, and a client that does not read,
keep the server from ending too.

Tuning: `scos profile bench` writes the model it resolved by itself into the
`tuning_runs` row and then calls `run_task_loop`, which prefers the profile's
model and knows nothing of `--model` (`cli/src/commands/profile.rs:518-536`).

## The proofs

TLAPS proves for every value of the constants (under the named assumptions of
the modules, which TLC evaluates on each run):

* `TypeCorrect`, `TokensAreSingleUse`, `OnlyAuthorisedUses`,
  `FailuresAreTraceable`, `ApprovalsBoundApplies`, `ServersApplyOneByOne`,
  `DecisionsAreTrue`, `PersistedTokensVerify` and `PipelineKeepsGrants` of
  ApprovalPipeline;
* `SetTypeOK`, `SetNeverChanges`, `SetIsApproved`, `WorkIsKept` and `OkTellsAll` of
  DiffSetApply;
* `GuardTypeCorrect`, `BudgetIsKept`, `RefusalsAreRecorded` and
  `EarlyBlocksAreBounded` of LoopGuard, and `CallsKeepGuard`,
  `TestsWithinBudget`, `TestsDoNotCount` and `PassedIsTrue` of GuardedCalls;
* `SpecTypeOK`, `SpecLedgerTrue`, `SpecEventsKept` and `SpecFailuresExplained` of
  Migrations;
* `StreamTypeCorrect`, `StreamDelivers` and `ClientReadsInOrder` of EventStream;
* `GraphTypes`, `SymbolsAreExact`, `EdgesAreSound` and `ImpactIsComplete` of
  GraphIndex;
* `TaskTypes`, `HandlesOwnChildren`, `LaunchesAreTraced`, `ReadonlyIsKept` and
  `GuardRefuses` of TaskLoop;
* `ChatTypes` and `FramesAreReassembled` of ChatStream.

With these every invariant that a passing run checks is a theorem.

*ApprovalPipeline.*  `SingleUse` is not inductive: it says nothing of callers that
have not launched git yet.  The invariant is in two layers.  `TypeInv` adds to
`TypeOK` that a caller's locals have the types its place in the code needs and
that a caller that is idle holds no mutex.  `PayInv` adds to it: whoever is past
the checks works with a token minted for its diff and in time (`LocalAuth`); of
the callers past `Consume` no two work with the same token (`Exclusive`); and a
token that has paid for a launch has a row in `approval_tokens_used`, while a
caller about to launch has a token that has paid for none (`Paid`).  Each action
keeps each layer, one step of the proof per action; single use, authorised uses
and traceable failures are parts of `PayInv` or follow from it, and the
refinement takes each action to a step of ApprovalGrants or to a stutter.
Four more invariants stand on these.  `CountInv`: a patch in the work tree, or a
child that may still put it there, was paid for by a token of its diff, so both
together are no more than the tokens (`AppliesWithinApprovals`).  `LockInv`: who
is in git on a server holds its mutex (`GitSerialPerServer`).  `MemoryInv`: who is
about to write a decision saw its patch land (`DecisionsFollowApply`).  `KeyInv`:
the key file, the locals of whoever signs and the registered key agree; it
is kept only if nobody makes a second key, so `PersistedTokensVerify` has the
hypothesis that a key exists at the start or that only one process is a CLI
(`OneCli`), and `approval_two_clis` shows that it needs one.

*DiffSetApply.*  `RowsInv` and `MembersInv` say what the transaction of
`create_diff_set` leaves at each of its points, and with `OrderedLists`, that the
rows in order of their position name each member once, give
`MembershipFrozen`.  `PaidInv` says of which members the tokens are consumed
at each phase's place in the list, and `EventsInv` that a `diff_applied` row names a
token consumed for its diff in a set whose members all had theirs; `WholeSetApproved`
is the two.  The second needs the membership to be frozen and tokens to stay spent,
as the row is there when the call that wrote it is long over.  For
`UserWorkKept` and `OkIsComplete` the invariant follows the user's changes through
the call: what the stash entry of this call holds (`StashInv`), where each change
is at each phase (`WorkInv`), what the tree has become file by file as the
patches land (`GoalInv`) and what an Ok that has been returned has seen (`DoneInv`).
The proof corrected a property: `OkIsComplete` used to ask that every file a
patch names differs at the end, which fails for a set that changes a file and
changes it back; a patch has landed when the file is what the patches make of it
in order, and TLC confirmed the counterexample to the old form.

*LoopGuard.*  `BudgetKept` follows from a count: calls that ran and calls that
still have to read were all counted, and a call only goes ahead on a count
within the limit.  For `EarlyBlocksBounded` the count is exact (`Accounted`): each
call that was counted ran, was refused, ended in the guard or is still in it, and of
the last kind each server has one at most.  `RefusalsRecorded` is inductive with
`RefusalInv`: who is about to refuse has read a count past the limit that was
reached, and the refusals in `unwritten` are some of the refusals.

*GuardedCalls.*  Each step of the composition is a step of LoopGuard or leaves its
variables alone (`GuardStep`), so the composition implements the guard
(`CallsKeepGuard`) and what is proved of the guard holds with the tests beside it.
`PassedMeansPassed` becomes inductive with `Ended`: a runner joins the threads only
after the command has exited by itself, and a row is written by a command that is
done and starts nothing more.

*Migrations.*  The invariant says of each process at a statement what the
statements before it left (`Standing`), and of the versions before its own that
they are in the ledger (`Ordered`); for 0008 (`Safe`), and unless two
processes were in it at once, where the events are at each of its ten statements:
in the old table, in both, in the copy, in the renamed one.  Failing statements
are then the ones that met a table or a column that a kill or another process left.

*EventStream.*  The refinement needs that what the client has, what is on the
wire, what is queued and the cursor follow one another without a gap
(`Continues`, in `IInv`); with it `Receive` is a
`Deliver` of the abstract stream and everything else a `Publish` or a stutter.
`InOrderNoGaps` is proved of EventDelivery and carried over.

*GraphIndex.*  The invariant (`ContentInv`) says what the graph holds of each
file, settled or not: a file whose stamp is trusted was indexed from the text
it has (`Trusted`), its symbols are those the text declares and no others
(`Declared`, `Right`), each call the text makes has its edge or is in `missed`
(`HasCalls`), a file in the middle of being indexed has exactly the rows its
phase has left (`At`, `NoRows`).  `EdgesSound` had to be made stronger to be
inductive: it asks that the file an edge starts in is settled, and nothing of the
file it ends in.  `Impact` is a recursive function, and the proof of
`ImpactComplete` needs of it only one unfolding per caller.

*TaskLoop.*  `ChildrenFollowHandles` becomes inductive when it says exactly which
places go with a child that is there (`Handles`); it needs nothing of the asks, as
each step of the composition is one action of one launcher or none
(`OneServerAction`).  `LaunchesTraced` needs the row from the step before the
launch on (`Traced`).  `ReadonlyStoresNothing` needs, of each ask whose settings
the saved profile decides, that it was allowed to write or is about to be told
that it may not (`MayWrite`).  For the guard the proof counts the lines of a diff
of one file (`StatsOfOneFile`); `GuardRefuses` assumes `DashLines = {}`, which
`ask_dashes` shows to be needed, and nothing of `PlusLines`, since lines it does
not count as added only make the guard stricter.  `TypeOK` says for each step what
an ask carries to the next, so it is inductive but for two facts of no step
(`TypeInv`): an ask that runs has the second it started in for its task id, and
one that polls has polls left.  Its proof found that an ask with a profile nobody
knows runs with `local-coder`, which is in no models.yaml of the instance
(`ModelNames` now has it).

*ChatStream.*  The invariant says that there is a text `d`, in part decoded
otherwise than the bytes as a whole, whose lines were sent and whose rest is in the
buffer (`Decoded`).  It stands on lemmas about texts of any length: `LinesConcat`,
that the lines of a text do not depend on where it is cut if the rest is carried
over; `LossyConcat`, that decoding in parts is decoding the whole unless the first
part ends inside a character; and `WideDecides`, that two texts which are one and
the same byte by byte (`Wide`) make the same events.  These are proved by induction,
which the provers have no rule for: `FromZero` and `FromEmpty` state it with a set
in place of a predicate, from the well-foundedness of `<`, and each lemma gives the
set of texts it holds of.  The proof found the CASE of `Lossy` to have two arms
that held at once, of which TLC took the first; its arms now exclude each other.
`Reassembled` also says more than it did: where a character was cut it used to
compare the ASCII characters of an event only and now each byte's place.

The assumptions are on the constants: finite sets of callers, sets and texts of
the right type, `None` in none of them, bounds that are numbers.  The ones a
proof asked for are `SetAssumption` (a patch is an entry for a file),
`GraphAssumption` (the same of names) and `TaskLoopAssumption` (command lines are not
`None`, a models.yaml is a sequence of entries).

Left to TLC, as neither fairness nor ENABLED is within the prover's reach: the
liveness properties `StartHeard`, the fair part of `DeliveryKept`,
`CallsAnswered`, `AsksEnd` and `InterruptEnds`.  The runs that expect a violation
have no theorem, of course.

## What is not modelled, and the plan

In this order:

1. ApprovalPipeline, ApprovalGrants, ApprovalProofs - done.
2. DiffSetApply, DiffSetProofs - done.
3. LoopGuard - done (proofs with 7).
4. EventStream, EventDelivery, EventStreamProofs - done.
5. GraphIndex, GraphIndexProofs - done.
6. ModelServer, TaskLoop, TaskLoopProofs - done.
7. Verify, GuardedCalls, GuardedCallsProofs - done.
8. Migrations, MigrationsProofs - done.
9. ChatStream, ChatProofs - done.
10. The full-text index of memories, and the benchmarks that write `tuning_runs`.

Left out for good: argument parsing, HTTP and MCP framing, redaction, JSON
filtering at the SkyCore boundary, ranking arithmetic, `fit_context` (which nothing but its
tests calls) and hardware probing.  They hold no state that a step of somebody else could disturb.

----------------------------- MODULE EventStream ------------------------------
(***************************************************************************)
(* GET /v1/events: the SSE stream over tool_events, from the table to one  *)
(* client that follows it and reconnects when the stream ends; and POST    *)
(* /v1/tasks, which creates a task and writes the first of its events.     *)
(*                                                                         *)
(* A connection has a cursor and a queue of events that were read from the *)
(* table and not sent yet.  It polls only when the queue is empty, ends    *)
(* after a minute without rows or at a database error, and may be cut at   *)
(* any time with events still queued or on the wire.  Nothing of it        *)
(* outlives the connection: a client resumes with the last id it received. *)
(*                                                                         *)
(* Operators named Slip... are mistakes, as in ApprovalPipeline.           *)
(***************************************************************************)
EXTENDS Naturals, Sequences

CONSTANTS
    Tasks,        \* values of the task_id column
    Posted,       \* the tasks created through POST /v1/tasks
    Wanted,       \* the task_id parameter: one task, or all
    After,        \* the `after` parameter
    PollLimit,    \* POLL_LIMIT, 100
    None,         \* no Last-Event-ID yet
    MaxRows,      \* bound on the rows published
    MaxCuts       \* bound on the connections cut or failed

ASSUME StreamAssumption ==
    /\ Wanted \subseteq Tasks /\ Posted \subseteq Tasks
    /\ After \in Nat /\ PollLimit \in Nat \ {0}
    /\ MaxRows \in Nat /\ MaxCuts \in Nat
    /\ None \notin Nat

VARIABLES
    log,          \* the task of each row of tool_events, by rowid
    submitted,    \* submitted_tasks
    accepted,     \* the tasks whose POST was answered with an events_url
    started,      \* the rowid of a task's agent.turn.started, 0 without
    open,         \* the server still writes to the stream
    cursor, pending,  \* the server's EventStreamState
    polled,       \* the connection has polled the table
    wire,         \* rowids sent and not received
    lastId,       \* the client's Last-Event-ID
    got,          \* rowids the client received
    cuts          \* connections cut or failed so far

postVars == <<submitted, accepted, started>>
vars == <<log, postVars, open, cursor, pending, polled, wire, lastId, got, cuts>>

TypeOK ==
    /\ log \in Seq(Tasks)
    /\ submitted \subseteq Posted /\ accepted \subseteq submitted
    /\ started \in [Posted -> Nat]
    /\ open \in BOOLEAN
    /\ polled \in BOOLEAN
    /\ cursor \in Nat
    /\ pending \in Seq(Nat) /\ wire \in Seq(Nat) /\ got \in Seq(Nat)
    /\ lastId \in Nat \cup {None}
    /\ cuts \in 0..MaxCuts

Init ==
    /\ log = <<>>
    /\ submitted = {} /\ accepted = {} /\ started = [k \in Posted |-> 0]
    /\ open = FALSE /\ polled = FALSE
    /\ cursor = After
    /\ pending = <<>> /\ wire = <<>> /\ got = <<>>
    /\ lastId = None
    /\ cuts = 0

\* create_task, its first statement: a task of a fresh id.
CreateTask(k) ==
    /\ k \notin submitted
    /\ submitted' = submitted \cup {k}
    /\ UNCHANGED <<log, accepted, started, open, cursor, pending, polled, wire, lastId, got, cuts>>

SlipStartTask(k) ==
    /\ k \in submitted \ accepted
    /\ \/ /\ Len(log) < MaxRows
          /\ log' = Append(log, k)
          /\ started' = [started EXCEPT ![k] = Len(log) + 1]
       \/ UNCHANGED <<log, started>>
    /\ accepted' = accepted \cup {k}
    /\ UNCHANGED <<submitted, open, cursor, pending, polled, wire, lastId, got, cuts>>

\* Its second statement.  If that fails, or the server dies before it, the task
\* stays without an event and without an answer.
StartTask(k) ==
    /\ k \in submitted \ accepted
    /\ Len(log) < MaxRows
    /\ log' = Append(log, k)
    /\ started' = [started EXCEPT ![k] = Len(log) + 1]
    /\ accepted' = accepted \cup {k}
    /\ UNCHANGED <<submitted, open, cursor, pending, polled, wire, lastId, got, cuts>>

\* append_event, in any process: rowids grow, rows are never removed.  Nobody
\* knows the id of a posted task before the answer.
Publish(k) ==
    /\ Len(log) < MaxRows
    /\ k \in Posted => k \in accepted
    /\ log' = Append(log, k)
    /\ UNCHANGED <<postVars, open, cursor, pending, polled, wire, lastId, got, cuts>>

SlipConnect ==
    /\ ~open /\ wire = <<>>
    /\ open' = TRUE /\ polled' = FALSE
    /\ cursor' = lastId
    /\ pending' = <<>>
    /\ UNCHANGED <<log, postVars, wire, lastId, got, cuts>>

\* The client connects again once its stream is at an end: Last-Event-ID, when
\* it has one, overrides the `after` of its URL.
Connect ==
    /\ ~open /\ wire = <<>>
    /\ open' = TRUE /\ polled' = FALSE
    /\ cursor' = IF lastId = None THEN After ELSE lastId
    /\ pending' = <<>>
    /\ UNCHANGED <<log, postVars, wire, lastId, got, cuts>>

\* WHERE rowid > cursor AND task_id = ...
Fresh == {r \in DOMAIN log : r > cursor /\ log[r] \in Wanted}

\* ... ORDER BY rowid ASC LIMIT POLL_LIMIT.
IsPage(page) ==
    /\ \A i, j \in DOMAIN page : i < j => page[i] < page[j]
    /\ LET rows == {page[i] : i \in DOMAIN page}
       IN  /\ rows \subseteq Fresh
           /\ \A r \in Fresh \ rows : Len(page) = PollLimit /\ \A q \in rows : q < r

Pages == UNION {[1..n -> Fresh] : n \in 1..PollLimit}

\* A poll that finds rows: the cursor moves past them before they are sent.
PollRows ==
    /\ open /\ pending = <<>>
    /\ \E page \in Pages :
          /\ IsPage(page)
          /\ pending' = page
          /\ cursor' = page[Len(page)]
    /\ polled' = TRUE
    /\ UNCHANGED <<log, postVars, open, wire, lastId, got, cuts>>

\* The first poll of a connection that finds nothing.
PollNone ==
    /\ open /\ pending = <<>> /\ Fresh = {} /\ ~polled
    /\ polled' = TRUE
    /\ UNCHANGED <<log, postVars, open, cursor, pending, wire, lastId, got, cuts>>

\* A minute after the last poll that found rows, or after the start, the stream
\* ends.  The test comes before a poll, so rows may be waiting; a new connection
\* always polls once.
Timeout ==
    /\ open /\ pending = <<>> /\ polled
    /\ open' = FALSE
    /\ UNCHANGED <<log, postVars, cursor, pending, polled, wire, lastId, got, cuts>>

\* A poll that fails: the stream ends too.
PollFails ==
    /\ open /\ pending = <<>>
    /\ cuts < MaxCuts /\ cuts' = cuts + 1
    /\ open' = FALSE
    /\ UNCHANGED <<log, postVars, cursor, pending, polled, wire, lastId, got>>

Send ==
    /\ open /\ pending # <<>>
    /\ wire' = Append(wire, Head(pending))
    /\ pending' = Tail(pending)
    /\ UNCHANGED <<log, postVars, open, cursor, polled, lastId, got, cuts>>

SlipReceive ==
    /\ wire # <<>>
    /\ got' = Append(got, Head(wire))
    /\ wire' = Tail(wire)
    /\ UNCHANGED <<log, postVars, open, cursor, pending, polled, lastId, cuts>>

\* The client takes an event and remembers its id.
Receive ==
    /\ wire # <<>>
    /\ got' = Append(got, Head(wire))
    /\ lastId' = Head(wire)
    /\ wire' = Tail(wire)
    /\ UNCHANGED <<log, postVars, open, cursor, pending, polled, cuts>>

\* The network or the server process goes: what was queued or sent is lost.
Cut ==
    /\ open \/ wire # <<>>
    /\ cuts < MaxCuts /\ cuts' = cuts + 1
    /\ open' = FALSE
    /\ pending' = <<>> /\ wire' = <<>>
    /\ UNCHANGED <<log, postVars, cursor, polled, lastId, got>>

Next ==
    \/ \E k \in Tasks : Publish(k)
    \/ \E k \in Posted : CreateTask(k) \/ StartTask(k)
    \/ Connect \/ PollRows \/ PollNone \/ Timeout \/ PollFails \/ Send \/ Receive \/ Cut

\* The interval ticks while the connection lives, the runtime flushes what the
\* stream yields, and the client reads and reconnects.
Fairness == WF_vars(Connect) /\ WF_vars(PollRows) /\ WF_vars(Send) /\ WF_vars(Receive)

Spec == Init /\ [][Next]_vars /\ Fairness

-----------------------------------------------------------------------------
(* Properties.                                                             *)

Delivery == INSTANCE EventDelivery

\* "agent.turn.started event appears in GET /v1/events stream after POST"
\* (ROADMAP): a task that was accepted has that event, as its first, and a
\* client that follows the task from before it gets it.
StartHeard ==
    \A k \in Posted \cap Wanted :
        k \in accepted ~>
            /\ started[k] # 0 /\ \A r \in DOMAIN log : log[r] = k => r >= started[k]
            /\ started[k] > After => started[k] \in Delivery!Received

\* The stream implements EventDelivery: over any number of connections the client
\* gets the rows of its task once, in order, without gaps and, as connections are
\* cut only finitely often, all of them in the end.
DeliveryKept == Delivery!Spec
=============================================================================

----------------------------- MODULE EventDelivery ----------------------------
(***************************************************************************)
(* What GET /v1/events promises a client that follows one task: the rows   *)
(* of tool_events after its start, each once, in order, and all of them in *)
(* the end, whatever connections are lost on the way.                      *)
(***************************************************************************)
EXTENDS Naturals, Sequences

CONSTANTS Tasks,    \* values of the task_id column
          Wanted,   \* the tasks the client asked for
          After     \* the row it asked to start after

VARIABLES log,      \* the task of each row of tool_events, by rowid
          got       \* the rowids the client received

vars == <<log, got>>

Reached == IF got = <<>> THEN After ELSE got[Len(got)]

\* The rows the client still has to get.
Due == {r \in DOMAIN log : r > Reached /\ log[r] \in Wanted}

Init == log = <<>> /\ got = <<>>

Publish == \E k \in Tasks : log' = Append(log, k) /\ UNCHANGED got

Deliver ==
    /\ \E r \in Due : (\A q \in Due : r <= q) /\ got' = Append(got, r)
    /\ UNCHANGED log

Next == Publish \/ Deliver

Spec == Init /\ [][Next]_vars /\ WF_vars(Deliver)

-----------------------------------------------------------------------------
(* What it comes to: the rows of the wanted tasks, in the order of the     *)
(* table, without duplicates and without gaps.                             *)

Received == {got[i] : i \in DOMAIN got}

InOrderNoGaps ==
    /\ \A i, j \in DOMAIN got : i < j => got[i] < got[j]
    /\ \A r \in DOMAIN log :
          After < r /\ log[r] \in Wanted /\ (\E q \in Received : r <= q) => r \in Received
    /\ \A q \in Received : q > After /\ log[q] \in Wanted
=============================================================================

---------------------------- MODULE ApprovalGrants ----------------------------
(***************************************************************************)
(* What the approval pipeline promises: every `git apply` the system       *)
(* launches is paid for by one approval of that very diff, and an approval *)
(* pays for at most one launch, whatever the callers and crashes do.       *)
(***************************************************************************)
EXTENDS Naturals

CONSTANTS Tokens,   \* approvals
          Diffs,    \* what is approved
          NoDiff    \* the approval was not given yet

VARIABLES granted,  \* the diff each approval is for
          spent,    \* approvals that were accepted once
          paid,     \* launches each approval paid for
          flight,   \* launches whose outcome is open
          tree      \* how often each diff was put in the work tree

vars == <<granted, spent, paid, flight, tree>>

Init ==
    /\ granted = [t \in Tokens |-> NoDiff]
    /\ spent = {}
    /\ paid = [t \in Tokens |-> 0]
    /\ flight = {}
    /\ tree = [d \in Diffs |-> 0]

\* Somebody approves a diff.
Grant(t, d) ==
    /\ granted[t] = NoDiff
    /\ granted' = [granted EXCEPT ![t] = d]
    /\ UNCHANGED <<spent, paid, flight, tree>>

\* The approval is accepted, once and for all.
Spend(t) ==
    /\ granted[t] # NoDiff
    /\ t \notin spent
    /\ spent' = spent \cup {t}
    /\ UNCHANGED <<granted, paid, flight, tree>>

Launch(t) ==
    /\ t \in spent
    /\ paid[t] = 0
    /\ paid' = [paid EXCEPT ![t] = 1]
    /\ flight' = flight \cup {t}
    /\ UNCHANGED <<granted, spent, tree>>

Land(t) ==
    /\ t \in flight
    /\ flight' = flight \ {t}
    /\ tree' = [tree EXCEPT ![granted[t]] = @ + 1]
    /\ UNCHANGED <<granted, spent, paid>>

\* Launches that change nothing: refused patches, callers that died.
Fail(S) ==
    /\ flight' = flight \ S
    /\ UNCHANGED <<granted, spent, paid, tree>>

Next ==
    \/ \E t \in Tokens, d \in Diffs : Grant(t, d)
    \/ \E t \in Tokens : Spend(t) \/ Launch(t) \/ Land(t)
    \/ \E S \in SUBSET Tokens : Fail(S)

Spec == Init /\ [][Next]_vars
=============================================================================

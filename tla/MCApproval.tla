------------------------------ MODULE MCApproval ------------------------------
(* Small instances of ApprovalPipeline for TLC.                            *)
EXTENDS ApprovalPipeline, TLC

CONSTANTS cli1, cli2, api1, api2, mcp1, d1, d2, coder, t1, pA, pB

ModeAll == [p \in Procs |-> CASE p \in {cli1, cli2} -> "cli" [] p = mcp1 -> "mcp" [] OTHER -> "api"]
ProjectOfAll == d1 :> pA @@ d2 :> pB
TaskOfAll == [d \in Diffs |-> t1]

\* Fresh token ids are interchangeable, and so are fresh key pairs.
Symmetry == Permutations(Tokens)
FreshSymmetry == Permutations(Tokens) \cup Permutations(Keys)
=============================================================================

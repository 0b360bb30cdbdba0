---------------------------- MODULE MCDiffSetApply ----------------------------
(* A repository with one committed file and room for a new one; a set that *)
(* creates the new file and then changes the committed one; and a set whose*)
(* last two members change the same lines, so that only the first fits.    *)
EXTENDS DiffSetApply, TLC

CONSTANTS old, new, v0, v1, v2, create, change, clash, lost, x1, x2, x3, y2, gone, proj

HeadFiles  == old :> v0 @@ new :> Absent
Patches    == create :> (new :> [from |-> Absent, to |-> v1])
              @@ change :> (old :> [from |-> v0, to |-> v1])
              @@ clash :> (old :> [from |-> v0, to |-> v2])
At(d, n) == [diff |-> d, ord |-> n]

\* Out of order; with a diff that has no row; with a diff twice.
ThreeRequests == {<<At(change, 2), At(create, 1)>>, <<At(lost, 1)>>,
                  <<At(change, 1), At(change, 2)>>}
OneRequest  == {<<At(create, 1), At(change, 2), At(clash, 3)>>}
OneProject == [d \in Diffs |-> proj]
TokenDiffs == [t \in Tokens |-> CASE t = x1 -> create [] t = x3 -> clash [] OTHER -> change]
=============================================================================

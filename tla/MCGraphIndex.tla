----------------------------- MODULE MCGraphIndex -----------------------------
(* Two files.  Contents: `lib` defines run; `both` defines run and main,   *)
(* which calls run; `user`, as long as `lib`, defines main, which calls    *)
(* run, and imports the other file.                                        *)
EXTENDS GraphIndex, TLC

CONSTANTS a, b, main, run, lib, both, user

Paths      == a :> 1 @@ b :> 2
DefsOf     == lib :> {run} @@ both :> {main, run} @@ user :> {main}
CallsOf    == lib :> {} @@ both :> {<<main, run>>} @@ user :> {<<main, run>>}
ImportsOf  == lib :> {} @@ both :> {} @@ user :> {a, b}
SizeOf     == lib :> 1 @@ both :> 2 @@ user :> 1
=============================================================================

------------------------------ MODULE MCTaskLoop ------------------------------
(* An ask and a server.  models.yaml has the two local models on one port,  *)
(* or a remote adapter, the fast model and a disabled one, which only       *)
(* `scos model` starts.  Another ask of the same second has ended.  File f1 *)
(* has four lines, f2 is new.  Three answers keep one line of f1, one of    *)
(* them under the name of f2; a fourth creates f2.                          *)
EXTENDS TaskLoop, TLC

CONSTANTS a, s, f1, f2, x1, x2, x3, x4, y

Entry(name, runtime, on, n) ==
    [name |-> name, runtime |-> runtime, enabled |-> on, port |-> n]

Coder == Entry("local-coder", "local_gguf", TRUE, 1)
Fast(n) == Entry("local-coder-fast", "local_gguf", TRUE, n)

OnePort  == <<Coder, Fast(1)>>
OnlyFast == <<Entry("remote-adapter", "openai_compatible", FALSE, None), Fast(2),
              Entry("other-coder", "local_gguf", FALSE, 1)>>

BothProfiles ==
    "precise" :> [model |-> "local-coder", permissions |-> "default"]
    @@ "readonly" :> [model |-> "local-coder-fast", permissions |-> "readonly"]

Rewrite(file, lines) == [rewrite |-> TRUE, file |-> file, content |-> lines]
Patch(file, of, gone) ==
    [rewrite |-> FALSE, file |-> file,
     edits |-> [h \in Files |-> IF h = of THEN [removed |-> gone, added |-> {}] ELSE NoEdit]]

Answers == {Rewrite(f1, {x1, y}), Rewrite(f1, {x1}), Patch(f2, f1, {x2, x3, x4}),
            Rewrite(f2, {y})}

Arg(name, class, own, destructive) ==
    [profile |-> name, class |-> class, own |-> own, destructive |-> destructive]

CommandLines == {Arg("precise", "CodeEdit", TRUE, FALSE),
                 Arg("precise", "ShortAnswer", FALSE, TRUE),
                 Arg("readonly", "CodeEdit", TRUE, FALSE)}
OneRow == {<<1, "local-coder">>}
TwoRegistries == {OnePort, OnlyFast}

FourLines == f1 :> {x1, x2, x3, x4} @@ f2 :> None
=============================================================================

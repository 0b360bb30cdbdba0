------------------------------ MODULE GraphIndex ------------------------------
(***************************************************************************)
(* `scos scan` and `scos graph impact`: the code graph kept in graph_nodes *)
(* and graph_edges, rebuilt file by file from a directory the user goes on *)
(* editing.                                                                *)
(*                                                                         *)
(* A scan walks the directory, then writes the mtime and size of every     *)
(* file (pass 1), then reads and indexes the files whose mtime or size was *)
(* not the one stored (pass 2).  Every statement commits by itself, so a   *)
(* scan that fails or is killed leaves all it did so far.  Scans are taken *)
(* one at a time: the CLI is their only caller.                            *)
(*                                                                         *)
(* A node of the graph is <<file, symbol>>, and <<file, Self>> stands for  *)
(* the file; import nodes, which nothing points to but their file, are left*)
(* out.  Operators named Slip... are mistakes, as in ApprovalPipeline.     *)
(***************************************************************************)
EXTENDS Naturals, FiniteSets

CONSTANTS
    Files,
    PathOrder,    \* the order of the path column
    Names,        \* names of symbols
    Self,
    Versions,     \* contents a file may have
    Defs,         \* Defs[v]: the symbols that content v defines
    Calls,        \* Calls[v]: pairs (symbol of v, name it calls)
    Imports,      \* Imports[v]: the files whose stem an import of v names
    Size,         \* Size[v]: its length
    None,
    MaxClock,     \* bound on the clock, in seconds
    MaxScans,     \* bound on the scans
    MaxEdits      \* bound on the edits

ASSUME GraphAssumption ==
    /\ PathOrder \in [Files -> Nat]
    /\ \A f, g \in Files : PathOrder[f] = PathOrder[g] => f = g
    /\ Defs \in [Versions -> SUBSET Names]
    /\ \A v \in Versions : Calls[v] \subseteq Defs[v] \X Names /\ Imports[v] \subseteq Files
    /\ Size \in [Versions -> Nat]
    /\ Self \notin Names /\ None \notin Files \cup [at : Nat, size : Nat]
    /\ MaxClock \in Nat /\ MaxScans \in Nat /\ MaxEdits \in Nat

VARIABLES
    clock,
    disk,         \* what each file holds, and since when; None if there is no file
    stamp,        \* the mtime and size in each file's node; None if it has no node
    symbols,      \* nodes of kind symbol
    edges,        \* rows of graph_edges
    pc,           \* where the scan is
    walked,       \* file_records: the files the walk found
    skip,         \* incremental_skip
    todo,         \* files the current pass has not taken yet
    cur, text,    \* the file being indexed, and what was read of it
    scans, edits, \* scans and edits so far
    owed,         \* files that a scan set out to index, or deleted the edges of,
                  \* and that no scan has indexed since
    statAt,       \* when pass 1 took each stamp
    missed        \* calls whose name had no symbol when they were put, or whose edge
                  \* went when the file of the symbol was indexed again

graphVars == <<stamp, symbols, edges>>
scanVars  == <<pc, walked, skip, todo, cur, text>>
capVars   == <<scans, edits>>
pastVars  == <<owed, statAt, missed>>
vars      == <<clock, disk, graphVars, scanVars, capVars, pastVars>>

Nodes == Files \X (Names \cup {Self})
Kinds == {"contains", "calls", "imports"}
FileNode(f) == <<f, Self>>
Edge(a, b, kind) == [from |-> a, to |-> b, kind |-> kind]
Live(f) == IF stamp[f] = None THEN {} ELSE {FileNode(f)}
AllNodes == symbols \cup UNION {Live(f) : f \in Files}

\* Edges end in nodes, as the foreign keys demand.
TypeOK ==
    /\ clock \in 0..MaxClock /\ scans \in 0..MaxScans /\ edits \in 0..MaxEdits
    /\ disk \in [Files -> [v : Versions, at : 0..MaxClock] \cup {None}]
    /\ stamp \in [Files -> [at : 0..MaxClock, size : Nat] \cup {None}]
    /\ symbols \subseteq Files \X Names
    /\ edges \subseteq [from : AllNodes, to : AllNodes, kind : Kinds]
    /\ pc \in {"idle", "ok", "drop", "walk", "stat", "read", "clean", "symbols", "calls", "imports"}
    /\ walked \subseteq Files /\ skip \subseteq walked /\ todo \subseteq walked
    /\ cur \in Files \cup {None} /\ text \in Versions \cup {None}
    /\ owed \subseteq Files /\ statAt \in [Files -> 0..MaxClock]
    /\ missed \subseteq Files \X (Names \X Names)

Init ==
    /\ clock = 0 /\ scans = 0 /\ edits = 0
    /\ disk \in [Files -> [v : Versions, at : {0}] \cup {None}]
    /\ stamp = [f \in Files |-> None] /\ symbols = {} /\ edges = {}
    /\ pc = "idle" /\ walked = {} /\ skip = {} /\ todo = {} /\ cur = None /\ text = None
    /\ owed = {} /\ statAt = [f \in Files |-> 0] /\ missed = {}

Running == pc \notin {"idle", "ok"}
Meta(f) == [at |-> disk[f].at, size |-> Size[disk[f].v]]

\* The scan returns, or its process ends, with what it has written so far.
Abort ==
    /\ pc' = "idle" /\ walked' = {} /\ skip' = {} /\ todo' = {}
    /\ cur' = None /\ text' = None

-----------------------------------------------------------------------------
(* The user.                                                               *)

Tick ==
    /\ clock < MaxClock /\ clock' = clock + 1
    /\ UNCHANGED <<disk, graphVars, scanVars, capVars, pastVars>>

\* A file is written, or removed (v = None).
Edit(f, v) ==
    /\ edits < MaxEdits /\ edits' = edits + 1
    /\ disk' = [disk EXCEPT ![f] = IF v = None THEN None ELSE [v |-> v, at |-> clock]]
    /\ disk' # disk
    /\ UNCHANGED <<clock, graphVars, scanVars, scans, pastVars>>

-----------------------------------------------------------------------------
(* run_scan and scan_project.                                              *)

\* --force first deletes all edges of the project, then all its nodes.
Begin(force) ==
    /\ ~Running /\ scans < MaxScans
    /\ scans' = scans + 1
    /\ IF force
       THEN /\ pc' = "drop"
            /\ edges' = {}
            /\ owed' = {f \in Files : stamp[f] # None}
       ELSE pc' = "walk" /\ UNCHANGED <<edges, owed>>
    /\ UNCHANGED <<clock, disk, stamp, symbols, walked, skip, todo, cur, text, edits, statAt,
                   missed>>

Drop ==
    /\ pc = "drop"
    /\ stamp' = [f \in Files |-> None] /\ symbols' = {} /\ owed' = {} /\ missed' = {}
    /\ pc' = "walk"
    /\ UNCHANGED <<clock, disk, edges, walked, skip, todo, cur, text, capVars, statAt>>

Walk ==
    /\ pc = "walk"
    /\ walked' = {f \in Files : disk[f] # None}
    /\ todo' = walked'
    /\ pc' = "stat"
    /\ UNCHANGED <<clock, disk, graphVars, skip, cur, text, capVars, pastVars>>

SlipUnchanged(f) == stamp[f] # None /\ stamp[f].size = Meta(f).size

\* should_skip_incremental.
Unchanged(f) == stamp[f] # None /\ stamp[f] = Meta(f)

SlipStat(f) ==
    /\ pc = "stat" /\ f \in todo /\ disk[f] # None
    /\ skip' = IF Unchanged(f) THEN skip \cup {f} ELSE skip
    /\ owed' = IF Unchanged(f) THEN owed ELSE owed \cup {f}
    /\ todo' = todo \ {f}
    /\ UNCHANGED <<clock, disk, graphVars, pc, walked, cur, text, capVars, statAt, missed>>

\* Pass 1, one file: the stored stamp is compared, then replaced.
Stat(f) ==
    /\ pc = "stat" /\ f \in todo /\ disk[f] # None
    /\ skip' = IF Unchanged(f) THEN skip \cup {f} ELSE skip
    /\ owed' = IF Unchanged(f) THEN owed ELSE owed \cup {f}
    /\ stamp' = [stamp EXCEPT ![f] = Meta(f)]
    /\ statAt' = IF stamp[f] = Meta(f) THEN statAt ELSE [statAt EXCEPT ![f] = clock]
    /\ todo' = todo \ {f}
    /\ UNCHANGED <<clock, disk, symbols, edges, pc, walked, cur, text, capVars, missed>>

\* Pass 2 takes the files pass 1 did not skip.
StatsDone ==
    /\ pc = "stat" /\ todo = {}
    /\ todo' = walked \ skip
    /\ pc' = "read"
    /\ UNCHANGED <<clock, disk, graphVars, walked, skip, cur, text, capVars, pastVars>>

\* The walk's order is the directory's: any.
Read(f) ==
    /\ pc = "read" /\ f \in todo /\ disk[f] # None
    /\ cur' = f /\ text' = disk[f].v
    /\ todo' = todo \ {f}
    /\ pc' = "clean"
    /\ UNCHANGED <<clock, disk, graphVars, walked, skip, capVars, pastVars>>

\* A file that is gone fails the scan: fs::metadata in pass 1, the read in pass 2.
Missing(f) ==
    /\ pc \in {"stat", "read"} /\ f \in todo /\ disk[f] = None
    /\ Abort
    /\ UNCHANGED <<clock, disk, graphVars, capVars, pastVars>>

SlipClean ==
    /\ pc = "clean"
    /\ symbols' = {s \in symbols : s[1] # cur}
    /\ edges' = {e \in edges : /\ e.from[1] # cur \/ e.kind = "imports"
                               /\ e.to[1] # cur \/ e.to = FileNode(cur)}
    /\ pc' = "symbols"
    /\ UNCHANGED <<clock, disk, stamp, walked, skip, todo, cur, text, capVars, pastVars>>

\* cleanup_file_subgraph: the file's symbols go, and by hand or by cascade every
\* edge from the file, from its symbols and to its symbols; what points to the
\* file itself stays.
Clean ==
    /\ pc = "clean"
    /\ symbols' = {s \in symbols : s[1] # cur}
    /\ edges' = {e \in edges : e.from[1] # cur /\ (e.to[1] # cur \/ e.to = FileNode(cur))}
    /\ missed' = missed \cup {<<e.from[1], <<e.from[2], e.to[2]>>>> :
                                e \in {x \in edges \ edges' : x.kind = "calls"}}
    /\ pc' = "symbols"
    /\ UNCHANGED <<clock, disk, stamp, walked, skip, todo, cur, text, capVars, owed, statAt>>

\* The group of inserts that follows: all of it, or a part when one fails.
Insert(whole, part, next) ==
    \/ part = whole /\ pc' = next /\ UNCHANGED <<walked, skip, todo, cur, text>>
    \/ part # whole /\ Abort

\* Symbol nodes with their contains edges.
PutSymbols ==
    /\ pc = "symbols"
    /\ \E part \in SUBSET Defs[text] :
          /\ symbols' = symbols \cup {<<cur, n>> : n \in part}
          /\ edges' = edges \cup {Edge(FileNode(cur), <<cur, n>>, "contains") : n \in part}
          /\ Insert(Defs[text], part, "calls")
    /\ UNCHANGED <<clock, disk, stamp, capVars, pastVars>>

\* find_symbol_id_by_name: a symbol of the file itself if there is one,
\* otherwise the first by path.
Found(s, f) ==
    \/ s[1] = f
    \/ \A t \in symbols : t[2] = s[2] => t[1] # f /\ PathOrder[s[1]] <= PathOrder[t[1]]

\* Edges for the calls that find a symbol in the graph as it is now.
PutCalls ==
    /\ pc = "calls"
    /\ LET resolved == {Edge(<<cur, p[1][1]>>, p[2], "calls") :
                           p \in {x \in Calls[text] \X symbols :
                                      x[2][2] = x[1][2] /\ Found(x[2], cur)}}
       IN  \E part \in SUBSET resolved :
              /\ edges' = edges \cup part
              /\ Insert(resolved, part, "imports")
    /\ missed' = {m \in missed : m[1] # cur} \cup
                   {<<cur, c>> : c \in {x \in Calls[text] : x[2] \notin {s[2] : s \in symbols}}}
    /\ UNCHANGED <<clock, disk, stamp, symbols, capVars, owed, statAt>>

\* Edges to the files the walk found under the imported name.
PutImports ==
    /\ pc = "imports"
    /\ edges' = edges \cup {Edge(FileNode(cur), FileNode(g), "imports") :
                               g \in (Imports[text] \cap walked) \ {cur}}
    /\ owed' = owed \ {cur}
    /\ pc' = "read" /\ cur' = None /\ text' = None
    /\ UNCHANGED <<clock, disk, stamp, symbols, walked, skip, todo, capVars, statAt, missed>>

Finish ==
    /\ pc = "read" /\ todo = {}
    /\ pc' = "ok" /\ walked' = {} /\ skip' = {}
    /\ UNCHANGED <<clock, disk, graphVars, todo, cur, text, capVars, pastVars>>

\* SQLITE_BUSY, an unreadable file, a parser error, or the process is killed.
Fail ==
    /\ Running
    /\ Abort
    /\ UNCHANGED <<clock, disk, graphVars, capVars, pastVars>>

Next ==
    \/ Tick
    \/ \E f \in Files, v \in Versions \cup {None} : Edit(f, v)
    \/ \E force \in BOOLEAN : Begin(force)
    \/ Drop \/ Walk \/ StatsDone \/ Clean \/ PutSymbols \/ PutCalls \/ PutImports \/ Finish \/ Fail
    \/ \E f \in Files : Stat(f) \/ Read(f) \/ Missing(f)

Spec == Init /\ [][Next]_vars

-----------------------------------------------------------------------------
(* impact_query: what points to a node by an import or a call, and what    *)
(* points to that by any edge, up to a depth.                              *)

SlipImpact(target, depth) ==   \* without the recursive part
    {e.from : e \in {x \in edges : x.to = target /\ x.kind \in {"imports", "calls"}}}
Impact(target, depth) ==
    LET deps[k \in 1..depth] ==
            IF k = 1
            THEN {e.from : e \in {x \in edges : x.to = target /\ x.kind \in {"imports", "calls"}}}
            ELSE deps[k - 1] \cup {e.from : e \in {x \in edges : x.to \in deps[k - 1]}}
    IN  IF depth = 0 THEN {} ELSE deps[depth]

-----------------------------------------------------------------------------
(* Properties.                                                             *)

\* A scan would pass the file over, and the graph should be right about it:
\* the stamp is the file's, it was first taken in a later second than the last
\* edit (mtime counts in seconds), and the scan that took it got to the file.
Settled(f) ==
    /\ disk[f] # None /\ f \notin owed
    /\ stamp[f] # None /\ stamp[f] = Meta(f)
    /\ disk[f].at < statAt[f]

\* Whatever was edited, created or removed between and during scans, and
\* wherever scans failed: a file the scan passes over has in the graph the
\* symbols it defines, no more and no less.
SymbolsExact ==
    \A f \in Files : Settled(f) => {s[2] : s \in {x \in symbols : x[1] = f}} = Defs[disk[f].v]

\* No stale and no strange edges: an edge from a file that scans pass over is in
\* its text, and a call of a name the file defines itself goes to that symbol,
\* whatever symbols of the name other files have or had.
InText(e, v) ==
    LET f == e.from[1]
    IN  \/ e.kind = "contains" /\ e.from = FileNode(f) /\ e.to[1] = f /\ e.to[2] \in Defs[v]
        \/ /\ e.kind = "calls" /\ <<e.from[2], e.to[2]>> \in Calls[v]
           /\ (e.to[2] \in Defs[v] => e.to[1] = f)
        \/ e.kind = "imports" /\ e.to[1] \in Imports[v]
EdgesSound ==
    \A e \in edges : Settled(e.from[1]) => InText(e, disk[e.from[1]].v)

\* "Returns all nodes that depend on the target node" (impact.rs): whoever calls a
\* symbol, and the file it is in, is among what the symbol affects.  The scan keeps that
\* for each call of a file it passes over but for two kinds, the ones in missed: those
\* indexed before any symbol of the name was, and those to a file indexed again since.
ImpactComplete ==
    \A f \in Files : Settled(f) =>
        \A c \in Calls[disk[f].v] : <<f, c>> \notin missed =>
            \E s \in symbols :
               /\ s[2] = c[2] /\ (c[2] \in Defs[disk[f].v] => s[1] = f)
               /\ {<<f, c[1]>>, FileNode(f)} \subseteq Impact(s, 2)
=============================================================================

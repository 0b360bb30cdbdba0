--------------------------- MODULE GraphIndexProofs ---------------------------
(***************************************************************************)
(* Theorems about GraphIndex for any files, contents, clock, and any number*)
(* of scans and edits.                                                     *)
(*                                                                         *)
(* ControlInv says what a scan has done at each of its labels: what it has *)
(* stamped, what it owes.  ContentInv says what the graph holds of a file  *)
(* that no scan owes anything and that was stamped after its last edit,    *)
(* and, group of inserts by group, of the file being indexed.  A step      *)
(* either keeps such a file and all of its rows, or makes it owed, or makes*)
(* its last edit too recent: from that follow the three safety properties. *)
(***************************************************************************)
EXTENDS GraphIndex, WellFoundedInduction, TLAPS

Indexing == {"clean", "symbols", "calls", "imports"}

Stamped(f) == stamp[f] # None

\* What the scan has done so far.
ControlInv ==
    /\ pc \in {"idle", "ok", "drop", "walk"} => walked = {} /\ skip = {} /\ todo = {}
    /\ pc = "drop" => edges = {}
    /\ pc = "stat" => \A f \in walked \ todo : Stamped(f) /\ f \in skip \cup owed
    /\ pc \in {"read"} \cup Indexing => (\A f \in walked : Stamped(f)) /\ todo \subseteq owed
    /\ pc \in Indexing => /\ cur \in walked \cap owed /\ cur \notin todo
                          /\ text \in Versions
                          /\ disk[cur] # None /\ disk[cur].at < statAt[cur] =>
                                text = disk[cur].v
    /\ \A f \in Files : statAt[f] <= clock
    /\ \A e \in edges : e.kind = "calls" => {e.from, e.to} \subseteq Files \X Names

\* Settled, but for the stamp, which may be an older one: such a file would be owed again.
Trusted(f) ==
    /\ disk[f] # None /\ f \notin owed
    /\ Stamped(f) /\ disk[f].at < statAt[f]

\* The rows of f are those of content v.
HasSymbols(f, v)  == \A n \in Names : <<f, n>> \in symbols <=> n \in Defs[v]
HasContains(f, v) == \A n \in Defs[v] : Edge(FileNode(f), <<f, n>>, "contains") \in edges
OnlyText(f, v)    == \A e \in edges : e.from[1] = f => InText(e, v)
HasCalls(f, v) ==
    \A c \in Calls[v] : <<f, c>> \notin missed =>
        \E s \in symbols : /\ s[2] = c[2] /\ (c[2] \in Defs[v] => s[1] = f)
                           /\ Edge(<<f, c[1]>>, s, "calls") \in edges

Declared(f, v) == HasSymbols(f, v) /\ HasContains(f, v) /\ OnlyText(f, v)
Right(f, v)    == Declared(f, v) /\ HasCalls(f, v)

NoRows(f) == (\A s \in symbols : s[1] # f) /\ (\A e \in edges : e.from[1] # f)

\* The scan is at one of the labels, indexing f from v.
At(labels, f, v) == pc \in labels /\ cur = f /\ text = v

ContentOf(f, v) ==
    /\ Trusted(f) /\ disk[f].v = v => Right(f, v)
    /\ At({"symbols"}, f, v) => NoRows(f)
    /\ At({"calls", "imports"}, f, v) => Declared(f, v)
    /\ At({"imports"}, f, v) => HasCalls(f, v)

ContentInv == \A f \in Files, v \in Versions : ContentOf(f, v)

IInv == TypeOK /\ ControlInv /\ ContentInv

-----------------------------------------------------------------------------
(* The operators of the model.                                             *)

\* The node of a file is no symbol's.
LEMMA FileNodes ==
    ASSUME NEW f \in Files, NEW s \in Files \X Names
    PROVE  FileNode(f) # s /\ FileNode(f)[1] = f /\ s = <<s[1], s[2]>>
  BY GraphAssumption DEF FileNode

\* What a file's metadata is, and that no file's is None.
LEMMA MetaType ==
    ASSUME TypeOK, NEW f \in Files, disk[f] # None
    PROVE  Meta(f) \in [at : 0..MaxClock, size : Nat] /\ Meta(f) # None
  <1>1. disk[f] \in [v : Versions, at : 0..MaxClock]
    BY DEF TypeOK
  <1>2. disk[f].at \in 0..MaxClock /\ Size[disk[f].v] \in Nat
    BY <1>1, GraphAssumption
  <1>3. Meta(f) \in [at : 0..MaxClock, size : Nat]
    BY <1>2 DEF Meta
  <1>4. Meta(f) \in [at : Nat, size : Nat]
    BY <1>2 DEF Meta
  <1> QED
    BY <1>3, <1>4, GraphAssumption

\* A set of numbers that is not empty has a least.
LEMMA Least ==
    ASSUME NEW S, S \subseteq Nat, S # {}
    PROVE  \E m \in S : \A k \in S : m <= k
  <1>1. PICK m \in S : \A k \in S : ~ <<k, m>> \in OpToRel(<, Nat)
    BY NatLessThanWellFounded, WFMin
  <1>2. ASSUME NEW k \in S PROVE m <= k
    <2>1. k \in Nat /\ m \in Nat
      OBVIOUS
    <2>2. ~ k < m
      BY <1>1, <2>1 DEF OpToRel
    <2> QED
      BY <2>1, <2>2
  <1> QED
    BY <1>1, <1>2

\* find_symbol_id_by_name finds a symbol when there is one of the name, and the
\* file's own before any other.
LEMMA SomeFound ==
    ASSUME TypeOK, NEW f \in Files, NEW t \in symbols
    PROVE  \E s \in symbols : s[2] = t[2] /\ Found(s, f)
  <1> DEFINE Same == {s \in symbols : s[2] = t[2]}
             Places == {PathOrder[s[1]] : s \in Same}
  <1>1. CASE \E s \in Same : s[1] = f
    BY <1>1 DEF Found
  <1>2. CASE \A s \in Same : s[1] # f
    <2>1. \A s \in Same : PathOrder[s[1]] \in Nat
      BY GraphAssumption DEF TypeOK
    <2>2. Places \subseteq Nat /\ Places # {}
      BY <2>1
    <2>3. PICK m \in Places : \A k \in Places : m <= k
      BY <2>2, Least
    <2>4. PICK s \in Same : m = PathOrder[s[1]]
      BY <2>3
    <2>5. \A u \in Same : PathOrder[s[1]] <= PathOrder[u[1]]
      BY <2>3, <2>4
    <2> QED
      BY <1>2, <2>4, <2>5 DEF Found
  <1> QED
    BY <1>1, <1>2

LEMMA FoundIsOwn ==
    ASSUME NEW f, NEW n, NEW s \in symbols, Found(s, f), s[2] = n, <<f, n>> \in symbols
    PROVE  s[1] = f
  BY DEF Found

\* Two steps from a symbol: who calls it, and who points to those.
LEMMA ImpactOfTwo ==
    ASSUME NEW s, NEW d \in edges, NEW e \in edges,
           d.to = s, d.kind = "calls", e.to = d.from
    PROVE  {d.from, e.from} \subseteq Impact(s, 2)
  <1> DEFINE A == {x.from : x \in {y \in edges : y.to = s /\ y.kind \in {"imports", "calls"}}}
             B(D) == D \cup {x.from : x \in {y \in edges : y.to \in D}}
             Eq(g) == g = [k \in 1..2 |-> IF k = 1 THEN A ELSE B(g[k - 1])]
             h == [k \in 1..2 |-> IF k = 1 THEN A ELSE B(A)]
             deps == CHOOSE g : Eq(g)
  <1>1. h[1] = A /\ h[2] = B(A)
    OBVIOUS
  <1>2. ASSUME NEW k \in 1..2
        PROVE  (IF k = 1 THEN A ELSE B(A)) = (IF k = 1 THEN A ELSE B(h[k - 1]))
    <2>1. k = 1 \/ k - 1 = 1
      BY SMT
    <2> QED
      BY <1>1, <2>1
  <1>3. Eq(h)
    BY <1>2
  <1>4. Eq(deps)
    BY <1>3
  <1>5. ASSUME NEW g, Eq(g) PROVE g[1] = A /\ g[2] = B(g[1])
    <2>1. 1 \in 1..2 /\ 2 \in 1..2 /\ 2 # 1 /\ 2 - 1 = 1
      OBVIOUS
    <2> HIDE DEF A, B
    <2> QED
      BY <1>5, <2>1, Zenon
  <1>6. deps[1] = A /\ deps[2] = B(deps[1])
    <2> HIDE DEF A, B, deps, Eq
    <2> QED
      BY <1>4, <1>5
  <1>7. Impact(s, 2) = deps[2]
    BY DEF Impact
  <1>8. d.from \in A /\ e.from \in B(A)
    OBVIOUS
  <1> QED
    BY <1>6, <1>7, <1>8

\* Nodes do not go, and edges do not lose theirs, when only more come.
LEMMA MoreNodes ==
    ASSUME TypeOK, symbols \subseteq symbols', \A f \in Files : Stamped(f) => Stamped(f)'
    PROVE  AllNodes \subseteq AllNodes'
  BY DEF AllNodes, Live, Stamped

LEMMA NodesOf ==
    /\ \A s \in symbols : s \in AllNodes
    /\ \A f \in Files : Stamped(f) => FileNode(f) \in AllNodes
  BY DEF AllNodes, Live, Stamped

-----------------------------------------------------------------------------
(* Type correctness, and what a scan has done.                             *)

Labels == {"idle", "ok", "drop", "walk", "stat", "read"} \cup Indexing

\* The scan part of the type invariant.
ScanTypes ==
    /\ pc \in Labels
    /\ walked \subseteq Files /\ skip \subseteq walked /\ todo \subseteq walked
    /\ cur \in Files \cup {None} /\ text \in Versions \cup {None}

\* A scan that ends in the middle leaves its locals behind.
LEMMA AbortTypes ==
    ASSUME Abort
    PROVE  ScanTypes' /\ pc' = "idle" /\ walked' = {} /\ skip' = {} /\ todo' = {}
  BY DEF Abort, ScanTypes, Labels, Indexing

LEMMA InitControl == Init => TypeOK /\ ControlInv
  <1> SUFFICES ASSUME Init PROVE TypeOK /\ ControlInv
    OBVIOUS
  <1>1. disk \in [Files -> [v : Versions, at : 0..MaxClock] \cup {None}]
    BY GraphAssumption DEF Init
  <1>2. TypeOK
    BY <1>1, GraphAssumption DEF Init, TypeOK
  <1>3. ControlInv
    BY DEF Init, ControlInv, Indexing
  <1> QED
    BY <1>2, <1>3

LEMMA TypeStep ==
    IInv /\ [Next]_vars => TypeOK'
  <1> SUFFICES ASSUME TypeOK, ControlInv, ContentInv, [Next]_vars PROVE TypeOK'
    BY DEF IInv
  <1> USE GraphAssumption
  <1>1. CASE Tick
    BY <1>1 DEF Tick, TypeOK, graphVars, scanVars, capVars, pastVars, AllNodes, Live
  <1>2. ASSUME NEW f \in Files, NEW v \in Versions \cup {None}, Edit(f, v) PROVE TypeOK'
    <2>1. disk' \in [Files -> [v : Versions, at : 0..MaxClock] \cup {None}]
      <3>1. (IF v = None THEN None ELSE [v |-> v, at |-> clock])
                \in [v : Versions, at : 0..MaxClock] \cup {None}
        BY DEF TypeOK
      <3> QED
        BY <1>2, <3>1 DEF Edit, TypeOK
    <2>2. edits' \in 0..MaxEdits
      BY <1>2 DEF Edit, TypeOK
    <2> QED
      BY <1>2, <2>1, <2>2 DEF Edit, TypeOK, graphVars, scanVars, pastVars, AllNodes, Live
  <1>3. ASSUME NEW force \in BOOLEAN, Begin(force) PROVE TypeOK'
    <2>1. scans' \in 0..MaxScans
      BY <1>3 DEF Begin, TypeOK
    <2>2. pc' \in Labels /\ owed' \subseteq Files /\ edges' \subseteq edges
      BY <1>3 DEF Begin, TypeOK, Labels
    <2>3. AllNodes' = AllNodes
      BY <1>3 DEF Begin, AllNodes, Live
    <2> QED
      BY <1>3, <2>1, <2>2, <2>3 DEF Begin, TypeOK, Labels, Indexing
  <1>4. CASE Drop
    BY <1>4 DEF Drop, TypeOK, ControlInv, capVars
  <1>5. CASE Walk
    BY <1>5 DEF Walk, TypeOK, ControlInv, graphVars, capVars, pastVars, AllNodes, Live
  <1>6. CASE StatsDone
    BY <1>6 DEF StatsDone, TypeOK, graphVars, capVars, pastVars, AllNodes, Live
  <1>7. CASE Clean
    <2>1. cur \in Files
      BY <1>7 DEF Clean, ControlInv, Indexing, TypeOK
    <2>2. \A s \in symbols : s[1] # cur => s \in AllNodes'
      BY <1>7 DEF Clean, AllNodes
    <2>3. \A f \in Files : Stamped(f) => FileNode(f) \in AllNodes'
      BY <1>7 DEF Clean, AllNodes, Live, Stamped
    <2>4. ASSUME NEW e \in edges' PROVE e \in [from : AllNodes', to : AllNodes', kind : Kinds]
      <3>1. e \in edges /\ e.from[1] # cur /\ (e.to[1] # cur \/ e.to = FileNode(cur))
        BY <1>7 DEF Clean
      <3>2. e \in [from : AllNodes, to : AllNodes, kind : Kinds]
        BY <3>1 DEF TypeOK
      <3>3. ASSUME NEW x \in AllNodes, x[1] # cur \/ x = FileNode(cur) PROVE x \in AllNodes'
        <4>1. x \in symbols \/ \E f \in Files : Stamped(f) /\ x = FileNode(f)
          BY DEF AllNodes, Live, Stamped
        <4>2. CASE x \in symbols
          <5>1. x \in Files \X Names
            BY <4>2 DEF TypeOK
          <5>2. x # FileNode(cur)
            BY <2>1, <5>1, FileNodes
          <5> QED
            BY <2>2, <3>3, <4>2, <5>2
        <4> QED
          BY <2>3, <4>1, <4>2
      <3>4. e.from \in AllNodes' /\ e.to \in AllNodes'
        BY <3>1, <3>2, <3>3
      <3> QED
        BY <3>2, <3>4
    <2>5. missed' \subseteq Files \X (Names \X Names)
      <3>1. ASSUME NEW e \in edges, e.kind = "calls"
            PROVE  <<e.from[1], <<e.from[2], e.to[2]>>>> \in Files \X (Names \X Names)
        BY <3>1 DEF ControlInv
      <3> QED
        BY <1>7, <3>1 DEF Clean, TypeOK
    <2>6. symbols' \subseteq Files \X Names
      BY <1>7 DEF Clean, TypeOK
    <2> QED
      BY <1>7, <2>4, <2>5, <2>6 DEF Clean, TypeOK, capVars
  <1>8. CASE PutSymbols
    <2>1. cur \in Files /\ text \in Versions /\ Stamped(cur)
      BY <1>8 DEF PutSymbols, ControlInv, Indexing, TypeOK
    <2>2. PICK part \in SUBSET Defs[text] :
             /\ symbols' = symbols \cup {<<cur, n>> : n \in part}
             /\ edges' = edges \cup {Edge(FileNode(cur), <<cur, n>>, "contains") : n \in part}
             /\ Insert(Defs[text], part, "calls")
      BY <1>8 DEF PutSymbols
    <2>3. symbols' \subseteq Files \X Names
      BY <2>1, <2>2 DEF TypeOK
    <2>4. AllNodes \subseteq AllNodes'
      BY <1>8, <2>2, MoreNodes DEF PutSymbols, Stamped
    <2>5. FileNode(cur) \in AllNodes' /\ \A n \in part : <<cur, n>> \in AllNodes'
      BY <2>1, <2>2, <2>4, NodesOf DEF AllNodes
    <2>6. edges' \subseteq [from : AllNodes', to : AllNodes', kind : Kinds]
      BY <2>2, <2>4, <2>5 DEF TypeOK, Edge, Kinds
    <2>7. ScanTypes'
      BY <1>8, <2>2, AbortTypes DEF Insert, TypeOK, ScanTypes, Labels, Indexing
    <2> QED
      BY <1>8, <2>3, <2>6, <2>7 DEF PutSymbols, TypeOK, ScanTypes, Labels, Indexing, capVars, pastVars
  <1>9. CASE PutCalls
    <2> DEFINE R == {x \in Calls[text] \X symbols : x[2][2] = x[1][2] /\ Found(x[2], cur)}
               resolved == {Edge(<<cur, p[1][1]>>, p[2], "calls") : p \in R}
    <2>1. cur \in Files /\ text \in Versions /\ pc = "calls"
      BY <1>9 DEF PutCalls, ControlInv, Indexing, TypeOK
    <2>2. PICK part \in SUBSET resolved :
              edges' = edges \cup part /\ Insert(resolved, part, "imports")
      BY <1>9 DEF PutCalls
    <2>3. AllNodes' = AllNodes
      BY <1>9 DEF PutCalls, AllNodes, Live
    <2>4. \A c \in Calls[text] : <<cur, c[1]>> \in symbols /\ c \in Names \X Names
      BY <2>1 DEF ContentInv, ContentOf, At, Declared, HasSymbols
    <2>5. part \subseteq [from : AllNodes, to : AllNodes, kind : Kinds]
      BY <2>4, NodesOf DEF Edge, Kinds
    <2>6. edges' \subseteq [from : AllNodes', to : AllNodes', kind : Kinds]
      BY <2>2, <2>3, <2>5 DEF TypeOK
    <2>7. ScanTypes'
      <3> HIDE DEF resolved
      <3> QED
        BY <1>9, <2>2, AbortTypes DEF PutCalls, Insert, TypeOK, ScanTypes, Labels, Indexing
    <2>8. missed' \subseteq Files \X (Names \X Names)
      BY <1>9, <2>1, <2>4 DEF PutCalls, TypeOK
    <2> QED
      BY <1>9, <2>6, <2>7, <2>8 DEF PutCalls, TypeOK, ScanTypes, Labels, Indexing, capVars
  <1>10. CASE PutImports
    <2>1. cur \in walked /\ (\A f \in walked : Stamped(f) /\ f \in Files)
      BY <1>10 DEF PutImports, ControlInv, Indexing, TypeOK
    <2>2. AllNodes' = AllNodes
      BY <1>10 DEF PutImports, AllNodes, Live
    <2>3. edges' \subseteq [from : AllNodes', to : AllNodes', kind : Kinds]
      BY <1>10, <2>1, <2>2, NodesOf DEF PutImports, TypeOK, Edge, Kinds
    <2> QED
      BY <1>10, <2>3 DEF PutImports, TypeOK, capVars
  <1>11. CASE Finish
    BY <1>11 DEF Finish, TypeOK, graphVars, capVars, pastVars, AllNodes, Live
  <1>12. CASE Fail
    <2>1. ScanTypes'
      BY <1>12, AbortTypes DEF Fail
    <2> QED
      BY <1>12, <2>1 DEF Fail, TypeOK, ScanTypes, Labels, Indexing, graphVars, capVars, pastVars, AllNodes, Live
  <1>13. ASSUME NEW f \in Files, Stat(f) PROVE TypeOK'
    <2>1. Meta(f) \in [at : 0..MaxClock, size : Nat] /\ Meta(f) # None
      BY <1>13, MetaType DEF Stat
    <2>2. stamp' \in [Files -> [at : 0..MaxClock, size : Nat] \cup {None}]
      BY <1>13, <2>1 DEF Stat, TypeOK
    <2>3. \A g \in Files : Stamped(g) => Stamped(g)'
      BY <1>13, <2>1 DEF Stat, TypeOK, Stamped
    <2>4. AllNodes \subseteq AllNodes'
      BY <1>13, <2>3, MoreNodes DEF Stat
    <2>5. edges' \subseteq [from : AllNodes', to : AllNodes', kind : Kinds]
      BY <1>13, <2>4 DEF Stat, TypeOK
    <2>6. statAt' \in [Files -> 0..MaxClock]
      BY <1>13 DEF Stat, TypeOK
    <2>7. owed' \subseteq Files /\ skip' \subseteq walked /\ todo' \subseteq walked
      BY <1>13 DEF Stat, TypeOK
    <2> QED
      BY <1>13, <2>2, <2>5, <2>6, <2>7 DEF Stat, TypeOK, capVars
  <1>14. ASSUME NEW f \in Files, Read(f) PROVE TypeOK'
    <2>1. text' \in Versions
      BY <1>14 DEF Read, TypeOK
    <2> QED
      BY <1>14, <2>1 DEF Read, TypeOK, graphVars, capVars, pastVars, AllNodes, Live
  <1>15. ASSUME NEW f \in Files, Missing(f) PROVE TypeOK'
    <2>1. ScanTypes'
      BY <1>15, AbortTypes DEF Missing
    <2> QED
      BY <1>15, <2>1 DEF Missing, TypeOK, ScanTypes, Labels, Indexing, graphVars, capVars, pastVars, AllNodes, Live
  <1>16. CASE UNCHANGED vars
    BY <1>16 DEF vars, TypeOK, graphVars, scanVars, capVars, pastVars, AllNodes, Live
  <1> QED
    BY <1>1, <1>2, <1>3, <1>4, <1>5, <1>6, <1>7, <1>8, <1>9, <1>10, <1>11, <1>12, <1>13, <1>14,
       <1>15, <1>16 DEF Next

LEMMA ControlStep ==
    IInv /\ [Next]_vars => ControlInv'
  <1> SUFFICES ASSUME TypeOK, ControlInv, ContentInv, [Next]_vars PROVE ControlInv'
    BY DEF IInv
  <1> USE GraphAssumption
  <1>1. CASE Tick
    BY <1>1 DEF Tick, TypeOK, ControlInv, Indexing, Stamped, graphVars, scanVars, capVars, pastVars
  <1>2. ASSUME NEW f \in Files, NEW v \in Versions \cup {None}, Edit(f, v) PROVE ControlInv'
    <2>1. disk'[f] # None => disk'[f].at = clock
      BY <1>2 DEF Edit, TypeOK
    <2>2. ~ clock < statAt[f]
      BY DEF ControlInv, TypeOK
    <2>3. \A g \in Files : disk'[g] # None /\ disk'[g].at < statAt[g] => disk'[g] = disk[g]
      BY <1>2, <2>1, <2>2 DEF Edit, TypeOK
    <2>4. pc \in Indexing => cur \in Files
      BY DEF ControlInv, TypeOK
    <2> QED
      BY <1>2, <2>3, <2>4 DEF Edit, ControlInv, Indexing, Stamped, graphVars, scanVars, pastVars
  <1>3. ASSUME NEW force \in BOOLEAN, Begin(force) PROVE ControlInv'
    <2>1. pc \in {"idle", "ok"} /\ pc' \in {"drop", "walk"} /\ edges' \subseteq edges
      BY <1>3 DEF Begin, Running
    <2> QED
      BY <1>3, <2>1 DEF Begin, ControlInv, Indexing
  <1>4. CASE Drop
    BY <1>4 DEF Drop, ControlInv, Indexing, capVars
  <1>5. CASE Walk
    BY <1>5 DEF Walk, ControlInv, Indexing, graphVars, capVars, pastVars
  <1>6. CASE StatsDone
    BY <1>6 DEF StatsDone, ControlInv, Indexing, Stamped, graphVars, capVars, pastVars
  <1>7. CASE Clean
    BY <1>7 DEF Clean, ControlInv, Indexing, Stamped, capVars
  <1>8. CASE PutSymbols
    <2>1. PICK part \in SUBSET Defs[text] :
             /\ edges' = edges \cup {Edge(FileNode(cur), <<cur, n>>, "contains") : n \in part}
             /\ Insert(Defs[text], part, "calls")
      BY <1>8 DEF PutSymbols
    <2>2. \A e \in edges' : e.kind = "calls" => e \in edges
      BY <2>1 DEF Edge
    <2>3. CASE pc' = "calls" /\ UNCHANGED <<walked, skip, todo, cur, text>>
      BY <1>8, <2>2, <2>3 DEF PutSymbols, ControlInv, Indexing, Stamped, capVars, pastVars
    <2>4. CASE Abort
      BY <1>8, <2>2, <2>4 DEF PutSymbols, Abort, ControlInv, Indexing, Stamped, capVars, pastVars
    <2> QED
      BY <2>1, <2>3, <2>4 DEF Insert
  <1>9. CASE PutCalls
    <2> DEFINE R == {x \in Calls[text] \X symbols : x[2][2] = x[1][2] /\ Found(x[2], cur)}
               resolved == {Edge(<<cur, p[1][1]>>, p[2], "calls") : p \in R}
    <2>1. PICK part \in SUBSET resolved :
              edges' = edges \cup part /\ Insert(resolved, part, "imports")
      BY <1>9 DEF PutCalls
    <2>2. cur \in Files /\ text \in Versions
      BY <1>9 DEF PutCalls, ControlInv, Indexing, TypeOK
    <2>3. \A e \in resolved : {e.from, e.to} \subseteq Files \X Names
      BY <2>2 DEF Edge, TypeOK
    <2>4. \A e \in edges' : e.kind = "calls" => {e.from, e.to} \subseteq Files \X Names
      BY <2>1, <2>3 DEF ControlInv
    <2> HIDE DEF resolved
    <2>5. CASE pc' = "imports" /\ UNCHANGED <<walked, skip, todo, cur, text>>
      BY <1>9, <2>4, <2>5 DEF PutCalls, ControlInv, Indexing, Stamped, capVars
    <2>6. CASE Abort
      BY <1>9, <2>4, <2>6 DEF PutCalls, Abort, ControlInv, Indexing, Stamped, capVars
    <2> QED
      BY <2>1, <2>5, <2>6 DEF Insert
  <1>10. CASE PutImports
    <2>1. \A e \in edges' : e.kind = "calls" => e \in edges
      BY <1>10 DEF PutImports, Edge
    <2> QED
      BY <1>10, <2>1 DEF PutImports, ControlInv, Indexing, Stamped, capVars
  <1>11. CASE Finish
    BY <1>11 DEF Finish, ControlInv, Indexing, graphVars, capVars, pastVars
  <1>12. CASE Fail
    BY <1>12 DEF Fail, Abort, ControlInv, Indexing, graphVars, capVars, pastVars
  <1>13. ASSUME NEW f \in Files, Stat(f) PROVE ControlInv'
    <2>1. Meta(f) # None /\ stamp' = [stamp EXCEPT ![f] = Meta(f)]
      BY <1>13, MetaType DEF Stat
    <2>2. \A g \in Files : Stamped(g)' <=> Stamped(g) \/ g = f
      BY <2>1 DEF Stamped, TypeOK
    <2>3. f \in (skip' \cup owed') /\ skip \cup owed \subseteq skip' \cup owed'
      BY <1>13 DEF Stat
    <2>4. \A g \in walked \ todo' : Stamped(g)' /\ g \in skip' \cup owed'
      BY <1>13, <2>2, <2>3 DEF Stat, ControlInv, TypeOK
    <2>5. \A g \in Files : statAt'[g] <= clock
      BY <1>13 DEF Stat, ControlInv, TypeOK
    <2> QED
      BY <1>13, <2>4, <2>5 DEF Stat, ControlInv, Indexing, capVars
  <1>14. ASSUME NEW f \in Files, Read(f) PROVE ControlInv'
    <2>1. text' \in Versions
      BY <1>14 DEF Read, TypeOK
    <2>2. f \in walked \cap owed
      BY <1>14 DEF Read, ControlInv, TypeOK
    <2> QED
      BY <1>14, <2>1, <2>2 DEF Read, ControlInv, Indexing, Stamped, graphVars, capVars, pastVars
  <1>15. ASSUME NEW f \in Files, Missing(f) PROVE ControlInv'
    BY <1>15 DEF Missing, Abort, ControlInv, Indexing, graphVars, capVars, pastVars
  <1>16. CASE UNCHANGED vars
    BY <1>16 DEF vars, ControlInv, Indexing, Stamped, graphVars, scanVars, capVars, pastVars
  <1> QED
    BY <1>1, <1>2, <1>3, <1>4, <1>5, <1>6, <1>7, <1>8, <1>9, <1>10, <1>11, <1>12, <1>13, <1>14,
       <1>15, <1>16 DEF Next

-----------------------------------------------------------------------------
(* What the graph holds.                                                   *)

Writing == {"symbols", "calls", "imports"}

\* Everything about a file depends on its own rows and its missed calls.
LEMMA SameRows ==
    ASSUME UNCHANGED <<symbols, edges, missed>>, NEW f, NEW v
    PROVE  /\ Declared(f, v)' <=> Declared(f, v)
           /\ HasCalls(f, v)' <=> HasCalls(f, v)
  <1>1. symbols' = symbols /\ edges' = edges /\ missed' = missed
    OBVIOUS
  <1> QED
    BY <1>1 DEF Declared, HasSymbols, HasContains, OnlyText, HasCalls

\* A step that leaves the graph alone, takes no file into trust and starts no
\* group of inserts.
LEMMA GraphKept ==
    ASSUME UNCHANGED <<symbols, edges, missed>>, NEW f, NEW v, ContentOf(f, v),
           Trusted(f)' => Trusted(f) /\ disk'[f].v = disk[f].v,
           pc' \notin Writing \/ UNCHANGED <<pc, cur, text>>
    PROVE  ContentOf(f, v)'
  <1>1. Trusted(f)' /\ disk'[f].v = v => Right(f, v)'
    BY SameRows DEF ContentOf, Right
  <1>2. (pc' \in Writing => UNCHANGED <<pc, cur, text>>) /\ {"symbols", "calls", "imports"} = Writing
    BY DEF Writing
  <1>3. NoRows(f)' <=> NoRows(f)
    BY DEF NoRows
  <1>4. \A ls \in SUBSET Writing : At(ls, f, v)' => At(ls, f, v)
    BY <1>2 DEF At
  <1>5. {"symbols"} \subseteq Writing /\ {"calls", "imports"} \subseteq Writing /\ {"imports"} \subseteq Writing
    BY DEF Writing
  <1> QED
    BY <1>1, <1>3, <1>4, <1>5, SameRows DEF ContentOf

\* Trust has to do with the file and what the scans did about it, and nothing else.
LEMMA SameTrust ==
    ASSUME UNCHANGED <<disk, stamp, owed, statAt>>, NEW f
    PROVE  Trusted(f)' => Trusted(f) /\ disk'[f].v = disk[f].v
  BY DEF Trusted, Stamped

\* A step that adds no rows of f, but of others, leaves what is right about f.
LEMMA OthersGrow ==
    ASSUME NEW f, NEW v, symbols \subseteq symbols', edges \subseteq edges',
           \A s \in symbols' \ symbols : s[1] # f,
           \A e \in edges' \ edges : e.from[1] # f,
           \A c : <<f, c>> \in missed => <<f, c>> \in missed'
    PROVE  /\ Declared(f, v) => Declared(f, v)'
           /\ HasCalls(f, v) => HasCalls(f, v)'
  <1>1. \A n : <<f, n>> \in symbols' <=> <<f, n>> \in symbols
    <2>1. \A n : <<f, n>>[1] = f
      OBVIOUS
    <2> QED
      BY <2>1
  <1>2. HasSymbols(f, v) => HasSymbols(f, v)'
    BY <1>1 DEF HasSymbols
  <1>3. HasContains(f, v) => HasContains(f, v)'
    BY DEF HasContains
  <1>4. OnlyText(f, v) => OnlyText(f, v)'
    BY DEF OnlyText
  <1>5. HasCalls(f, v) => HasCalls(f, v)'
    BY DEF HasCalls
  <1> QED
    BY <1>2, <1>3, <1>4, <1>5 DEF Declared

LEMMA ContentStep ==
    IInv /\ [Next]_vars => ContentInv'
  <1> SUFFICES ASSUME TypeOK, ControlInv, [Next]_vars,
                      NEW f \in Files, NEW v \in Versions, ContentOf(f, v)
               PROVE  ContentOf(f, v)'
    BY DEF IInv, ContentInv
  <1> USE GraphAssumption
  <1>1. CASE Tick
    BY <1>1, SameTrust, GraphKept DEF Tick, graphVars, scanVars, pastVars
  <1>2. ASSUME NEW g \in Files, NEW w \in Versions \cup {None}, Edit(g, w) PROVE ContentOf(f, v)'
    <2>1. ~ clock < statAt[g]
      BY DEF ControlInv, TypeOK
    <2>2. disk'[g] # None => disk'[g].at = clock
      BY <1>2 DEF Edit, TypeOK
    <2>3. Trusted(f)' => f # g
      BY <1>2, <2>1, <2>2 DEF Trusted, Edit, pastVars
    <2>4. f # g => disk'[f] = disk[f]
      BY <1>2 DEF Edit, TypeOK
    <2>5. Trusted(f)' => Trusted(f) /\ disk'[f].v = disk[f].v
      BY <1>2, <2>3, <2>4 DEF Trusted, Stamped, Edit, graphVars, pastVars
    <2> QED
      BY <1>2, <2>5, GraphKept DEF Edit, graphVars, scanVars, pastVars
  <1>3. ASSUME NEW force \in BOOLEAN, Begin(force) PROVE ContentOf(f, v)'
    <2>1. pc' \notin Writing
      BY <1>3 DEF Begin, Writing
    <2>2. CASE ~force
      BY <1>3, <2>1, <2>2, SameTrust, GraphKept DEF Begin
    <2>3. CASE force
      <3>1. ~ Trusted(f)'
        BY <1>3, <2>3 DEF Begin, Trusted, Stamped
      <3>2. ~ At({"symbols"}, f, v)' /\ ~ At({"calls", "imports"}, f, v)' /\ ~ At({"imports"}, f, v)'
        BY <2>1 DEF At, Writing
      <3> QED
        BY <3>1, <3>2 DEF ContentOf
    <2> QED
      BY <2>2, <2>3
  <1>4. CASE Drop
    <2>1. ~ Trusted(f)'
      BY <1>4 DEF Drop, Trusted, Stamped
    <2>2. ~ At({"symbols"}, f, v)' /\ ~ At({"calls", "imports"}, f, v)' /\ ~ At({"imports"}, f, v)'
      BY <1>4 DEF Drop, At
    <2> QED
      BY <2>1, <2>2 DEF ContentOf
  <1>5. CASE Walk
    BY <1>5, SameTrust, GraphKept DEF Walk, graphVars, pastVars, Writing
  <1>6. CASE StatsDone
    BY <1>6, SameTrust, GraphKept DEF StatsDone, graphVars, pastVars, Writing
  <1>11. CASE Finish
    BY <1>11, SameTrust, GraphKept DEF Finish, graphVars, pastVars, Writing
  <1>12. CASE Fail
    BY <1>12, SameTrust, GraphKept DEF Fail, Abort, graphVars, pastVars, Writing
  <1>13. ASSUME NEW g \in Files, Stat(g) PROVE ContentOf(f, v)'
    <2>1. pc' \notin Writing
      BY <1>13 DEF Stat, Writing
    <2>2. CASE Unchanged(g)
      <3>1. stamp' = stamp /\ UNCHANGED <<disk, owed, statAt>>
        BY <1>13, <2>2 DEF Stat, Unchanged, TypeOK
      <3> QED
        BY <1>13, <2>1, <3>1, SameTrust, GraphKept DEF Stat
    <2>3. CASE ~ Unchanged(g)
      <3>1. Trusted(f)' => f # g
        BY <1>13, <2>3 DEF Stat, Trusted
      <3>2. f # g => stamp'[f] = stamp[f] /\ statAt'[f] = statAt[f] /\ (f \in owed => f \in owed')
        BY <1>13 DEF Stat, TypeOK
      <3>3. Trusted(f)' => Trusted(f) /\ disk'[f].v = disk[f].v
        BY <1>13, <3>1, <3>2 DEF Stat, Trusted, Stamped
      <3> QED
        BY <1>13, <2>1, <3>3, GraphKept DEF Stat
    <2> QED
      BY <2>2, <2>3
  <1>14. ASSUME NEW g \in Files, Read(g) PROVE ContentOf(f, v)'
    BY <1>14, SameTrust, GraphKept DEF Read, graphVars, pastVars, Writing
  <1>15. ASSUME NEW g \in Files, Missing(g) PROVE ContentOf(f, v)'
    BY <1>15, SameTrust, GraphKept DEF Missing, Abort, graphVars, pastVars, Writing
  <1>16. CASE UNCHANGED vars
    BY <1>16, SameTrust, GraphKept DEF vars, graphVars, scanVars, pastVars
  <1>7. CASE Clean
    <2>1. /\ cur \in Files /\ cur \in owed
          /\ pc' = "symbols" /\ UNCHANGED <<disk, stamp, owed, statAt, cur, text>>
      BY <1>7 DEF Clean, ControlInv, Indexing, TypeOK
    <2>2. /\ symbols' = {s \in symbols : s[1] # cur}
          /\ edges' = {e \in edges : e.from[1] # cur /\ (e.to[1] # cur \/ e.to = FileNode(cur))}
          /\ missed \subseteq missed'
          /\ \A e \in edges \ edges' : e.kind = "calls" =>
                <<e.from[1], <<e.from[2], e.to[2]>>>> \in missed'
      BY <1>7 DEF Clean
    <2>3. At({"symbols"}, f, v)' => NoRows(f)'
      BY <2>1, <2>2 DEF At, NoRows
    <2>4. ~ At({"calls", "imports"}, f, v)' /\ ~ At({"imports"}, f, v)'
      BY <2>1 DEF At
    <2>5. ASSUME Trusted(f)', disk'[f].v = v PROVE Right(f, v)'
      <3>1. Right(f, v) /\ f # cur
        BY <2>1, <2>5, SameTrust DEF ContentOf, Trusted
      <3>2. HasSymbols(f, v)'
        BY <2>2, <3>1 DEF Right, Declared, HasSymbols
      <3>3. HasContains(f, v)'
        BY <2>2, <3>1 DEF Right, Declared, HasContains, Edge, FileNode
      <3>4. OnlyText(f, v)'
        BY <2>2, <3>1 DEF Right, Declared, OnlyText
      <3>5. ASSUME NEW c \in Calls[v], <<f, c>> \notin missed'
            PROVE  \E s \in symbols' : /\ s[2] = c[2] /\ (c[2] \in Defs[v] => s[1] = f)
                                       /\ Edge(<<f, c[1]>>, s, "calls") \in edges'
        <4>1. PICK s \in symbols : /\ s[2] = c[2] /\ (c[2] \in Defs[v] => s[1] = f)
                                   /\ Edge(<<f, c[1]>>, s, "calls") \in edges
          BY <2>2, <3>1, <3>5 DEF Right, HasCalls
        <4>2. c = <<c[1], c[2]>>
          <5>1. c \in Names \X Names
            OBVIOUS
          <5> QED
            BY <5>1
        <4>3. CASE s[1] = cur
          <5> DEFINE e == Edge(<<f, c[1]>>, s, "calls")
          <5>1. s # FileNode(cur)
            BY <2>1, FileNodes DEF TypeOK
          <5>2. e.to = s /\ e.kind = "calls" /\ e.from[1] = f /\ e.from[2] = c[1]
            BY DEF Edge
          <5>3. e \in edges \ edges'
            BY <2>2, <4>1, <4>3, <5>1, <5>2
          <5>4. <<f, <<c[1], c[2]>>>> \in missed'
            BY <2>2, <4>1, <5>2, <5>3
          <5> QED
            BY <3>5, <4>2, <5>4
        <4>4. CASE s[1] # cur
          BY <2>2, <3>1, <4>1, <4>4 DEF Edge
        <4> QED
          BY <4>3, <4>4
      <3> QED
        BY <3>2, <3>3, <3>4, <3>5 DEF Right, Declared, HasCalls
    <2> QED
      BY <2>3, <2>4, <2>5 DEF ContentOf
  <1>8. CASE PutSymbols
    <2>1. /\ cur \in Files /\ cur \in owed /\ pc = "symbols"
          /\ UNCHANGED <<disk, stamp, owed, statAt, missed>>
      BY <1>8 DEF PutSymbols, ControlInv, Indexing, TypeOK, pastVars
    <2>2. PICK part \in SUBSET Defs[text] :
             /\ symbols' = symbols \cup {<<cur, n>> : n \in part}
             /\ edges' = edges \cup {Edge(FileNode(cur), <<cur, n>>, "contains") : n \in part}
             /\ Insert(Defs[text], part, "calls")
      BY <1>8 DEF PutSymbols
    <2>3. /\ \A s \in symbols' \ symbols : s[1] = cur
          /\ \A e \in edges' \ edges : e.from[1] = cur
      BY <2>2 DEF Edge, FileNode
    <2>4. ASSUME Trusted(f)', disk'[f].v = v PROVE Right(f, v)'
      <3>1. Right(f, v) /\ f # cur
        BY <2>1, <2>4, SameTrust DEF ContentOf, Trusted
      <3> QED
        BY <2>1, <2>2, <2>3, <3>1, OthersGrow DEF Right
    <2>5. ASSUME At({"calls", "imports"}, f, v)' PROVE Declared(f, v)'
      <3>1. part = Defs[v] /\ cur = f /\ text = v
        BY <2>2, <2>5 DEF Insert, Abort, At
      <3>2. NoRows(f)
        BY <2>1, <3>1 DEF ContentOf, At
      <3>3. HasSymbols(f, v)'
        BY <2>2, <3>1, <3>2 DEF HasSymbols, NoRows
      <3>4. HasContains(f, v)'
        BY <2>2, <3>1 DEF HasContains
      <3>5. ASSUME NEW e \in edges', e.from[1] = f PROVE InText(e, v)
        BY <2>2, <3>1, <3>2, <3>5 DEF NoRows, InText, Edge, FileNode
      <3> QED
        BY <3>3, <3>4, <3>5 DEF Declared, OnlyText
    <2>6. ~ At({"symbols"}, f, v)' /\ ~ At({"imports"}, f, v)'
      BY <2>2 DEF Insert, Abort, At
    <2> QED
      BY <2>4, <2>5, <2>6 DEF ContentOf
  <1>9. CASE PutCalls
    <2> DEFINE R == {x \in Calls[text] \X symbols : x[2][2] = x[1][2] /\ Found(x[2], cur)}
               resolved == {Edge(<<cur, p[1][1]>>, p[2], "calls") : p \in R}
    <2>1. /\ cur \in Files /\ cur \in owed /\ pc = "calls" /\ text \in Versions
          /\ UNCHANGED <<disk, stamp, symbols, owed, statAt>>
      BY <1>9 DEF PutCalls, ControlInv, Indexing, TypeOK
    <2>2. PICK part \in SUBSET resolved :
              edges' = edges \cup part /\ Insert(resolved, part, "imports")
      BY <1>9 DEF PutCalls
    <2>3. \A e \in resolved : e.from[1] = cur
      BY DEF Edge
    <2>4. \A c : c \in Calls[text] /\ <<cur, c>> \notin missed' => c[2] \in {s[2] : s \in symbols}
      BY <1>9 DEF PutCalls
    <2>5. ASSUME Trusted(f)', disk'[f].v = v PROVE Right(f, v)'
      <3>1. Right(f, v) /\ f # cur
        BY <2>1, <2>5, SameTrust DEF ContentOf, Trusted
      <3>2. \A c : <<f, c>> \in missed => <<f, c>> \in missed'
        BY <1>9, <3>1 DEF PutCalls
      <3> QED
        BY <2>1, <2>2, <2>3, <3>1, <3>2, OthersGrow DEF Right
    <2>6. ASSUME At({"calls", "imports"}, f, v)' PROVE Declared(f, v)' /\ HasCalls(f, v)'
      <3>1. part = resolved /\ cur = f /\ text = v
        <4> HIDE DEF resolved
        <4> QED
          BY <2>2, <2>6 DEF Insert, Abort, At
      <3>2. Declared(f, v)
        BY <2>1, <3>1 DEF ContentOf, At
      <3>3. \A c \in Calls[v] : c[1] \in Names /\ c[2] \in Names /\ c = <<c[1], c[2]>>
        BY <2>1, <3>1
      <3>4. \A c \in Calls[v], s \in symbols :
                s[2] = c[2] /\ Found(s, f) /\ c[2] \in Defs[v] => s[1] = f
        BY <3>2, <3>3, FoundIsOwn DEF Declared, HasSymbols
      <3>5. ASSUME NEW e \in edges', e.from[1] = f PROVE InText(e, v)
        <4>1. CASE e \in edges
          BY <3>2, <3>5, <4>1 DEF Declared, OnlyText
        <4>2. CASE e \in resolved
          <5>1. PICK p \in R : e = Edge(<<cur, p[1][1]>>, p[2], "calls")
            BY <4>2
          <5>2. p[1] \in Calls[v] /\ p[2] \in symbols /\ p[2][2] = p[1][2] /\ Found(p[2], f)
            BY <3>1
          <5>3. e.kind = "calls" /\ e.from[1] = f /\ e.from[2] = p[1][1] /\ e.to = p[2]
            BY <3>1, <5>1 DEF Edge
          <5>4. <<e.from[2], e.to[2]>> = p[1]
            BY <3>3, <5>2, <5>3
          <5>5. e.to[2] \in Defs[v] => e.to[1] = f
            BY <3>4, <5>2, <5>3
          <5> QED
            BY <5>2, <5>3, <5>4, <5>5 DEF InText
        <4> QED
          BY <2>2, <3>1, <4>1, <4>2
      <3>6. ASSUME NEW c \in Calls[v], <<f, c>> \notin missed'
            PROVE  \E s \in symbols : /\ s[2] = c[2] /\ (c[2] \in Defs[v] => s[1] = f)
                                      /\ Edge(<<f, c[1]>>, s, "calls") \in edges'
        <4>1. PICK t \in symbols : t[2] = c[2]
          BY <2>4, <3>1, <3>6
        <4>2. PICK s \in symbols : s[2] = c[2] /\ Found(s, f)
          BY <4>1, SomeFound
        <4>3. <<c, s>> \in R
          BY <3>1, <4>2
        <4>4. Edge(<<f, c[1]>>, s, "calls") \in resolved
          <5>1. PICK p \in R : p = <<c, s>>
            BY <4>3
          <5>2. Edge(<<cur, p[1][1]>>, p[2], "calls") \in resolved
            OBVIOUS
          <5> QED
            BY <3>1, <5>1, <5>2
        <4> QED
          BY <2>2, <3>1, <3>4, <4>2, <4>4
      <3>7. HasSymbols(f, v)' /\ HasContains(f, v)' /\ OnlyText(f, v)'
        BY <2>1, <2>2, <3>2, <3>5 DEF Declared, HasSymbols, HasContains, OnlyText
      <3>8. HasCalls(f, v)'
        BY <2>1, <3>6 DEF HasCalls
      <3> QED
        BY <3>7, <3>8 DEF Declared
    <2>7. ~ At({"symbols"}, f, v)' /\ (At({"imports"}, f, v)' => At({"calls", "imports"}, f, v)')
      BY <2>2 DEF Insert, Abort, At
    <2> QED
      BY <2>5, <2>6, <2>7 DEF ContentOf
  <1>10. CASE PutImports
    <2> DEFINE new == {Edge(FileNode(cur), FileNode(g), "imports") :
                          g \in (Imports[text] \cap walked) \ {cur}}
    <2>1. /\ cur \in Files /\ pc = "imports" /\ pc' = "read" /\ text \in Versions
          /\ UNCHANGED <<disk, stamp, symbols, statAt, missed>>
          /\ edges' = edges \cup new /\ owed' = owed \ {cur}
          /\ disk[cur] # None /\ disk[cur].at < statAt[cur] => text = disk[cur].v
      BY <1>10 DEF PutImports, ControlInv, Indexing, TypeOK
    <2>2. ~ At({"symbols"}, f, v)' /\ ~ At({"calls", "imports"}, f, v)' /\ ~ At({"imports"}, f, v)'
      BY <2>1 DEF At
    <2>3. \A e \in new : e.from[1] = cur /\ e.kind = "imports" /\ e.to[1] \in Imports[text]
      BY DEF Edge, FileNode
    <2>4. ASSUME Trusted(f)', disk'[f].v = v PROVE Right(f, v)'
      <3>1. CASE f # cur
        <4>1. Trusted(f) /\ disk[f].v = v
          BY <2>1, <2>4, <3>1 DEF Trusted, Stamped
        <4> HIDE DEF new
        <4> QED
          BY <2>1, <2>3, <3>1, <4>1, OthersGrow DEF Right, ContentOf
      <3>2. CASE f = cur
        <4>1. text = v
          BY <2>1, <2>4, <3>2 DEF Trusted
        <4>2. Declared(f, v) /\ HasCalls(f, v)
          BY <2>1, <3>2, <4>1 DEF ContentOf, At
        <4>3. \A e \in new : InText(e, v)
          BY <2>3, <4>1 DEF InText
        <4> HIDE DEF new
        <4>4. HasSymbols(f, v)' /\ HasContains(f, v)' /\ OnlyText(f, v)'
          BY <2>1, <4>2, <4>3 DEF Declared, HasSymbols, HasContains, OnlyText
        <4>5. HasCalls(f, v)'
          BY <2>1, <4>2 DEF HasCalls
        <4> QED
          BY <4>4, <4>5 DEF Right, Declared
      <3> QED
        BY <3>1, <3>2
    <2> QED
      BY <2>2, <2>4 DEF ContentOf
  <1> QED
    BY <1>1, <1>2, <1>3, <1>4, <1>5, <1>6, <1>7, <1>8, <1>9, <1>10, <1>11, <1>12, <1>13, <1>14,
       <1>15, <1>16 DEF Next

-----------------------------------------------------------------------------
(* What follows for the properties.                                        *)

LEMMA InitContent == Init => ContentInv
  BY DEF Init, ContentInv, ContentOf, Trusted, Stamped, At

\* The graph's invariant holds in every state.
LEMMA Inductive == Spec => []IInv
  <1>1. Init => IInv
    BY InitControl, InitContent DEF IInv
  <1>2. IInv /\ [Next]_vars => IInv'
    BY TypeStep, ControlStep, ContentStep DEF IInv
  <1> QED
    BY <1>1, <1>2, PTL DEF Spec

\* What a scan passes over is trusted.
LEMMA SettledIsRight ==
    ASSUME IInv, NEW f \in Files, Settled(f)
    PROVE  disk[f].v \in Versions /\ Right(f, disk[f].v)
  <1>1. disk[f].v \in Versions
    BY DEF IInv, TypeOK, Settled
  <1> QED
    BY <1>1 DEF IInv, ContentInv, ContentOf, Settled, Trusted, Stamped

LEMMA FromFile ==
    ASSUME TypeOK, NEW e \in edges
    PROVE  e.from[1] \in Files
  <1>1. e.from \in AllNodes
    BY DEF TypeOK
  <1> QED
    BY <1>1 DEF AllNodes, Live, FileNode, TypeOK

\* The graph's rows are well typed and every edge ends in nodes the graph has: the
\* deletes of a reindexed file never leave an edge behind, and no insert names a row
\* that is not there.
THEOREM GraphTypes == Spec => []TypeOK
  <1>1. IInv => TypeOK
    BY DEF IInv
  <1> QED
    BY <1>1, Inductive, PTL

\* A file that scans pass over has in the graph exactly the symbols it defines.
THEOREM SymbolsAreExact == Spec => []SymbolsExact
  <1>1. ASSUME IInv, NEW f \in Files, Settled(f)
        PROVE  {s[2] : s \in {x \in symbols : x[1] = f}} = Defs[disk[f].v]
    <2> DEFINE D == Defs[disk[f].v]
    <2>1. D \subseteq Names /\ \A n \in Names : <<f, n>> \in symbols <=> n \in D
      BY <1>1, SettledIsRight, GraphAssumption DEF Right, Declared, HasSymbols
    <2>2. \A s \in symbols : s = <<s[1], s[2]>> /\ s[2] \in Names
      BY <1>1 DEF IInv, TypeOK
    <2>3. ASSUME NEW s \in symbols, s[1] = f PROVE s[2] \in D
      BY <2>1, <2>2, <2>3
    <2>4. ASSUME NEW n \in D PROVE n \in {s[2] : s \in {x \in symbols : x[1] = f}}
      <3>1. <<f, n>> \in symbols /\ <<f, n>>[1] = f /\ <<f, n>>[2] = n
        BY <2>1
      <3> QED
        BY <3>1
    <2> QED
      BY <2>3, <2>4
  <1>2. IInv => SymbolsExact
    BY <1>1 DEF SymbolsExact
  <1> QED
    BY <1>2, Inductive, PTL

\* An edge from a file that scans pass over is in its text.
THEOREM EdgesAreSound == Spec => []EdgesSound
  <1>1. ASSUME IInv, NEW e \in edges, Settled(e.from[1])
        PROVE  InText(e, disk[e.from[1]].v)
    <2>1. e.from[1] \in Files
      BY <1>1, FromFile DEF IInv
    <2> QED
      BY <1>1, <2>1, SettledIsRight DEF Right, Declared, OnlyText
  <1>2. IInv => EdgesSound
    BY <1>1 DEF EdgesSound
  <1> QED
    BY <1>2, Inductive, PTL

\* `graph impact` of a symbol finds every caller in a file that scans pass over, and the
\* file, but for the calls in missed.
THEOREM ImpactIsComplete == Spec => []ImpactComplete
  <1>1. ASSUME IInv, NEW f \in Files, Settled(f),
               NEW c \in Calls[disk[f].v], <<f, c>> \notin missed
        PROVE  \E s \in symbols : /\ s[2] = c[2] /\ (c[2] \in Defs[disk[f].v] => s[1] = f)
                                  /\ {<<f, c[1]>>, FileNode(f)} \subseteq Impact(s, 2)
    <2>1. disk[f].v \in Versions /\ Right(f, disk[f].v)
      BY <1>1, SettledIsRight
    <2>2. PICK s \in symbols : /\ s[2] = c[2] /\ (c[2] \in Defs[disk[f].v] => s[1] = f)
                               /\ Edge(<<f, c[1]>>, s, "calls") \in edges
      BY <1>1, <2>1 DEF Right, HasCalls
    <2>3. c[1] \in Defs[disk[f].v]
      BY <2>1, GraphAssumption
    <2>4. Edge(FileNode(f), <<f, c[1]>>, "contains") \in edges
      BY <2>1, <2>3 DEF Right, Declared, HasContains
    <2>5. PICK d \in edges : d.from = <<f, c[1]>> /\ d.to = s /\ d.kind = "calls"
      BY <2>2 DEF Edge
    <2>6. PICK e \in edges : e.from = FileNode(f) /\ e.to = <<f, c[1]>>
      BY <2>4 DEF Edge
    <2>7. {<<f, c[1]>>, FileNode(f)} \subseteq Impact(s, 2)
      BY <2>5, <2>6, ImpactOfTwo
    <2> QED
      BY <2>2, <2>7
  <1>2. IInv => ImpactComplete
    BY <1>1 DEF ImpactComplete
  <1> QED
    BY <1>2, Inductive, PTL
=============================================================================

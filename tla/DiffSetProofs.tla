----------------------------- MODULE DiffSetProofs -----------------------------
(***************************************************************************)
(* Theorems about DiffSetApply for every set of diffs, tokens and files,   *)
(* any patches, and any number of calls, edits and faults.                 *)
(*                                                                         *)
(* RowsInv is about the set, MembersInv about the call's copy of it, and   *)
(* PaidInv about its tokens, down the list; EventsInv is about the rows    *)
(* that stay.  StashInv and WorkInv follow the user's uncommitted content  *)
(* into the stash and back, GoalInv what the call owes each file, and      *)
(* DoneInv what holds when it has said Ok.                                 *)
(***************************************************************************)
EXTENDS DiffSetApply, FiniteSetTheorems, SequenceTheorems, TLAPS

Early == {"precheck", "validate", "stash"}
Late  == {"apply", "reset", "unstash", "pop"}

\* The rows are those of one request, with an ord each.
RowsInv ==
    /\ IsFiniteSet(rows)
    /\ \A p, q \in rows : p.ord = q.ord => p = q
    /\ rows # {} => isSet

\* The call has every member, and tokens that are bound to them.
MembersInv ==
    pc # "idle" =>
        /\ rows # {}
        /\ \A r \in rows : \E j \in DOMAIN members : members[j] = r.diff
        /\ \A j \in DOMAIN members : members[j] \in Stored /\ \E r \in rows : members[j] = r.diff
        /\ \A d \in Diffs : args[d] \in Tokens => DiffOfToken[args[d]] = d

Spent(d) == args[d] \in used \ paid

\* What phase 2 has consumed.
PaidInv ==
    /\ paid \subseteq used
    /\ pc = "validate" => \A j \in 1..(i - 1) : Spent(members[j])
    /\ pc \in {"stash"} \cup Late => \A j \in DOMAIN members : Spent(members[j])

\* A diff_applied row names a consumed token of its diff, and each member of
\* the set had one.
EventsInv ==
    \A e \in events :
        /\ e.token \in used /\ DiffOfToken[e.token] = e.diff
        /\ \E r \in rows : r.diff = e.diff
        /\ \A r \in rows : \E t \in used : DiffOfToken[t] = r.diff

\* The stash list is that of the beginning, with the call's entry in front.
StashInv ==
    /\ pc \in Early => Len(stash) = depth
    /\ pc \in Late => index = HeadTree /\ Len(stash) = depth + (IF stashed THEN 1 ELSE 0)
    /\ pc \in {"unstash", "pop"} => stashed

InEntry(f) == stashed /\ f \in Saved(stash[1])

\* From phase 3 on, popping the entry or resetting the tree loses nothing.
Safe(f) ==
    /\ InEntry(f) => Kept(f)
    /\ Tracked(f) => work[f] = HeadTree[f] \/ Kept(f)

WorkInv ==
    \A f \in Files : work[f] # None =>
        /\ tree[f] = work[f] \/ Kept(f)
        /\ pc \in Late => Safe(f)

\* What the tree has of what the call should produce: all of it, but for the
\* files that wait in the entry.
Due(f) ==
    IF InEntry(f)
    THEN /\ stash[1].work[f] = start[f]
         /\ tree[f] = goal[f] \/ (tree[f] = HeadTree[f] /\ goal[f] = start[f])
    ELSE tree[f] = goal[f]

GoalInv ==
    \A f \in Files :
        /\ pc \in Early => goal[f] = tree[f] /\ start[f] = tree[f]
        /\ pc \in {"apply", "pop"} /\ goal[f] # None => Due(f)

\* What Ok was said of.
DoneInv == result = "ok" => pc = "idle" /\ OkIsComplete

IInv ==
    /\ TypeOK /\ RowsInv /\ MembersInv /\ PaidInv /\ EventsInv
    /\ StashInv /\ WorkInv /\ GoalInv /\ DoneInv

-----------------------------------------------------------------------------
(* The operators of the model.                                             *)

Row == [diff : Diffs, ord : Int]

\* A list of rows has finitely many.
LEMMA RowsOfList ==
    ASSUME NEW req \in Seq(Row)
    PROVE  /\ IsFiniteSet({req[k] : k \in DOMAIN req})
           /\ {req[k] : k \in DOMAIN req} \subseteq Row
  <1> DEFINE R == {req[k] : k \in DOMAIN req}
  <1>1. Len(req) \in Nat /\ req \in [1..Len(req) -> Row] /\ DOMAIN req = 1..Len(req)
    BY LenProperties
  <1>2. req \in Surjection(1..Len(req), R)
    BY <1>1 DEF Surjection
  <1>3. IsFiniteSet(1..Len(req))
    BY <1>1, FS_Interval
  <1>4. IsFiniteSet(R)
    BY <1>2, <1>3, FS_Surjection
  <1>5. R \subseteq Row
    BY <1>1
  <1> QED
    BY <1>4, <1>5

\* ORDER BY ord lists every row of the set and nothing else: the number of rows before
\* a row takes each value below their number once.
LEMMA OrderedLists ==
    ASSUME NEW rs, IsFiniteSet(rs), rs \subseteq Row,
           \A p, q \in rs : p.ord = q.ord => p = q
    PROVE  /\ Ordered(rs) \in Seq(Diffs)
           /\ \A r \in rs : \E j \in DOMAIN Ordered(rs) : Ordered(rs)[j] = r.diff
           /\ \A j \in DOMAIN Ordered(rs) : \E r \in rs : Ordered(rs)[j] = r.diff
  <1> DEFINE n == Cardinality(rs)
             Before(r) == {q \in rs : q.ord < r.ord}
             rank == [r \in rs |-> Cardinality(Before(r))]
             At(k) == CHOOSE r \in rs : Cardinality(Before(r)) = k - 1
             list == [k \in 1..n |-> At(k).diff]
  <1>1. n \in Nat
    BY FS_CardinalityType
  <1>2. \A r \in rs : r.ord \in Int /\ r.diff \in Diffs
    BY DEF Row
  <1>3. ASSUME NEW r \in rs
        PROVE  /\ IsFiniteSet(Before(r)) /\ Cardinality(Before(r)) \in Nat
               /\ Cardinality(Before(r)) < n
    <2>1. Before(r) \in SUBSET rs /\ r \notin Before(r)
      BY <1>2
    <2>2. IsFiniteSet(Before(r)) /\ Cardinality(Before(r)) <= n /\ n # Cardinality(Before(r))
      BY <2>1, FS_Subset
    <2>3. Cardinality(Before(r)) \in Nat
      BY <2>2, FS_CardinalityType
    <2> QED
      BY <1>1, <2>2, <2>3
  <1>4. ASSUME NEW r \in rs, NEW s \in rs, r.ord < s.ord
        PROVE  Cardinality(Before(r)) # Cardinality(Before(s))
    <2>1. Before(r) \in SUBSET Before(s)
      BY <1>2, <1>4
    <2>2. r \in Before(s) /\ r \notin Before(r)
      BY <1>2, <1>4
    <2>3. Before(r) # Before(s)
      BY <2>2
    <2> QED
      BY <1>3, <2>1, <2>3, FS_Subset
  <1>5. \A r, s \in rs : Cardinality(Before(r)) = Cardinality(Before(s)) => r = s
    <2>1. SUFFICES ASSUME NEW r \in rs, NEW s \in rs, r # s
                   PROVE  Cardinality(Before(r)) # Cardinality(Before(s))
      OBVIOUS
    <2>2. r.ord < s.ord \/ s.ord < r.ord
      BY <1>2, <2>1
    <2> QED
      BY <1>4, <2>2
  <1> HIDE DEF Before
  <1>6. rank \in Injection(rs, 0..(n - 1))
    <2>1. rank \in [rs -> 0..(n - 1)]
      BY <1>1, <1>3
    <2> QED
      BY <1>5, <2>1 DEF Injection, IsInjective
  <1>7. IsFiniteSet(0..(n - 1)) /\ Cardinality(0..(n - 1)) = n
    BY <1>1, FS_Interval
  <1>8. rank \in Surjection(rs, 0..(n - 1))
    BY <1>6, <1>7, FS_Injection
  <1>9. ASSUME NEW k \in 1..n
        PROVE  At(k) \in rs /\ Cardinality(Before(At(k))) = k - 1
    <2>1. k - 1 \in 0..(n - 1)
      BY <1>1
    <2>2. \E r \in rs : Cardinality(Before(r)) = k - 1
      BY <1>8, <2>1 DEF Surjection
    <2> QED
      BY <2>2
  <1>10. ASSUME NEW r \in rs PROVE \E k \in 1..n : At(k) = r
    <2>1. PICK k \in 1..n : k - 1 = Cardinality(Before(r))
      <3>1. Cardinality(Before(r)) + 1 \in 1..n
        BY <1>1, <1>3
      <3>2. (Cardinality(Before(r)) + 1) - 1 = Cardinality(Before(r))
        BY <1>3
      <3> QED
        BY <3>1, <3>2
    <2> QED
      BY <1>5, <1>9, <2>1
  <1> HIDE DEF At
  <1>11. list \in [1..n -> Diffs]
    BY <1>2, <1>9
  <1>12. list \in Seq(Diffs)
    BY <1>1, <1>11, SeqDef
  <1>13. Ordered(rs) = list
    BY DEF Ordered, At, Before
  <1> QED
    BY <1>9, <1>10, <1>12, <1>13

-----------------------------------------------------------------------------
(* Type correctness.                                                       *)

EntryType == [index : [Files -> Content], work : [Files -> Content]]

GitTypes ==
    /\ tree \in [Files -> Content] /\ index \in [Files -> Content]
    /\ stash \in Seq(EntryType)

CallTypes ==
    /\ members \in Seq(Diffs)
    /\ pc \in Phases /\ (pc = "idle" \/ i \in DOMAIN members) /\ stashed \in BOOLEAN
    /\ args \in [Diffs -> Tokens \cup {None}]
    /\ result \in Results

\* Where the call is in the list: a number, and where the list ends.
LEMMA Position ==
    ASSUME CallTypes
    PROVE  /\ Len(members) \in Nat /\ DOMAIN members = 1..Len(members)
           /\ pc # "idle" => /\ i \in 1..Len(members) /\ i \in Nat /\ 1 \in DOMAIN members
                             /\ members[i] \in Diffs
  <1>1. Len(members) \in Nat /\ DOMAIN members = 1..Len(members)
    BY LenProperties DEF CallTypes
  <1>2. ASSUME pc # "idle" PROVE i \in 1..Len(members) /\ members[i] \in Diffs
    BY <1>1, <1>2, ElementOfSeq DEF CallTypes
  <1> QED
    BY <1>1, <1>2

LEMMA ReturnTypes ==
    ASSUME CallTypes, NEW r \in Results, Return(r)
    PROVE  CallTypes'
  BY DEF CallTypes, Return, Phases

\* The loop goes on in its phase with the next member, or the next phase starts over.
LEMMA AdvanceTypes ==
    ASSUME CallTypes, pc # "idle", NEW next \in Phases, Advance(next)
    PROVE  /\ CallTypes' /\ UNCHANGED <<members, args, stashed, result>>
           /\ \/ i < Len(members) /\ i' = i + 1 /\ pc' = pc
              \/ i = Len(members) /\ i' = 1 /\ pc' = next
  <1>1. /\ Len(members) \in Nat /\ DOMAIN members = 1..Len(members)
        /\ i \in 1..Len(members) /\ i \in Nat /\ 1 \in DOMAIN members
    BY Position
  <1>2. CASE i < Len(members)
    <2>1. i' = i + 1 /\ pc' = pc /\ UNCHANGED <<members, args, stashed, result>>
      BY <1>2 DEF Advance
    <2>2. i' \in DOMAIN members
      BY <1>1, <1>2, <2>1
    <2> QED
      BY <1>2, <2>1, <2>2 DEF CallTypes
  <1>3. CASE ~ i < Len(members)
    <2>1. i' = 1 /\ pc' = next /\ UNCHANGED <<members, args, stashed, result>>
      BY <1>3 DEF Advance
    <2>2. i = Len(members)
      <3>1. ASSUME NEW n \in Nat, NEW k \in 1..n, ~ k < n PROVE k = n
        BY <3>1
      <3> QED
        BY <1>1, <1>3, <3>1
    <2>3. CallTypes'
      BY <1>1, <2>1 DEF CallTypes
    <2> QED
      BY <2>1, <2>2, <2>3
  <1> QED
    BY <1>2, <1>3

LEMMA TreeTypes ==
    ASSUME GitTypes
    PROVE  /\ Reverted \in [Files -> Content]
           /\ Entry \in EntryType
           /\ \A d \in Stored : \A t \in [Files -> Content] : Patched(d, t) \in [Files -> Content]
  BY SetAssumption DEF GitTypes, Reverted, Entry, EntryType, Patched

LEMMA TopOfStash ==
    ASSUME GitTypes, stash # <<>>
    PROVE  /\ Len(stash) \in Nat \ {0} /\ DOMAIN stash = 1..Len(stash)
           /\ stash[1] \in EntryType
           /\ Tail(stash) \in Seq(EntryType) /\ Len(Tail(stash)) = Len(stash) - 1
           /\ DOMAIN Tail(stash) = 1..(Len(stash) - 1)
           /\ \A k \in 1..(Len(stash) - 1) : Tail(stash)[k] = stash[k + 1]
  BY HeadTailProperties, LenProperties, EmptySeq DEF GitTypes

LEMMA PopTypes ==
    ASSUME GitTypes, stash # <<>>, GitPop
    PROVE  GitTypes'
  <1>1. stash[1] \in EntryType /\ Tail(stash) \in Seq(EntryType)
    BY TopOfStash
  <1> QED
    BY <1>1 DEF GitPop, GitTypes, EntryType

\* The entry goes in front of the others.
LEMMA PushEntry ==
    ASSUME GitTypes, stash' = <<Entry>> \o stash
    PROVE  /\ stash' \in Seq(EntryType) /\ Len(stash') = Len(stash) + 1
           /\ Len(stash) \in Nat /\ DOMAIN stash' = 1..(Len(stash) + 1)
           /\ stash'[1] = Entry
           /\ \A k \in 1..Len(stash) : stash'[k + 1] = stash[k]
  <1>1. Entry \in EntryType /\ stash \in Seq(EntryType)
    BY TreeTypes DEF GitTypes
  <1>2. Len(stash) \in Nat
    BY <1>1, LenProperties
  <1>3. <<Entry>> \in Seq(EntryType) /\ Len(<<Entry>>) = 1 /\ <<Entry>>[1] = Entry
    BY <1>1
  <1>4. /\ stash' \in Seq(EntryType) /\ Len(stash') = Len(stash) + 1
        /\ \A k \in 1..(1 + Len(stash)) : stash'[k] = IF k <= 1 THEN <<Entry>>[k] ELSE stash[k - 1]
    BY <1>1, <1>2, <1>3, ConcatProperties
  <1>5. DOMAIN stash' = 1..(Len(stash) + 1)
    BY <1>2, <1>4, LenProperties
  <1>6. stash'[1] = Entry
    BY <1>2, <1>3, <1>4
  <1>7. ASSUME NEW k \in 1..Len(stash) PROVE stash'[k + 1] = stash[k]
    <2>1. k + 1 \in 1..(1 + Len(stash)) /\ ~ k + 1 <= 1 /\ (k + 1) - 1 = k
      BY <1>2
    <2> QED
      BY <1>4, <2>1
  <1> QED
    BY <1>2, <1>4, <1>5, <1>6, <1>7

PastTypes ==
    /\ start \in [Files -> Content \cup {None}] /\ goal \in [Files -> Content \cup {None}]
    /\ work \in [Files -> Content \cup {None}]
    /\ depth \in Nat /\ paid \subseteq Tokens

SetTypes ==
    /\ isSet \in BOOLEAN /\ rows \subseteq Row
    /\ asked \subseteq Requests /\ creating \subseteq Requests
    /\ used \subseteq Tokens
    /\ events \subseteq [diff : Diffs, token : Tokens \cup {None}]

CapTypes == calls \in 0..MaxCalls /\ edits \in 0..MaxEdits /\ faults \in 0..MaxFaults

LEMMA TypeParts == TypeOK <=> GitTypes /\ CallTypes /\ PastTypes /\ SetTypes /\ CapTypes
  BY DEF TypeOK, GitTypes, CallTypes, PastTypes, SetTypes, CapTypes, EntryType, Row

LEMMA TypePartsNext ==
    TypeOK' <=> GitTypes' /\ CallTypes' /\ PastTypes' /\ SetTypes' /\ CapTypes'
  BY DEF TypeOK, GitTypes, CallTypes, PastTypes, SetTypes, CapTypes, EntryType, Row

\* The parts of the invariant that the others lean on.
Base == TypeOK /\ RowsInv /\ MembersInv /\ StashInv

\* What a step does not touch keeps its type.
LEMMA SameTypes ==
    /\ GitTypes /\ UNCHANGED gitVars => GitTypes'
    /\ CallTypes /\ UNCHANGED callVars => CallTypes'
    /\ PastTypes /\ UNCHANGED pastVars => PastTypes'
    /\ SetTypes /\ UNCHANGED <<setVars, dbVars>> => SetTypes'
    /\ CapTypes /\ UNCHANGED capVars => CapTypes'
  BY DEF GitTypes, CallTypes, PastTypes, SetTypes, CapTypes, gitVars, callVars, pastVars,
         setVars, dbVars, capVars

LEMMA TypeStep == Base /\ [Next]_vars => TypeOK'
  <1> SUFFICES ASSUME TypeOK, Base, [Next]_vars,
                      GitTypes, CallTypes, PastTypes, SetTypes, CapTypes
               PROVE  GitTypes' /\ CallTypes' /\ PastTypes' /\ SetTypes' /\ CapTypes'
    BY TypeParts, TypePartsNext DEF Base
  <1> USE SetAssumption
  <1>1. ASSUME NEW req \in Requests, CheckSet(req)
        PROVE  GitTypes' /\ CallTypes' /\ PastTypes' /\ SetTypes' /\ CapTypes'
    <2>1. SetTypes'
      BY <1>1 DEF CheckSet, SetTypes, dbVars
    <2> QED
      BY <1>1, <2>1, SameTypes DEF CheckSet
  <1>2. ASSUME NEW req \in Requests, InsertSet(req)
        PROVE  GitTypes' /\ CallTypes' /\ PastTypes' /\ SetTypes' /\ CapTypes'
    <2>1. {req[k] : k \in DOMAIN req} \subseteq Row
      BY RowsOfList DEF Row
    <2>2. SetTypes'
      BY <1>2, <2>1 DEF InsertSet, SetTypes, dbVars
    <2> QED
      BY <1>2, <2>2, SameTypes DEF InsertSet
  <1>3. CASE Begin
    <2>1. Ordered(rows) \in Seq(Diffs) /\ (rows # {} => 1 \in DOMAIN Ordered(rows))
      <3>1. /\ Ordered(rows) \in Seq(Diffs)
            /\ \A r \in rows : \E j \in DOMAIN Ordered(rows) : Ordered(rows)[j] = r.diff
        BY OrderedLists DEF Base, RowsInv, SetTypes
      <3>2. DOMAIN Ordered(rows) = 1..Len(Ordered(rows)) /\ Len(Ordered(rows)) \in Nat
        BY <3>1, LenProperties
      <3> QED
        BY <3>1, <3>2
    <2>2. /\ args' \in [Diffs -> Tokens \cup {None}]
          /\ pc' \in {"idle", "precheck"} /\ result' \in Results
          /\ pc' = "precheck" => rows # {}
      BY <1>3 DEF Begin, CallTypes, Results
    <2>3. CallTypes'
      BY <1>3, <2>1, <2>2 DEF Begin, CallTypes, Phases
    <2>4. PastTypes'
      <3>1. Len(stash) \in Nat
        BY LenProperties DEF GitTypes
      <3> QED
        BY <1>3, <3>1 DEF Begin, PastTypes, GitTypes, SetTypes
    <2>5. CapTypes'
      BY <1>3 DEF Begin, CapTypes
    <2> QED
      BY <1>3, <2>3, <2>4, <2>5, SameTypes DEF Begin
  <1>4. CASE Precheck
    <2>1. CallTypes'
      BY <1>4, AdvanceTypes, ReturnTypes DEF Precheck, Phases, Results
    <2> QED
      BY <1>4, <2>1, SameTypes DEF Precheck
  <1>5. CASE Validate
    <2>1. CallTypes'
      BY <1>5, AdvanceTypes, ReturnTypes DEF Validate, Phases, Results
    <2>2. used' \subseteq Tokens
      <3>1. members[i] \in Diffs
        BY <1>5, Position DEF Validate
      <3>2. args[members[i]] # None => args[members[i]] \in Tokens
        BY <3>1 DEF CallTypes
      <3> QED
        BY <1>5, <3>2 DEF Validate, SetTypes
    <2>3. SetTypes'
      BY <1>5, <2>2 DEF Validate, SetTypes, setVars
    <2> QED
      BY <1>5, <2>1, <2>3, SameTypes DEF Validate
  <1>6. CASE Stash
    <2>1. CASE NothingToSave /\ pc' = "apply" /\ stashed' = FALSE
               /\ UNCHANGED <<i, members, args, result, gitVars, capVars>>
      <3>1. CallTypes'
        BY <1>6, <2>1 DEF Stash, CallTypes, Phases
      <3> QED
        BY <1>6, <2>1, <3>1, SameTypes DEF Stash
    <2>2. CASE /\ pc' = "apply" /\ stashed' = TRUE
               /\ stash' = <<Entry>> \o stash
               /\ tree' = Reverted /\ index' = HeadTree
               /\ UNCHANGED <<i, members, args, result, capVars>>
      <3>1. CallTypes'
        BY <1>6, <2>2 DEF Stash, CallTypes, Phases
      <3>2. GitTypes'
        BY <2>2, TreeTypes, PushEntry DEF GitTypes
      <3> QED
        BY <1>6, <2>2, <3>1, <3>2, SameTypes DEF Stash
    <2>3. CASE /\ faults < MaxFaults /\ faults' = faults + 1
               /\ Return("GitStash")
               /\ UNCHANGED <<gitVars, calls, edits>>
      <3>1. CallTypes' /\ CapTypes'
        BY <2>3, ReturnTypes DEF CapTypes, Results
      <3> QED
        BY <1>6, <2>3, <3>1, SameTypes DEF Stash
    <2> QED
      BY <1>6, <2>1, <2>2, <2>3 DEF Stash
  <1>7. CASE Apply
    <2> DEFINE d == members[i]
    <2>1. pc = "apply" /\ d \in Stored /\ d \in Diffs
      BY <1>7, Position DEF Apply, Base, MembersInv
    <2>2. CASE /\ tree' = Patched(d, tree)
               /\ goal' = [f \in Files |-> IF goal[f] = None THEN None ELSE Patched(d, goal)[f]]
               /\ work' = Rewritten(d)
               /\ RecordApplied(d)
               /\ \/ (i < Len(members) \/ stashed) /\ Advance("pop")
                  \/ i = Len(members) /\ ~stashed /\ Return("ok")
               /\ UNCHANGED <<index, stash, start, depth, paid>>
      <3>1. GitTypes'
        BY <2>1, <2>2, TreeTypes DEF GitTypes
      <3>2. CallTypes'
        BY <2>1, <2>2, AdvanceTypes, ReturnTypes DEF Phases, Results
      <3>3. goal' \in [Files -> Content \cup {None}]
        BY <2>1, <2>2 DEF Patched, PastTypes
      <3>4. work' \in [Files -> Content \cup {None}]
        BY <2>2 DEF Rewritten, PastTypes
      <3>5. AppliedRow(d) \in [diff : Diffs, token : Tokens \cup {None}]
        BY <2>1 DEF AppliedRow, CallTypes
      <3>6. events' \subseteq [diff : Diffs, token : Tokens \cup {None}]
        BY <2>2, <3>5 DEF RecordApplied, SetTypes
      <3>7. PastTypes' /\ SetTypes'
        BY <1>7, <2>1, <2>2, <3>3, <3>4, <3>6 DEF Apply, PastTypes, SetTypes, setVars
      <3> QED
        BY <1>7, <3>1, <3>2, <3>7, SameTypes DEF Apply
    <2>3. CASE /\ pc' = "reset"
               /\ UNCHANGED <<i, members, args, stashed, result, gitVars, events, pastVars>>
      <3>1. CallTypes'
        BY <2>1, <2>3 DEF CallTypes, Phases
      <3>2. SetTypes'
        BY <1>7, <2>3, SameTypes DEF Apply, dbVars
      <3> QED
        BY <1>7, <2>3, <3>1, <3>2, SameTypes DEF Apply
    <2> QED
      BY <1>7, <2>2, <2>3 DEF Apply
  <1>8. CASE Reset
    <2>1. GitTypes' /\ CapTypes'
      BY <1>8, TreeTypes DEF Reset, GitTypes, CapTypes, capVars
    <2>2. CallTypes'
      BY <1>8, ReturnTypes DEF Reset, CallTypes, Phases, Results
    <2> QED
      BY <1>8, <2>1, <2>2, SameTypes DEF Reset
  <1>9. CASE Unstash
    <2>1. GitTypes'
      <3>1. stash # <<>>
        <4>1. Len(stash) = depth + 1 /\ depth \in Nat
          BY <1>9 DEF Unstash, Base, StashInv, Late, PastTypes
        <4> QED
          BY <4>1, EmptySeq
      <3> QED
        BY <1>9, <3>1, PopTypes, SameTypes DEF Unstash
    <2>2. CallTypes'
      BY <1>9, ReturnTypes DEF Unstash, Results
    <2> QED
      BY <1>9, <2>1, <2>2, SameTypes DEF Unstash
  <1>10. CASE Pop
    <2>1. GitTypes'
      <3>1. stash # <<>>
        <4>1. Len(stash) = depth + 1 /\ depth \in Nat
          BY <1>10 DEF Pop, Base, StashInv, Late, PastTypes
        <4> QED
          BY <4>1, EmptySeq
      <3> QED
        BY <1>10, <3>1, PopTypes, SameTypes DEF Pop
    <2>2. CallTypes'
      BY <1>10, ReturnTypes DEF Pop, Results
    <2> QED
      BY <1>10, <2>1, <2>2, SameTypes DEF Pop
  <1>11. CASE IoError
    <2>1. CallTypes' /\ CapTypes'
      BY <1>11, ReturnTypes DEF IoError, CapTypes, Results
    <2> QED
      BY <1>11, <2>1, SameTypes DEF IoError
  <1>12. CASE Kill
    <2>1. CallTypes' /\ CapTypes'
      BY <1>12, ReturnTypes DEF Kill, CapTypes, Results
    <2> QED
      BY <1>12, <2>1, SameTypes DEF Kill
  <1>13. ASSUME NEW f \in Files, Stage(f)
         PROVE  GitTypes' /\ CallTypes' /\ PastTypes' /\ SetTypes' /\ CapTypes'
    <2>1. GitTypes'
      BY <1>13 DEF Stage, GitTypes
    <2> QED
      BY <1>13, <2>1, SameTypes DEF Stage
  <1>14. ASSUME NEW f \in Files, NEW v \in Content, Edit(f, v)
         PROVE  GitTypes' /\ CallTypes' /\ PastTypes' /\ SetTypes' /\ CapTypes'
    <2>1. GitTypes' /\ CapTypes'
      BY <1>14 DEF Edit, GitTypes, CapTypes
    <2>2. PastTypes'
      BY <1>14 DEF Edit, PastTypes
    <2> QED
      BY <1>14, <2>1, <2>2, SameTypes DEF Edit
  <1>15. CASE UNCHANGED vars
    BY <1>15, SameTypes DEF vars
  <1> QED
    BY <1>1, <1>2, <1>3, <1>4, <1>5, <1>6, <1>7, <1>8, <1>9, <1>10, <1>11, <1>12, <1>13, <1>14,
       <1>15 DEF Next

-----------------------------------------------------------------------------
(* The set, the call's copy of it, and its tokens.                         *)

\* What can happen to the set: one transaction of create_diff_set.
LEMMA SetChanges ==
    ASSUME [Next]_vars
    PROVE  \/ UNCHANGED <<isSet, rows>>
           \/ \E req \in Requests : /\ ~isSet /\ isSet' = TRUE /\ Distinct(req)
                                    /\ rows' = {req[k] : k \in DOMAIN req}
  BY DEF Next, vars, setVars, CheckSet, InsertSet, Begin, Precheck, Validate, Stash, Apply, Reset,
         Unstash, Pop, IoError, Kill, Stage, Edit

\* What can happen to the call: it begins, or goes on with the members and the
\* tokens it has, and tokens are only ever consumed.
LEMMA CallChanges ==
    ASSUME [Next]_vars
    PROVE  \/ Begin
           \/ /\ UNCHANGED <<members, args, paid, depth>>
              /\ pc' # "idle" => pc # "idle"
              /\ used \subseteq used'
  BY DEF Next, vars, callVars, pastVars, dbVars, CheckSet, InsertSet, Precheck, Validate, Stash,
         Apply, Reset, Unstash, Pop, IoError, Kill, Stage, Edit, Return, Advance

LEMMA RowsStep == TypeOK /\ RowsInv /\ [Next]_vars => RowsInv'
  <1> SUFFICES ASSUME TypeOK, RowsInv, [Next]_vars PROVE RowsInv'
    OBVIOUS
  <1>1. CASE UNCHANGED <<isSet, rows>>
    BY <1>1 DEF RowsInv
  <1>2. ASSUME NEW req \in Requests, isSet' = TRUE, Distinct(req),
               rows' = {req[k] : k \in DOMAIN req}
        PROVE  RowsInv'
    <2>1. IsFiniteSet(rows')
      BY <1>2, SetAssumption, RowsOfList DEF Row
    <2>2. \A p, q \in rows' : p.ord = q.ord => p = q
      BY <1>2 DEF Distinct
    <2> QED
      BY <1>2, <2>1, <2>2 DEF RowsInv
  <1> QED
    BY <1>1, <1>2, SetChanges

LEMMA MembersStep == Base /\ [Next]_vars => MembersInv'
  <1> SUFFICES ASSUME Base, [Next]_vars, pc' # "idle"
               PROVE  /\ rows' # {}
                      /\ \A r \in rows' : \E j \in DOMAIN members' : members'[j] = r.diff
                      /\ \A j \in DOMAIN members' :
                             members'[j] \in Stored /\ \E r \in rows' : members'[j] = r.diff
                      /\ \A d \in Diffs : args'[d] \in Tokens => DiffOfToken[args'[d]] = d
    BY DEF MembersInv
  <1>1. CASE Begin
    <2>1. /\ members' = Ordered(rows) /\ rows' = rows
          /\ rows # {} /\ \A r \in rows : r.diff \in Stored
          /\ \A d \in Diffs : args'[d] \in Tokens => DiffOfToken[args'[d]] = d
      BY <1>1 DEF Begin, setVars
    <2>2. IsFiniteSet(rows) /\ rows \subseteq Row /\ \A p, q \in rows : p.ord = q.ord => p = q
      BY DEF Base, RowsInv, TypeOK, Row
    <2>3. /\ \A r \in rows : \E j \in DOMAIN Ordered(rows) : Ordered(rows)[j] = r.diff
          /\ \A j \in DOMAIN Ordered(rows) : \E r \in rows : Ordered(rows)[j] = r.diff
      BY <2>2, OrderedLists
    <2> QED
      BY <2>1, <2>3
  <1>2. CASE UNCHANGED <<members, args>> /\ pc # "idle"
    <2>1. isSet /\ rows # {}
      BY <1>2 DEF Base, MembersInv, RowsInv
    <2>2. rows' = rows
      BY <2>1, SetChanges
    <2> QED
      BY <1>2, <2>2 DEF Base, MembersInv
  <1> QED
    BY <1>1, <1>2, CallChanges

\* Where the three phases of the count come from.
LEMMA PhaseBefore ==
    ASSUME CallTypes, [Next]_vars
    PROVE  /\ pc' = "validate" => \/ pc = "precheck" /\ i' = 1
                                  \/ pc = "validate" /\ (Validate \/ UNCHANGED <<i, pc>>)
           /\ pc' \in Late => pc \in {"stash"} \cup Late
           /\ pc' = "stash" => \/ pc = "stash"
                               \/ Validate /\ i = Len(members)
  <1>1. CASE Precheck
    <2>1. CASE Advance("validate")
      BY <1>1, <2>1, AdvanceTypes DEF Precheck, Phases, Late
    <2>2. CASE Return("PrecheckFailed")
      BY <1>1, <2>2 DEF Precheck, Return, Late
    <2> QED
      BY <1>1, <2>1, <2>2 DEF Precheck
  <1>2. CASE Validate
    <2>1. CASE Advance("stash")
      BY <1>2, <2>1, AdvanceTypes DEF Validate, Phases, Late
    <2>2. CASE Return("MissingToken") \/ Return("Validation")
      BY <1>2, <2>2 DEF Validate, Return, Late
    <2> QED
      BY <1>2, <2>1, <2>2 DEF Validate
  <1>3. CASE Apply
    BY <1>3 DEF Apply, Advance, Return, Late
  <1>4. CASE Begin \/ Stash \/ Reset \/ Unstash \/ Pop \/ IoError \/ Kill
    BY <1>4 DEF Begin, Stash, Reset, Unstash, Pop, IoError, Kill, Return, Late
  <1>5. CASE UNCHANGED callVars
    BY <1>5 DEF callVars, Late
  <1> QED
    BY <1>1, <1>2, <1>3, <1>4, <1>5 DEF Next, vars, CheckSet, InsertSet, Stage, Edit, callVars

LEMMA PaidStep == Base /\ PaidInv /\ [Next]_vars => PaidInv'
  <1> SUFFICES ASSUME Base, PaidInv, CallTypes, [Next]_vars PROVE PaidInv'
    BY TypeParts DEF Base
  <1>1. CASE Begin
    BY <1>1 DEF Begin, PaidInv, Late, dbVars
  <1>2. CASE /\ UNCHANGED <<members, args, paid>>
             /\ used \subseteq used'
             /\ pc' # "idle" => pc # "idle"
    <2>1. \A j : Spent(members[j]) => Spent(members[j])'
      BY <1>2 DEF Spent
    <2>2. paid' \subseteq used'
      BY <1>2 DEF PaidInv
    <2>3. DOMAIN members = 1..Len(members) /\ Len(members) \in Nat
          /\ (pc # "idle" => i \in 1..Len(members) /\ i \in Nat)
      BY Position
    <2>4. CASE Validate
      <3>1. CASE Advance("stash") /\ used' = used \cup {args[members[i]]}
                 /\ Authorised(args[members[i]], members[i])
        <4>1. pc = "validate" /\ \A j \in 1..(i - 1) : args[members[j]] \in used' \ paid
          BY <1>2, <2>4 DEF Validate, PaidInv, Spent
        <4>2. args[members[i]] \in used' \ paid
          BY <1>2, <3>1 DEF Authorised, PaidInv
        <4>3. \A j \in 1..i : j = i \/ j \in 1..(i - 1)
          BY <2>3, <4>1
        <4>4. \A j \in 1..i : args[members[j]] \in used' \ paid
          BY <4>1, <4>2, <4>3
        <4>5. \/ i' = i + 1 /\ pc' = "validate"
              \/ i = Len(members) /\ pc' = "stash"
          BY <3>1, <4>1, AdvanceTypes DEF Phases
        <4>6. CASE i' = i + 1 /\ pc' = "validate"
          <5>1. i' - 1 = i
            BY <2>3, <4>1, <4>6
          <5> QED
            BY <1>2, <2>2, <4>4, <4>6, <5>1 DEF PaidInv, Late, Spent
        <4>7. CASE i = Len(members) /\ pc' = "stash"
          BY <1>2, <2>2, <2>3, <4>4, <4>7 DEF PaidInv, Late, Spent
        <4> QED
          BY <4>5, <4>6, <4>7
      <3>2. CASE Return("MissingToken") \/ Return("Validation")
        BY <2>2, <3>2 DEF Return, PaidInv, Late
      <3> QED
        BY <2>4, <3>1, <3>2 DEF Validate
    <2>5. CASE ~ Validate
      <3>1. pc' = "validate" => i' = 1 \/ (pc = "validate" /\ i' = i)
        BY <2>5, PhaseBefore
      <3>2. pc' = "validate" => \A j \in 1..(i' - 1) : Spent(members[j])'
        <4>1. CASE i' = 1
          BY <4>1
        <4>2. CASE pc = "validate" /\ i' = i
          BY <2>1, <4>2 DEF PaidInv
        <4> QED
          BY <3>1, <4>1, <4>2
      <3>3. pc' \in {"stash"} \cup Late => \A j \in DOMAIN members : Spent(members[j])'
        BY <2>1, <2>5, PhaseBefore DEF PaidInv, Late
      <3> QED
        BY <1>2, <2>2, <3>2, <3>3 DEF PaidInv, Spent
    <2> QED
      BY <2>4, <2>5
  <1> QED
    BY <1>1, <1>2, CallChanges

\* The first conjunct of WholeSetApproved, of the call as it is.
LEMMA AllApproved ==
    ASSUME TypeOK, MembersInv, PaidInv, pc \in Late, NEW r \in rows
    PROVE  args[r.diff] \in used \ paid /\ DiffOfToken[args[r.diff]] = r.diff
  <1>1. /\ \E j \in DOMAIN members : members[j] = r.diff
        /\ \A d \in Diffs : args[d] \in Tokens => DiffOfToken[args[d]] = d
    BY DEF MembersInv, Late
  <1>2. args[r.diff] \in used \ paid
    BY <1>1 DEF PaidInv, Spent
  <1>3. r.diff \in Diffs /\ used \subseteq Tokens
    BY DEF TypeOK
  <1> QED
    BY <1>1, <1>2, <1>3

\* Only a patch that landed adds a row.
LEMMA EventChanges ==
    ASSUME [Next]_vars
    PROVE  \/ UNCHANGED events
           \/ pc = "apply" /\ UNCHANGED <<rows, used>>
                /\ events' = events \cup {AppliedRow(members[i])}
  BY DEF Next, vars, dbVars, setVars, CheckSet, InsertSet, Begin, Precheck, Validate, Stash, Apply,
         RecordApplied, Reset, Unstash, Pop, IoError, Kill, Stage, Edit

LEMMA EventsStep == Base /\ PaidInv /\ EventsInv /\ [Next]_vars => EventsInv'
  <1> SUFFICES ASSUME Base, PaidInv, EventsInv, [Next]_vars PROVE EventsInv'
    OBVIOUS
  <1>1. CASE UNCHANGED events
    <2>1. SUFFICES ASSUME NEW e \in events
          PROVE  /\ e.token \in used' /\ DiffOfToken[e.token] = e.diff
                 /\ \E r \in rows' : r.diff = e.diff
                 /\ \A r \in rows' : \E t \in used' : DiffOfToken[t] = r.diff
      BY <1>1 DEF EventsInv
    <2>2. used \subseteq used'
      BY CallChanges DEF Begin, dbVars
    <2>3. rows' = rows
      BY SetChanges DEF Base, RowsInv, EventsInv
    <2> QED
      BY <2>1, <2>2, <2>3 DEF EventsInv
  <1>2. CASE /\ pc = "apply" /\ UNCHANGED <<rows, used>>
             /\ events' = events \cup {AppliedRow(members[i])}
    <2>1. i \in DOMAIN members
      BY <1>2 DEF Base, TypeOK
    <2>2. PICK m \in rows : members[i] = m.diff
      BY <1>2, <2>1 DEF Base, MembersInv
    <2>3. \A r \in rows : args[r.diff] \in used /\ DiffOfToken[args[r.diff]] = r.diff
      BY <1>2, AllApproved DEF Base, Late
    <2>4. AppliedRow(members[i]).token = args[m.diff] /\ AppliedRow(members[i]).diff = m.diff
      BY <2>2 DEF AppliedRow
    <2> QED
      BY <1>2, <2>2, <2>3, <2>4 DEF EventsInv
  <1> QED
    BY <1>1, <1>2, EventChanges

-----------------------------------------------------------------------------
(* The stash list.                                                         *)

LEMMA StashStep == Base /\ [Next]_vars => StashInv'
  <1> SUFFICES ASSUME Base, CallTypes, GitTypes, PastTypes, [Next]_vars PROVE StashInv'
    BY TypeParts DEF Base
  <1> USE DEF Base
  <1>1. Len(stash) \in Nat /\ depth \in Nat
    BY LenProperties DEF GitTypes, PastTypes
  <1>2. CASE Begin
    BY <1>2 DEF Begin, StashInv, Early, Late, gitVars
  <1>3. CASE Precheck
    <2>1. pc' \in {"precheck", "validate", "idle"} /\ pc = "precheck" /\ UNCHANGED <<stash, depth>>
      BY <1>3 DEF Precheck, Advance, Return, gitVars, pastVars
    <2> QED
      BY <2>1 DEF StashInv, Early, Late
  <1>4. CASE Validate
    <2>1. pc' \in {"validate", "stash", "idle"} /\ pc = "validate" /\ UNCHANGED <<stash, depth>>
      BY <1>4 DEF Validate, Advance, Return, gitVars, pastVars
    <2> QED
      BY <2>1 DEF StashInv, Early, Late
  <1>5. CASE Stash
    <2>1. depth' = depth /\ Len(stash) = depth
      BY <1>5 DEF Stash, StashInv, Early, pastVars
    <2>2. CASE NothingToSave /\ pc' = "apply" /\ stashed' = FALSE /\ UNCHANGED gitVars
      BY <1>1, <2>1, <2>2 DEF NothingToSave, StashInv, Early, Late, gitVars
    <2>3. CASE pc' = "apply" /\ stashed' = TRUE /\ stash' = <<Entry>> \o stash /\ index' = HeadTree
      BY <1>1, <2>1, <2>3, PushEntry DEF StashInv, Early, Late
    <2>4. CASE Return("GitStash")
      BY <2>4 DEF StashInv, Early, Late, Return
    <2> QED
      BY <1>5, <2>2, <2>3, <2>4 DEF Stash
  <1>6. CASE Apply
    <2>1. /\ pc = "apply" /\ UNCHANGED <<index, stash, depth, stashed>>
          /\ pc' \in {"apply", "pop", "reset", "idle"} /\ (pc' = "pop" => stashed)
      <3>1. CASE Advance("pop") /\ (i < Len(members) \/ stashed)
        BY <1>6, <3>1 DEF Apply, Advance, gitVars, pastVars
      <3>2. CASE ~ (Advance("pop") /\ (i < Len(members) \/ stashed))
        BY <1>6, <3>2 DEF Apply, Return, gitVars, pastVars
      <3> QED
        BY <3>1, <3>2
    <2> QED
      BY <2>1 DEF StashInv, Early, Late
  <1>7. CASE Reset
    <2>1. /\ pc = "reset" /\ UNCHANGED <<stash, depth, stashed>> /\ index' \in {index, HeadTree}
          /\ pc' = "idle" \/ (pc' = "unstash" /\ stashed)
      BY <1>7 DEF Reset, Return, pastVars
    <2> QED
      BY <2>1 DEF StashInv, Early, Late
  <1>8. CASE Unstash \/ Pop \/ IoError \/ Kill
    BY <1>8 DEF Unstash, Pop, IoError, Kill, Return, StashInv, Early, Late
  <1>9. ASSUME NEW f \in Files, Stage(f) PROVE StashInv'
    BY <1>9 DEF Stage, callVars, StashInv, Early, Late
  <1>10. CASE UNCHANGED <<index, stash, depth, stashed, pc>>
    BY <1>10 DEF StashInv, Early, Late
  <1> QED
    BY <1>2, <1>3, <1>4, <1>5, <1>6, <1>7, <1>8, <1>9, <1>10
    DEF Next, vars, CheckSet, InsertSet, Edit, gitVars, callVars, pastVars

-----------------------------------------------------------------------------
(* The user's work.                                                        *)

\* What is kept stays so while the stash list does.
LEMMA StillKept ==
    ASSUME NEW f \in Files, stash' = stash, work'[f] = work[f]
    PROVE  Kept(f)' <=> Kept(f)
  BY DEF Kept, Saved

\* Popping the entry brings back what it has of the work, and hides nothing.
LEMMA PopKeepsWork ==
    ASSUME GitTypes, stash # <<>>, stashed, GitPop, work' = work,
           NEW f \in Files, tree[f] = work[f] \/ Kept(f), Safe(f)
    PROVE  tree'[f] = work[f] \/ Kept(f)'
  <1>1. /\ Len(stash) \in Nat \ {0} /\ DOMAIN stash = 1..Len(stash)
        /\ DOMAIN Tail(stash) = 1..(Len(stash) - 1)
        /\ \A k \in 1..(Len(stash) - 1) : Tail(stash)[k] = stash[k + 1]
    BY TopOfStash
  <1>2. ASSUME NEW k \in DOMAIN stash, k # 1, f \in Saved(stash[k]), stash[k].work[f] = work[f]
        PROVE  Kept(f)'
    <2>1. k - 1 \in 1..(Len(stash) - 1) /\ (k - 1) + 1 = k
      BY <1>1, <1>2
    <2>2. stash'[k - 1] = stash[k] /\ k - 1 \in DOMAIN stash'
      BY <1>1, <2>1 DEF GitPop
    <2>3. f \in Saved(stash'[k - 1])
      BY <1>2, <2>2
    <2> QED
      BY <1>2, <2>2, <2>3 DEF Kept, Saved
  <1>3. CASE f \in Saved(stash[1])
    <2>1. PICK k \in DOMAIN stash : f \in Saved(stash[k]) /\ stash[k].work[f] = work[f]
      BY <1>3 DEF Safe, InEntry, Kept
    <2>2. CASE k = 1
      BY <1>3, <2>1, <2>2 DEF GitPop
    <2> QED
      BY <1>2, <2>1, <2>2
  <1>4. CASE f \notin Saved(stash[1])
    <2>1. tree'[f] = tree[f]
      BY <1>4 DEF GitPop
    <2>2. CASE Kept(f)
      <3>1. PICK k \in DOMAIN stash : f \in Saved(stash[k]) /\ stash[k].work[f] = work[f]
        BY <2>2 DEF Kept
      <3>2. k # 1
        BY <1>4, <3>1
      <3> QED
        BY <1>2, <3>1, <3>2
    <2> QED
      BY <2>1, <2>2
  <1> QED
    BY <1>3, <1>4

\* A step that leaves the work, the tree and the stash list alone.
LEMMA WorkUntouched ==
    ASSUME WorkInv, UNCHANGED <<tree, stash, work>>,
           pc' \in Late => pc \in Late /\ UNCHANGED <<index, stashed>>
    PROVE  WorkInv'
  <1> SUFFICES ASSUME NEW f \in Files, work[f] # None
               PROVE  /\ tree[f] = work[f] \/ Kept(f)'
                      /\ pc' \in Late => Safe(f)'
    BY DEF WorkInv
  <1>1. Kept(f)' <=> Kept(f)
    BY StillKept
  <1>2. tree[f] = work[f] \/ Kept(f)
    BY DEF WorkInv
  <1>3. ASSUME pc' \in Late PROVE Safe(f)'
    <2>1. Safe(f)
      BY <1>3 DEF WorkInv
    <2> QED
      BY <1>1, <1>3, <2>1 DEF Safe, InEntry, Tracked, Saved
  <1> QED
    BY <1>1, <1>2, <1>3

LEMMA WorkStep == Base /\ WorkInv /\ [Next]_vars => WorkInv'
  <1> SUFFICES ASSUME Base, CallTypes, GitTypes, PastTypes, WorkInv, [Next]_vars PROVE WorkInv'
    BY TypeParts DEF Base
  <1>1. CASE Begin \/ Precheck \/ Validate \/ IoError \/ Kill
    BY <1>1, WorkUntouched
    DEF Begin, Precheck, Validate, IoError, Kill, Return, Advance, Late, gitVars, pastVars
  <1>2. CASE Stash
    <2>1. /\ work' = work /\ pc = "stash" /\ Len(stash) \in Nat /\ DOMAIN stash = 1..Len(stash)
      BY <1>2, LenProperties DEF Stash, pastVars, GitTypes
    <2>2. CASE /\ NothingToSave /\ pc' = "apply" /\ stashed' = FALSE /\ UNCHANGED gitVars
      <3> SUFFICES ASSUME NEW f \in Files, work[f] # None
                   PROVE  (tree[f] = work[f] \/ Kept(f)') /\ Safe(f)'
        BY <2>1, <2>2 DEF WorkInv, gitVars
      <3>1. Kept(f)' <=> Kept(f)
        BY <2>1, <2>2, StillKept DEF gitVars
      <3>2. tree[f] = work[f] \/ Kept(f)
        BY DEF WorkInv
      <3>3. Tracked(f)' => tree[f] = HeadTree[f]
        BY <2>2 DEF NothingToSave, Tracked, gitVars
      <3> QED
        BY <2>1, <2>2, <3>1, <3>2, <3>3 DEF Safe, InEntry
    <2>3. CASE /\ pc' = "apply" /\ stashed' = TRUE
               /\ stash' = <<Entry>> \o stash
               /\ tree' = Reverted /\ index' = HeadTree
      <3> SUFFICES ASSUME NEW f \in Files, work[f] # None
                   PROVE  (tree'[f] = work[f] \/ Kept(f)') /\ Safe(f)'
        BY <2>1 DEF WorkInv
      <3>1. /\ DOMAIN stash' = 1..(Len(stash) + 1) /\ stash'[1] = Entry
            /\ \A k \in 1..Len(stash) : stash'[k + 1] = stash[k]
        BY <2>3, PushEntry
      <3>2. ASSUME Kept(f) PROVE Kept(f)'
        <4>1. PICK k \in DOMAIN stash : f \in Saved(stash[k]) /\ stash[k].work[f] = work[f]
          BY <3>2 DEF Kept
        <4>2. k + 1 \in DOMAIN stash' /\ stash'[k + 1] = stash[k]
          BY <2>1, <3>1
        <4> QED
          BY <2>1, <4>1, <4>2 DEF Kept, Saved
      <3>3. ASSUME tree[f] = work[f], Tracked(f), tree[f] # HeadTree[f] PROVE Kept(f)'
        <4>1. 1 \in DOMAIN stash' /\ Entry.work[f] = tree[f]
          BY <2>1, <3>1, <3>3 DEF Entry
        <4> QED
          BY <2>1, <3>1, <3>3, <4>1 DEF Kept, Saved
      <3>4. tree[f] = work[f] \/ Kept(f)
        BY DEF WorkInv
      <3>5. tree'[f] = IF Tracked(f) THEN HeadTree[f] ELSE tree[f]
        BY <2>3 DEF Reverted
      <3>6. InEntry(f)' => Tracked(f) /\ tree[f] # HeadTree[f]
        BY <3>1 DEF InEntry, Saved, Entry
      <3>7. Tracked(f)' => Tracked(f)
        BY <2>3 DEF Tracked
      <3> QED
        BY <2>1, <3>2, <3>3, <3>4, <3>5, <3>6, <3>7 DEF Safe
    <2>4. CASE Return("GitStash") /\ UNCHANGED <<gitVars, calls, edits>>
      BY <2>1, <2>4, WorkUntouched DEF Return, Late, gitVars
    <2> QED
      BY <1>2, <2>2, <2>3, <2>4 DEF Stash
  <1>3. CASE Apply
    <2> DEFINE d == members[i]
    <2>1. pc = "apply" /\ UNCHANGED <<index, stash>> /\ stashed' = stashed
      BY <1>3 DEF Apply, Advance, Return, gitVars
    <2>2. CASE ~ Fits(d)
      BY <1>3, <2>1, <2>2, WorkUntouched DEF Apply, Late, gitVars, pastVars
    <2>3. CASE tree' = Patched(d, tree) /\ work' = Rewritten(d)
      <3> SUFFICES ASSUME NEW f \in Files, work'[f] # None
                   PROVE  (tree'[f] = work'[f] \/ Kept(f)') /\ Safe(f)'
        BY DEF WorkInv
      <3>1. work'[f] = work[f] /\ ~ (f \in DOMAIN Patch[d] /\ tree[f] = work[f] /\ ~Kept(f))
        BY <2>3 DEF Rewritten
      <3>2. Kept(f)' <=> Kept(f)
        BY <2>1, <3>1, StillKept
      <3>3. tree[f] = work[f] \/ Kept(f)
        BY <3>1 DEF WorkInv
      <3>4. Safe(f)
        BY <2>1, <3>1 DEF WorkInv, Late
      <3>5. f \notin DOMAIN Patch[d] => tree'[f] = tree[f]
        BY <2>3 DEF Patched
      <3>6. Safe(f)'
        BY <2>1, <3>1, <3>2, <3>4 DEF Safe, InEntry, Tracked, Saved
      <3> QED
        BY <3>1, <3>2, <3>3, <3>5, <3>6
    <2> QED
      BY <1>3, <2>2, <2>3 DEF Apply
  <1>4. CASE Reset
    <2>1. /\ pc = "reset" /\ UNCHANGED <<stash, work>> /\ stashed' = stashed
          /\ index = HeadTree /\ index' = HeadTree
          /\ tree' = Reverted \/ tree' = tree
      BY <1>4 DEF Reset, Return, Base, StashInv, Late, pastVars
    <2> SUFFICES ASSUME NEW f \in Files, work[f] # None
                 PROVE  (tree'[f] = work[f] \/ Kept(f)') /\ Safe(f)'
      BY <2>1 DEF WorkInv
    <2>2. Kept(f)' <=> Kept(f)
      BY <2>1, StillKept
    <2>3. (tree[f] = work[f] \/ Kept(f)) /\ Safe(f)
      BY <2>1 DEF WorkInv, Late
    <2>4. tree'[f] = tree[f] \/ (Tracked(f) /\ tree'[f] = HeadTree[f])
      BY <2>1 DEF Reverted
    <2>5. Safe(f)'
      BY <2>1, <2>2, <2>3 DEF Safe, InEntry, Tracked, Saved
    <2> QED
      BY <2>2, <2>3, <2>4, <2>5 DEF Safe
  <1>5. CASE Unstash \/ Pop
    <2>1. /\ pc \in {"unstash", "pop"} /\ pc' = "idle" /\ work' = work
          /\ GitPop \/ UNCHANGED gitVars
      BY <1>5 DEF Unstash, Pop, Return, pastVars
    <2>2. CASE UNCHANGED gitVars
      BY <2>1, <2>2, WorkUntouched DEF gitVars, Late
    <2>3. CASE GitPop
      <3>1. stashed /\ Len(stash) = depth + 1 /\ depth \in Nat
        BY <2>1 DEF Base, StashInv, Late, PastTypes
      <3>2. stash # <<>>
        BY <3>1, EmptySeq
      <3> SUFFICES ASSUME NEW f \in Files, work[f] # None
                   PROVE  tree'[f] = work[f] \/ Kept(f)'
        BY <2>1 DEF WorkInv, Late
      <3>3. (tree[f] = work[f] \/ Kept(f)) /\ Safe(f)
        BY <2>1 DEF WorkInv, Late
      <3> QED
        BY <2>1, <2>3, <3>1, <3>2, <3>3, PopKeepsWork
    <2> QED
      BY <2>1, <2>2, <2>3
  <1>6. ASSUME NEW g \in Files, Stage(g) PROVE WorkInv'
    BY <1>6, WorkUntouched DEF Stage, callVars, pastVars, Late
  <1>7. ASSUME NEW g \in Files, NEW v \in Content, Edit(g, v) PROVE WorkInv'
    <2>1. UNCHANGED <<index, stash, pc, stashed>>
      BY <1>7 DEF Edit, callVars
    <2>2. \/ pc \notin Late /\ tree'[g] = v /\ work'[g] = v
          \/ work'[g] = None
      BY <1>7 DEF Edit, Promised, Late, GitTypes, PastTypes
    <2> SUFFICES ASSUME NEW f \in Files, work'[f] # None
                 PROVE  /\ tree'[f] = work'[f] \/ Kept(f)'
                        /\ pc' \in Late => Safe(f)'
      BY DEF WorkInv
    <2>3. CASE f = g
      BY <2>1, <2>2, <2>3
    <2>4. CASE f # g
      <3>1. tree'[f] = tree[f] /\ work'[f] = work[f]
        BY <1>7, <2>4 DEF Edit, GitTypes, PastTypes
      <3>2. Kept(f)' <=> Kept(f)
        BY <2>1, <3>1, StillKept
      <3>3. (tree[f] = work[f] \/ Kept(f)) /\ (pc \in Late => Safe(f))
        BY <3>1 DEF WorkInv
      <3> QED
        BY <2>1, <3>1, <3>2, <3>3 DEF Safe, InEntry, Tracked, Saved
    <2> QED
      BY <2>3, <2>4
  <1>8. CASE UNCHANGED <<gitVars, callVars, pastVars>>
    BY <1>8, WorkUntouched DEF gitVars, callVars, pastVars
  <1> QED
    BY <1>1, <1>2, <1>3, <1>4, <1>5, <1>6, <1>7, <1>8 DEF Next, vars, CheckSet, InsertSet

-----------------------------------------------------------------------------
(* What the call should produce, and the end of it.                        *)

LEMMA GoalStep == Base /\ GoalInv /\ [Next]_vars => GoalInv'
  <1> SUFFICES ASSUME Base, CallTypes, GitTypes, PastTypes, GoalInv, [Next]_vars,
                      NEW f \in Files
               PROVE  /\ pc' \in Early => goal'[f] = tree'[f] /\ start'[f] = tree'[f]
                      /\ pc' \in {"apply", "pop"} /\ goal'[f] # None => Due(f)'
    BY TypeParts DEF Base, GoalInv
  <1>1. CASE Begin
    BY <1>1 DEF Begin, Early, gitVars
  <1>2. CASE Precheck \/ Validate
    <2>1. pc \in Early /\ pc' \in {"precheck", "validate", "stash", "idle"}
      BY <1>2 DEF Precheck, Validate, Return, Advance, Early
    <2> QED
      BY <1>2, <2>1 DEF Precheck, Validate, GoalInv, Early, gitVars, pastVars
  <1>3. CASE Stash
    <2>1. pc = "stash" /\ UNCHANGED <<start, goal>> /\ goal[f] = tree[f] /\ start[f] = tree[f]
      BY <1>3 DEF Stash, GoalInv, Early, pastVars
    <2>2. CASE pc' = "apply" /\ stashed' = FALSE /\ UNCHANGED gitVars
      BY <2>1, <2>2 DEF Due, InEntry, Early, gitVars
    <2>3. CASE /\ pc' = "apply" /\ stashed' = TRUE
               /\ stash' = <<Entry>> \o stash /\ tree' = Reverted
      <3>1. stash'[1] = Entry
        BY <2>3, PushEntry
      <3>2. InEntry(f)' <=> Tracked(f) /\ tree[f] # HeadTree[f]
        BY <2>3, <3>1 DEF InEntry, Saved, Entry
      <3>3. tree'[f] = IF Tracked(f) THEN HeadTree[f] ELSE tree[f]
        BY <2>3 DEF Reverted
      <3>4. Tracked(f) => stash'[1].work[f] = tree[f]
        BY <3>1 DEF Entry
      <3> QED
        BY <2>1, <2>3, <3>2, <3>3, <3>4 DEF Due, Early
    <2>4. CASE Return("GitStash")
      BY <2>4 DEF Return, Early
    <2> QED
      BY <1>3, <2>2, <2>3, <2>4 DEF Stash
  <1>4. CASE Apply
    <2> DEFINE d == members[i]
    <2>1. pc = "apply" /\ pc' \notin Early /\ UNCHANGED <<stash, start, stashed>>
      BY <1>4 DEF Apply, Advance, Return, Early, gitVars, pastVars
    <2>2. CASE pc' = "reset"
      BY <2>2 DEF Early
    <2>3. CASE /\ tree' = Patched(d, tree)
               /\ goal' = [g \in Files |-> IF goal[g] = None THEN None ELSE Patched(d, goal)[g]]
      <3> SUFFICES ASSUME goal'[f] # None PROVE Due(f)'
        BY <2>1
      <3>1. Due(f)
        BY <2>1, <2>3 DEF GoalInv
      <3>2. InEntry(f)' <=> InEntry(f)
        BY <2>1 DEF InEntry, Saved
      <3>3. CASE f \in DOMAIN Patch[d]
        <4>1. tree'[f] = goal'[f]
          BY <2>3, <3>3 DEF Patched
        <4> QED
          BY <2>1, <3>1, <3>2, <4>1 DEF Due
      <3>4. CASE f \notin DOMAIN Patch[d]
        <4>1. tree'[f] = tree[f] /\ goal'[f] = goal[f]
          BY <2>3, <3>4 DEF Patched
        <4> QED
          BY <2>1, <3>1, <3>2, <4>1 DEF Due
      <3> QED
        BY <3>3, <3>4
    <2> QED
      BY <1>4, <2>2, <2>3 DEF Apply
  <1>5. CASE Reset \/ Unstash \/ Pop \/ IoError \/ Kill
    BY <1>5 DEF Reset, Unstash, Pop, IoError, Kill, Return, Early
  <1>6. ASSUME NEW g \in Files, Stage(g)
        PROVE  pc' \notin Early \cup {"apply", "pop"}
    BY <1>6 DEF Stage, callVars, Early
  <1>7. ASSUME NEW g \in Files, NEW v \in Content, Edit(g, v)
        PROVE  /\ pc' \in Early => goal'[f] = tree'[f] /\ start'[f] = tree'[f]
               /\ pc' \in {"apply", "pop"} /\ goal'[f] # None => Due(f)'
    <2>1. UNCHANGED <<stash, pc, stashed>>
      BY <1>7 DEF Edit, callVars
    <2>2. CASE f = g
      BY <1>7, <2>1, <2>2 DEF Edit, Promised, Early, GitTypes, PastTypes
    <2>3. CASE f # g
      <3>1. tree'[f] = tree[f] /\ goal'[f] = goal[f] /\ start'[f] = start[f]
        BY <1>7, <2>3 DEF Edit, GitTypes, PastTypes
      <3> QED
        BY <2>1, <3>1 DEF GoalInv, Due, InEntry, Saved
    <2> QED
      BY <2>2, <2>3
  <1>8. CASE UNCHANGED <<gitVars, callVars, pastVars>>
    BY <1>8 DEF gitVars, callVars, pastVars, GoalInv, Due, InEntry, Saved
  <1> QED
    BY <1>1, <1>2, <1>3, <1>4, <1>5, <1>6, <1>7, <1>8 DEF Next, vars, CheckSet, InsertSet

\* A pop that fits gives each file what it is due.
LEMMA PopCompletes ==
    ASSUME index = HeadTree, stashed, PopFits, GitPop, NEW f \in Files, Due(f)
    PROVE  tree'[f] = goal[f] \/ (goal[f] = HeadTree[f] /\ tree'[f] = start[f])
  BY DEF PopFits, GitPop, Due, InEntry

LEMMA DoneStep ==
    Base /\ GoalInv /\ DoneInv /\ [Next]_vars => DoneInv'
  <1> SUFFICES ASSUME Base, CallTypes, GitTypes, PastTypes, GoalInv, DoneInv, [Next]_vars
               PROVE  DoneInv'
    BY TypeParts DEF Base
  <1>1. CASE Begin
    BY <1>1 DEF Begin, DoneInv
  <1>2. CASE Precheck
    <2>1. result # "ok" /\ pc = "precheck"
      BY <1>2 DEF Precheck, DoneInv
    <2>2. result' # "ok" /\ pc' \in {"precheck", "validate", "idle"}
      BY <1>2, <2>1 DEF Precheck, Return, Advance
    <2> QED
      BY <2>2 DEF DoneInv
  <1>3. CASE Validate
    <2>1. result # "ok" /\ pc = "validate"
      BY <1>3 DEF Validate, DoneInv
    <2>2. result' # "ok" /\ pc' \in {"validate", "stash", "idle"}
      <3>1. CASE Return("MissingToken") \/ Return("Validation")
        BY <3>1 DEF Return
      <3>2. CASE Advance("stash")
        BY <2>1, <3>2 DEF Advance
      <3> QED
        BY <1>3, <3>1, <3>2 DEF Validate
    <2> QED
      BY <2>2 DEF DoneInv
  <1>4. CASE Stash
    <2>1. result # "ok"
      BY <1>4 DEF Stash, DoneInv
    <2>2. CASE pc' = "apply" /\ UNCHANGED <<i, members, args, result>>
      BY <2>1, <2>2 DEF DoneInv
    <2>3. CASE Return("GitStash")
      BY <2>3 DEF Return, DoneInv
    <2> QED
      BY <1>4, <2>2, <2>3 DEF Stash
  <1>5. CASE Apply
    <2> DEFINE d == members[i]
    <2>1. pc = "apply" /\ result # "ok"
      BY <1>5 DEF Apply, DoneInv
    <2>2. CASE pc' = "reset" /\ UNCHANGED <<i, members, args, stashed, result, gitVars, events, pastVars>>
      BY <2>1, <2>2 DEF DoneInv
    <2>3. CASE Advance("pop")
      BY <2>1, <2>3 DEF Advance, DoneInv
    <2>4. CASE i = Len(members) /\ ~stashed /\ Return("ok")
      <3>1. CASE Fits(d)
        <4>1. /\ tree' = Patched(d, tree)
              /\ goal' = [f \in Files |-> IF goal[f] = None THEN None ELSE Patched(d, goal)[f]]
              /\ UNCHANGED <<stash, start, depth>>
          BY <1>5, <2>1, <2>4, <3>1 DEF Apply, Return
        <4>2. ASSUME NEW f \in Files, goal'[f] # None PROVE goal'[f] = tree'[f]
          <5>1. goal[f] # None
            BY <4>1, <4>2
          <5>2. tree[f] = goal[f]
            BY <2>1, <2>4, <5>1 DEF GoalInv, Due, InEntry
          <5> QED
            BY <4>1, <5>1, <5>2 DEF Patched
        <4>3. Len(stash') = depth'
          BY <2>1, <2>4, <4>1 DEF Base, StashInv, Late, PastTypes
        <4> QED
          BY <2>4, <4>2, <4>3 DEF DoneInv, OkIsComplete, Return
      <3>2. CASE ~ Fits(d)
        BY <1>5, <2>1, <3>2 DEF Apply, DoneInv
      <3> QED
        BY <3>1, <3>2
    <2> QED
      BY <1>5, <2>2, <2>3, <2>4 DEF Apply
  <1>6. CASE Pop
    <2>1. pc = "pop" /\ result # "ok"
      BY <1>6 DEF Pop, DoneInv
    <2>2. CASE Return("GitStash")
      BY <2>2 DEF Return, DoneInv
    <2>3. CASE PopFits /\ GitPop /\ Return("ok")
      <3>1. stashed /\ index = HeadTree /\ Len(stash) = depth + 1 /\ depth \in Nat
        BY <2>1 DEF Base, StashInv, Late, PastTypes
      <3>2. stash # <<>>
        BY <3>1, EmptySeq
      <3>3. Len(stash') = depth
        BY <2>3, <3>1, <3>2, TopOfStash DEF GitPop
      <3>4. UNCHANGED <<start, goal, depth>>
        BY <1>6 DEF Pop, pastVars
      <3>5. \A f \in Files : goal[f] # None =>
                tree'[f] = goal[f] \/ (goal[f] = HeadTree[f] /\ tree'[f] = start[f])
        BY <2>1, <2>3, <3>1, PopCompletes DEF GoalInv
      <3> QED
        BY <2>1, <2>3, <3>3, <3>4, <3>5 DEF DoneInv, OkIsComplete, Return
    <2> QED
      BY <1>6, <2>2, <2>3 DEF Pop
  <1>7. CASE Reset \/ Unstash \/ IoError \/ Kill
    <2>1. pc # "idle" /\ result # "ok"
      BY <1>7 DEF Reset, Unstash, IoError, Kill, DoneInv
    <2>2. result' # "ok" /\ pc' \in {"idle", "unstash"}
      BY <1>7, <2>1 DEF Reset, Unstash, IoError, Kill, Return
    <2> QED
      BY <2>2 DEF DoneInv
  <1>8. ASSUME UNCHANGED callVars, UNCHANGED <<stash, depth>>,
                result = "ok" /\ OkIsComplete =>
                    \A f \in Files : \/ goal'[f] \in {tree'[f], None}
                                     \/ goal'[f] = HeadTree[f] /\ tree'[f] = start'[f]
         PROVE  DoneInv'
    <2>1. UNCHANGED <<pc, i, members, result>>
      BY <1>8 DEF callVars
    <2>2. ASSUME result = "ok" PROVE OkIsComplete'
      <3>1. OkIsComplete
        BY <2>2 DEF DoneInv
      <3> QED
        BY <1>8, <2>2, <3>1 DEF OkIsComplete
    <2> QED
      BY <1>8, <2>1, <2>2 DEF DoneInv
  <1>9. ASSUME NEW g \in Files, NEW v \in Content, Edit(g, v) PROVE DoneInv'
    <2>1. ASSUME result = "ok", OkIsComplete, NEW f \in Files
          PROVE  \/ goal'[f] \in {tree'[f], None}
                 \/ goal'[f] = HeadTree[f] /\ tree'[f] = start'[f]
      <3>1. CASE f = g
        <4>1. tree'[g] = v /\ goal'[g] \in {v, None}
          BY <1>9 DEF Edit, GitTypes, PastTypes
        <4> QED
          BY <3>1, <4>1
      <3>2. CASE f # g
        <4>1. tree'[f] = tree[f] /\ goal'[f] = goal[f] /\ start'[f] = start[f]
          BY <1>9, <3>2 DEF Edit, GitTypes, PastTypes
        <4> QED
          BY <2>1, <4>1 DEF OkIsComplete
      <3> QED
        BY <3>1, <3>2
    <2> QED
      BY <1>8, <1>9, <2>1 DEF Edit
  <1>10. ASSUME UNCHANGED <<tree, stash, callVars, pastVars>> PROVE DoneInv'
    BY <1>8, <1>10 DEF pastVars, OkIsComplete
  <1>11. ASSUME NEW f \in Files, Stage(f) PROVE DoneInv'
    BY <1>10, <1>11 DEF Stage
  <1> QED
    BY <1>1, <1>2, <1>3, <1>4, <1>5, <1>6, <1>7, <1>9, <1>10, <1>11
    DEF Next, vars, CheckSet, InsertSet, gitVars

-----------------------------------------------------------------------------
(* The theorems.                                                           *)

LEMMA InitInv == Init => IInv
  <1> SUFFICES ASSUME Init PROVE IInv
    OBVIOUS
  <1> USE SetAssumption
  <1>1. GitTypes /\ CallTypes
    BY EmptySeq DEF Init, GitTypes, CallTypes, Phases, Results
  <1>2. PastTypes
    BY DEF Init, PastTypes
  <1>3. SetTypes
    BY DEF Init, SetTypes
  <1>4. CapTypes
    BY DEF Init, CapTypes
  <1>5. RowsInv
    BY FS_EmptySet DEF Init, RowsInv
  <1>6. MembersInv /\ PaidInv /\ EventsInv /\ StashInv /\ WorkInv /\ GoalInv /\ DoneInv
    BY DEF Init, MembersInv, PaidInv, EventsInv, StashInv, WorkInv, GoalInv, DoneInv, Early, Late
  <1> QED
    BY <1>1, <1>2, <1>3, <1>4, <1>5, <1>6, TypeParts DEF IInv

LEMMA Inductive == Spec => []IInv
  <1>1. IInv /\ [Next]_vars => IInv'
    BY TypeStep, RowsStep, MembersStep, PaidStep, EventsStep, StashStep, WorkStep, GoalStep, DoneStep
    DEF IInv, Base
  <1> QED
    BY <1>1, InitInv, PTL DEF Spec

\* The rows, the call, the work tree and the stash list are well typed, and the call is
\* always at a member of the set or at none.
THEOREM SetTypeOK == Spec => []TypeOK
  <1>1. IInv => TypeOK
    BY DEF IInv
  <1> QED
    BY <1>1, Inductive, PTL

\* The members of a set never change, however many processes create it at once.
THEOREM SetNeverChanges == Spec => MembershipFrozen
  <1>1. [Next]_vars => [isSet => isSet' /\ rows' = rows]_vars
    BY SetChanges
  <1> QED
    BY <1>1, PTL DEF Spec, MembershipFrozen

\* Nothing of a set is applied before each of its members has had a token of its own
\* consumed by this very call, whatever the list of members and in whatever order; and
\* a diff_applied row that outlives a rollback still stands for that.
THEOREM SetIsApproved == Spec => []WholeSetApproved
  <1>1. ASSUME IInv, pc \in {"apply", "reset", "unstash", "pop"}, NEW r \in rows
        PROVE  args[r.diff] \in used \ paid /\ DiffOfToken[args[r.diff]] = r.diff
    BY <1>1, AllApproved DEF IInv, Late
  <1>2. IInv => WholeSetApproved
    BY <1>1 DEF WholeSetApproved, IInv, EventsInv
  <1> QED
    BY <1>2, Inductive, PTL

\* What the user had not committed is in the work tree or in the stash list, whatever
\* fails, dies or conflicts, and however many calls left their entry behind.
THEOREM WorkIsKept == Spec => []UserWorkKept
  <1>1. IInv => UserWorkKept
    BY DEF IInv, WorkInv, UserWorkKept
  <1> QED
    BY <1>1, Inductive, PTL

\* Ok says that every patch landed on top of what was there, that the user has the
\* changes back, and that the stash list is as it was.
THEOREM OkTellsAll == Spec => []OkIsComplete
  <1>1. IInv => OkIsComplete
    BY DEF IInv, DoneInv, OkIsComplete
  <1> QED
    BY <1>1, Inductive, PTL
=============================================================================

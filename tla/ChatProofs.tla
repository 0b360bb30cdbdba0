------------------------------ MODULE ChatProofs ------------------------------
(***************************************************************************)
(* Reassembled for bodies of any length, cut into chunks in any way.       *)
(***************************************************************************)
EXTENDS ChatStream, SequenceTheorems, WellFoundedInduction, TLAPS

-----------------------------------------------------------------------------
(* Induction, with a set for what is to hold.                              *)

LEMMA FromZero ==
    ASSUME NEW T, 0 \in T, \A n \in Nat : n \in T => n + 1 \in T
    PROVE  Nat \subseteq T
  <1> DEFINE S == Nat \ T
  <1> SUFFICES ASSUME S # {} PROVE FALSE
    OBVIOUS
  <1>1. PICK m \in S : \A k \in S : ~ <<k, m>> \in OpToRel(<, Nat)
    BY NatLessThanWellFounded, WFMin
  <1>2. m \in Nat /\ m # 0 /\ m - 1 \in Nat
    OBVIOUS
  <1>3. m - 1 \notin S
    <2>1. <<m - 1, m>> \in OpToRel(<, Nat)
      BY <1>2 DEF OpToRel
    <2> QED
      BY <1>1, <2>1
  <1>4. (m - 1) + 1 \in T
    BY <1>2, <1>3
  <1> QED
    BY <1>2, <1>4

LEMMA FromEmpty ==
    ASSUME NEW A, NEW T, <<>> \in T,
           \A s \in Seq(A) : s \in T => \A x \in A : Append(s, x) \in T
    PROVE  Seq(A) \subseteq T
  <1> DEFINE N == {n \in Nat : \A s \in Seq(A) : Len(s) = n => s \in T}
  <1>1. 0 \in N
    <2> SUFFICES ASSUME NEW s \in Seq(A), Len(s) = 0 PROVE s \in T
      OBVIOUS
    <2>1. s = <<>>
      BY EmptySeq
    <2> QED
      BY <2>1
  <1>2. ASSUME NEW n \in Nat, n \in N PROVE n + 1 \in N
    <2> SUFFICES ASSUME NEW s \in Seq(A), Len(s) = n + 1 PROVE s \in T
      OBVIOUS
    <2>1. s # <<>>
      BY EmptySeq
    <2>2. PICK t \in Seq(A), x \in A : s = Append(t, x)
      BY <2>1, SequenceEmptyOrAppend
    <2>3. Len(t) = n
      BY <2>2, AppendProperties, LenProperties
    <2> QED
      BY <1>2, <2>2, <2>3
  <1> HIDE DEF N
  <1>3. Nat \subseteq N
    BY <1>1, <1>2, FromZero
  <1> QED
    BY <1>3, LenProperties DEF N

LEMMA Least ==
    ASSUME NEW S, S \subseteq Nat, S # {}
    PROVE  \E m \in S : \A k \in S : m <= k
  <1>1. PICK m \in S : \A k \in S : ~ <<k, m>> \in OpToRel(<, Nat)
    BY NatLessThanWellFounded, WFMin
  <1>2. ASSUME NEW k \in S PROVE m <= k
    <2>1. k \in Nat /\ m \in Nat
      OBVIOUS
    <2>2. ~ k < m
      BY <1>1, <2>1 DEF OpToRel
    <2> QED
      BY <2>1, <2>2
  <1> QED
    BY <1>2

LEMMA Greatest ==
    ASSUME NEW n \in Nat, NEW S, S \subseteq 0..n, S # {}
    PROVE  \E m \in S : \A k \in S : k <= m
  <1> DEFINE D == {n - k : k \in S}
  <1>1. D \subseteq Nat /\ D # {}
    OBVIOUS
  <1>2. PICK d \in D : \A e \in D : d <= e
    BY <1>1, Least
  <1>3. PICK m \in S : d = n - m
    OBVIOUS
  <1>4. ASSUME NEW k \in S PROVE k <= m
    <2>1. n - k \in D /\ k \in 0..n /\ m \in 0..n
      OBVIOUS
    <2>2. n - m <= n - k
      BY <1>2, <1>3, <2>1
    <2> QED
      BY <2>1, <2>2
  <1> QED
    BY <1>4

LEMMA MaxIs ==
    ASSUME NEW S, S \subseteq Int, NEW m \in S, \A k \in S : k <= m
    PROVE  Max(S) = m
  <1>1. \A x \in S : (\A k \in S : x >= k) => x = m
    OBVIOUS
  <1>2. m \in S /\ \A k \in S : m >= k
    OBVIOUS
  <1>3. (CHOOSE x \in S : \A y \in S : x >= y) = m
    BY <1>1, <1>2
  <1> QED
    BY <1>3 DEF Max

LEMMA MinIs ==
    ASSUME NEW S, S \subseteq Int, NEW m \in S, \A k \in S : m <= k
    PROVE  Min(S) = m
  <1>1. \A x \in S : (\A k \in S : x =< k) => x = m
    OBVIOUS
  <1>2. m \in S /\ \A k \in S : m =< k
    OBVIOUS
  <1>3. (CHOOSE x \in S : \A y \in S : x =< y) = m
    BY <1>1, <1>2
  <1> QED
    BY <1>3 DEF Min

-----------------------------------------------------------------------------
(* FlattenSeq                                                              *)

Flat(ss, n, g) == g = [i \in 1..n |-> IF i = 1 THEN ss[i] ELSE g[i - 1] \o ss[i]]

LEMMA FlatExists ==
    ASSUME NEW ss, NEW n \in Nat
    PROVE  \E g : Flat(ss, n, g)
  <1> DEFINE T == {k \in Nat : \E g : Flat(ss, k, g)}
  <1>1. 0 \in T
    <2> DEFINE g == [i \in 1..0 |-> ss[i]]
    <2>1. Flat(ss, 0, g)
      BY DEF Flat
    <2> QED
      BY <2>1
  <1>2. ASSUME NEW k \in Nat, k \in T PROVE k + 1 \in T
    <2>1. PICK g : Flat(ss, k, g)
      BY <1>2
    <2> DEFINE top == IF k = 0 THEN ss[1] ELSE g[k] \o ss[k + 1]
               h == [i \in 1..(k + 1) |-> IF i = k + 1 THEN top ELSE g[i]]
    <2>2. \A i \in 1..k : g[i] = IF i = 1 THEN ss[i] ELSE g[i - 1] \o ss[i]
      BY <2>1, Zenon DEF Flat
    <2> HIDE DEF top
    <2>3. /\ \A i \in 1..k : h[i] = g[i] /\ i \in 1..(k + 1)
          /\ h[k + 1] = top /\ DOMAIN h = 1..(k + 1)
      OBVIOUS
    <2>4. h = [i \in 1..(k + 1) |-> h[i]]
      OBVIOUS
    <2> HIDE DEF h
    <2> USE DEF top
    <2>5. ASSUME NEW i \in 1..(k + 1)
          PROVE  h[i] = IF i = 1 THEN ss[i] ELSE h[i - 1] \o ss[i]
      <3>1. CASE i \in 1..k
        <4>1. i = 1 \/ i - 1 \in 1..k
          BY <3>1
        <4> QED
          BY <2>2, <2>3, <3>1, <4>1
      <3>2. CASE i = k + 1
        <4>1. k = 0 \/ (k \in 1..k /\ i # 1 /\ i - 1 = k)
          BY <3>2
        <4> QED
          BY <2>3, <3>2, <4>1
      <3> QED
        BY <3>1, <3>2
    <2>6. Flat(ss, k + 1, h)
      BY <2>5, <2>4, Zenon DEF Flat
    <2> QED
      BY <2>6
  <1> HIDE DEF T
  <1>3. Nat \subseteq T
    BY <1>1, <1>2, FromZero
  <1> QED
    BY <1>3 DEF T

LEMMA FlatAgree ==
    ASSUME NEW ss, NEW tt, NEW n \in Nat, NEW m \in Nat, n <= m,
           NEW g, NEW h, Flat(ss, n, g), Flat(tt, m, h),
           \A i \in 1..n : ss[i] = tt[i]
    PROVE  \A i \in 1..n : g[i] = h[i]
  <1>1. \A i \in 1..n : g[i] = IF i = 1 THEN ss[i] ELSE g[i - 1] \o ss[i]
    BY Zenon DEF Flat
  <1>2. \A i \in 1..m : h[i] = IF i = 1 THEN tt[i] ELSE h[i - 1] \o tt[i]
    BY Zenon DEF Flat
  <1> DEFINE T == {k \in Nat : k \in 1..n => g[k] = h[k]}
  <1>3. 0 \in T
    OBVIOUS
  <1>4. ASSUME NEW k \in Nat, k \in T PROVE k + 1 \in T
    <2> SUFFICES ASSUME k + 1 \in 1..n PROVE g[k + 1] = h[k + 1]
      OBVIOUS
    <2>1. k + 1 \in 1..m /\ (k + 1) - 1 = k /\ (k = 0 \/ k \in 1..n)
      OBVIOUS
    <2> QED
      BY <1>1, <1>2, <1>4, <2>1
  <1> HIDE DEF T
  <1>5. Nat \subseteq T
    BY <1>3, <1>4, FromZero
  <1> QED
    BY <1>5 DEF T

\* What FlattenSeq takes from the recursive function of its definition.
LEMMA FlattenIsFlat ==
    ASSUME NEW ss, Len(ss) \in Nat, Len(ss) # 0
    PROVE  \E g : Flat(ss, Len(ss), g) /\ FlattenSeq(ss) = g[Len(ss)]
  <1> DEFINE g == CHOOSE f : Flat(ss, Len(ss), f)
  <1>1. Flat(ss, Len(ss), g)
    BY FlatExists
  <1>2. FlattenSeq(ss) = g[Len(ss)]
    BY DEF FlattenSeq, Flat
  <1> QED
    BY <1>1, <1>2

LEMMA FlattenEmpty == FlattenSeq(<<>>) = <<>>
  BY DEF FlattenSeq

LEMMA FlattenAppend ==
    ASSUME NEW A, NEW ss \in Seq(Seq(A)), NEW x \in Seq(A)
    PROVE  FlattenSeq(Append(ss, x)) = FlattenSeq(ss) \o x
  <1> DEFINE n == Len(ss)
             tt == Append(ss, x)
  <1>1. /\ n \in Nat /\ tt \in Seq(Seq(A)) /\ Len(tt) = n + 1
        /\ \A i \in 1..n : tt[i] = ss[i]
        /\ tt[n + 1] = x
    BY AppendProperties, LenProperties
  <1>2. PICK h : Flat(tt, n + 1, h) /\ FlattenSeq(tt) = h[n + 1]
    <2>1. Len(tt) \in Nat /\ Len(tt) # 0
      BY <1>1
    <2> HIDE DEF tt, n
    <2>2. \E h : Flat(tt, Len(tt), h) /\ FlattenSeq(tt) = h[Len(tt)]
      BY <2>1, FlattenIsFlat
    <2> QED
      BY <1>1, <2>2
  <1>3. h[n + 1] = IF n + 1 = 1 THEN tt[n + 1] ELSE h[(n + 1) - 1] \o tt[n + 1]
    <2>1. n + 1 \in 1..(n + 1)
      BY <1>1
    <2> QED
      BY <1>2, <2>1, Zenon DEF Flat
  <1>4. CASE n = 0
    <2>1. ss = <<>>
      BY <1>4, EmptySeq
    <2>2. <<>> \o x = x
      BY ConcatEmptySeq
    <2> QED
      BY <1>1, <1>2, <1>3, <1>4, <2>1, <2>2, FlattenEmpty
  <1>5. CASE n # 0
    <2>1. PICK g : Flat(ss, n, g) /\ FlattenSeq(ss) = g[n]
      BY <1>1, <1>5, FlattenIsFlat
    <2>2. g[n] = h[n]
      <3>1. ASSUME NEW k \in Nat, NEW m \in Nat, k = n, m = n + 1
            PROVE  \A i \in 1..k : g[i] = h[i]
        <4>1. Flat(ss, k, g) /\ Flat(tt, m, h) /\ k <= m
          BY <1>2, <2>1, <3>1
        <4>2. \A i \in 1..k : ss[i] = tt[i]
          BY <1>1, <3>1
        <4> HIDE DEF tt
        <4> QED
          BY <4>1, <4>2, FlatAgree
      <3>2. n \in Nat /\ n + 1 \in Nat /\ n \in 1..n
        BY <1>1, <1>5
      <3> QED
        BY <3>1, <3>2
    <2>3. n + 1 # 1 /\ (n + 1) - 1 = n
      BY <1>1, <1>5
    <2> QED
      BY <1>1, <1>2, <1>3, <2>1, <2>2, <2>3
  <1> QED
    BY <1>4, <1>5

LEMMA FlattenType ==
    ASSUME NEW A, NEW ss \in Seq(Seq(A))
    PROVE  FlattenSeq(ss) \in Seq(A)
  <1> DEFINE T == {s \in Seq(Seq(A)) : FlattenSeq(s) \in Seq(A)}
  <1>1. <<>> \in T
    BY FlattenEmpty, EmptySeq
  <1>2. ASSUME NEW s \in Seq(Seq(A)), s \in T, NEW x \in Seq(A) PROVE Append(s, x) \in T
    BY <1>2, FlattenAppend, ConcatProperties, AppendProperties
  <1> HIDE DEF T
  <1>3. Seq(Seq(A)) \subseteq T
    BY <1>1, <1>2, FromEmpty
  <1> QED
    BY <1>3 DEF T

LEMMA FlattenConcat ==
    ASSUME NEW A, NEW ss \in Seq(Seq(A)), NEW tt \in Seq(Seq(A))
    PROVE  FlattenSeq(ss \o tt) = FlattenSeq(ss) \o FlattenSeq(tt)
  <1> DEFINE T == {t \in Seq(Seq(A)) : FlattenSeq(ss \o t) = FlattenSeq(ss) \o FlattenSeq(t)}
  <1>1. <<>> \in T
    BY FlattenEmpty, FlattenType, ConcatEmptySeq, EmptySeq
  <1>2. ASSUME NEW t \in Seq(Seq(A)), t \in T, NEW x \in Seq(A) PROVE Append(t, x) \in T
    <2>1. ss \o t \in Seq(Seq(A)) /\ ss \o Append(t, x) = Append(ss \o t, x)
      BY ConcatProperties, AppendIsConcat, ConcatAssociative
    <2>2. FlattenSeq(Append(ss \o t, x)) = FlattenSeq(ss \o t) \o x
      BY <2>1, FlattenAppend
    <2>3. FlattenSeq(ss) \in Seq(A) /\ FlattenSeq(t) \in Seq(A)
      BY FlattenType
    <2>4. (FlattenSeq(ss) \o FlattenSeq(t)) \o x = FlattenSeq(ss) \o (FlattenSeq(t) \o x)
      BY <2>3, ConcatAssociative
    <2>5. FlattenSeq(Append(t, x)) = FlattenSeq(t) \o x
      BY FlattenAppend
    <2>6. Append(t, x) \in Seq(Seq(A))
      BY AppendProperties
    <2> QED
      BY <1>2, <2>1, <2>2, <2>4, <2>5, <2>6
  <1> HIDE DEF T
  <1>3. Seq(Seq(A)) \subseteq T
    BY <1>1, <1>2, FromEmpty
  <1> QED
    BY <1>3 DEF T

LEMMA PiecesAppend ==
    ASSUME NEW C, NEW p \in Seq(C), NEW q, NEW c \in C,
           DOMAIN q = 1..(Len(p) + 1), q = [i \in DOMAIN q |-> q[i]],
           \A i \in 1..Len(p) : q[i] = p[i], q[Len(p) + 1] = c
    PROVE  q = Append(p, c)
  <1>1. /\ Len(p) \in Nat /\ Append(p, c) \in Seq(C) /\ Len(Append(p, c)) = Len(p) + 1
        /\ \A i \in 1..Len(p) : Append(p, c)[i] = p[i]
        /\ Append(p, c)[Len(p) + 1] = c
        /\ \A i \in 1..Len(p) : p[i] \in C
    BY AppendProperties, LenProperties, ElementOfSeq
  <1>2. Append(p, c) = [i \in 1..(Len(p) + 1) |-> Append(p, c)[i]]
    BY <1>1, LenProperties
  <1>3. \A i \in 1..(Len(p) + 1) : i \in 1..Len(p) \/ i = Len(p) + 1
    BY <1>1
  <1>4. \A i \in 1..(Len(p) + 1) : q[i] = Append(p, c)[i]
    BY <1>1, <1>3
  <1> QED
    BY <1>2, <1>4

LEMMA SubSeqAppend ==
    ASSUME NEW A, NEW s \in Seq(A), NEW x \in A, NEW m \in Nat \ {0}, NEW n \in Int, n <= Len(s)
    PROVE  /\ SubSeq(Append(s, x), m, n) = SubSeq(s, m, n)
           /\ SubSeq(s, m, n) \in Seq(A)
  <1>1. /\ Len(s) \in Nat /\ Append(s, x) \in Seq(A) /\ Len(Append(s, x)) = Len(s) + 1
        /\ \A i \in 1..Len(s) : Append(s, x)[i] = s[i] /\ s[i] \in A
    BY AppendProperties, LenProperties, ElementOfSeq
  <1>2. \A i \in m..n : i \in 1..Len(s)
    BY <1>1
  <1>3. \A i \in m..n : s[i] \in A /\ Append(s, x)[i] \in A
    BY <1>1, <1>2
  <1>4. /\ SubSeq(s, m, n) \in Seq(A) /\ SubSeq(Append(s, x), m, n) \in Seq(A)
        /\ Len(SubSeq(s, m, n)) = Len(SubSeq(Append(s, x), m, n))
        /\ Len(SubSeq(s, m, n)) = IF m <= n THEN n - m + 1 ELSE 0
        /\ \A i \in 1..(n - m + 1) : SubSeq(s, m, n)[i] = s[m + i - 1]
        /\ \A i \in 1..(n - m + 1) : SubSeq(Append(s, x), m, n)[i] = Append(s, x)[m + i - 1]
    BY <1>3, SubSeqProperties
  <1>5. \A i \in 1..(n - m + 1) : m + i - 1 \in m..n
    OBVIOUS
  <1>6. \A i \in 1..Len(SubSeq(s, m, n)) : SubSeq(s, m, n)[i] = SubSeq(Append(s, x), m, n)[i]
    <2> SUFFICES ASSUME NEW i \in 1..Len(SubSeq(s, m, n))
                 PROVE  SubSeq(s, m, n)[i] = SubSeq(Append(s, x), m, n)[i]
      OBVIOUS
    <2>1. i \in 1..(n - m + 1)
      BY <1>4
    <2>2. m + i - 1 \in m..n
      BY <1>5, <2>1
    <2>3. Append(s, x)[m + i - 1] = s[m + i - 1]
      BY <1>1, <1>2, <2>2
    <2> QED
      BY <1>4, <2>1, <2>3
  <1> QED
    BY <1>4, <1>6, SeqEqual

-----------------------------------------------------------------------------
(* Lines                                                                   *)

Symbols == Bytes \cup {"char", "?"}
Text == Seq(Symbols)

LEMMA LastEndIs ==
    ASSUME NEW s \in Text, NEW m \in LineEnds(s) \cup {0}, \A k \in LineEnds(s) : k <= m
    PROVE  LastEnd(s) = m
  <1>1. DOMAIN s = 1..Len(s) /\ Len(s) \in Nat
    BY LenProperties DEF Text
  <1>2. LineEnds(s) \subseteq 1..Len(s)
    BY <1>1 DEF LineEnds
  <1>3. LineEnds(s) \cup {0} \subseteq Int /\ \A k \in LineEnds(s) \cup {0} : k <= m
    BY <1>1, <1>2
  <1> QED
    BY <1>3, MaxIs DEF LastEnd

LEMMA EndsOfAppend ==
    ASSUME NEW s \in Text, NEW x \in Symbols
    PROVE  LineEnds(Append(s, x)) = LineEnds(s) \cup (IF x = "nl" THEN {Len(s) + 1} ELSE {})
  <1>1. /\ Len(s) \in Nat /\ DOMAIN s = 1..Len(s)
        /\ DOMAIN Append(s, x) = 1..(Len(s) + 1)
        /\ \A i \in 1..Len(s) : Append(s, x)[i] = s[i]
        /\ Append(s, x)[Len(s) + 1] = x
    BY AppendProperties, LenProperties DEF Text
  <1>2. 1..(Len(s) + 1) = (1..Len(s)) \cup {Len(s) + 1}
    BY <1>1
  <1> QED
    BY <1>1, <1>2 DEF LineEnds

\* LastEnd is the last line end of the text, 0 if there is none.
LEMMA LastEndTyped ==
    ASSUME NEW s \in Text
    PROVE  /\ LastEnd(s) \in LineEnds(s) \cup {0} /\ \A k \in LineEnds(s) : k <= LastEnd(s)
           /\ LastEnd(s) \in 0..Len(s)
  <1>1. Len(s) \in Nat /\ LineEnds(s) \cup {0} \subseteq 0..Len(s)
    BY LenProperties DEF LineEnds, Text
  <1>2. PICK m \in LineEnds(s) \cup {0} : \A k \in LineEnds(s) \cup {0} : k <= m
    BY <1>1, Greatest
  <1>3. LastEnd(s) = m
    BY <1>2, LastEndIs
  <1> QED
    BY <1>1, <1>2, <1>3

LEMMA LastEndNat ==
    ASSUME NEW s \in Text
    PROVE  LastEnd(s) + 1 \in Nat \ {0}
  <1>1. Len(s) \in Nat /\ LastEnd(s) \in 0..Len(s)
    BY LastEndTyped, LenProperties DEF Text
  <1> QED
    BY <1>1

\* What is left of a text that grows by a symbol.
LEMMA RestAppend ==
    ASSUME NEW s \in Text, NEW x \in Symbols
    PROVE  /\ Rest(s) \in Text
           /\ x # "nl" => Rest(Append(s, x)) = Append(Rest(s), x)
           /\ x = "nl" => Rest(Append(s, x)) = <<>>
  <1>1. /\ Len(s) \in Nat /\ Append(s, x) \in Text /\ Len(Append(s, x)) = Len(s) + 1
        /\ Append(s, x)[Len(s) + 1] = x
    BY AppendProperties, LenProperties DEF Text
  <1>2. LastEnd(s) \in 0..Len(s)
    BY LastEndTyped
  <1>3. Rest(s) \in Text
    BY <1>1, <1>2, SubSeqAppend DEF Rest, Text
  <1>4. CASE x # "nl"
    <2>1. LineEnds(Append(s, x)) = LineEnds(s)
      BY <1>4, EndsOfAppend
    <2>2. LastEnd(Append(s, x)) = LastEnd(s)
      BY <2>1 DEF LastEnd
    <2> DEFINE m == LastEnd(s) + 1
    <2>3. Rest(Append(s, x)) = SubSeq(Append(s, x), m, Len(s) + 1)
      BY <1>1, <2>2 DEF Rest
    <2>4. m \in 1..(Len(s) + 1) /\ Len(s) + 1 \in m..(Len(s) + 1) /\ (Len(s) + 1) - 1 = Len(s)
      BY <1>1, <1>2
    <2>5. SubSeq(Append(s, x), m, Len(s) + 1)
          = SubSeq(Append(s, x), m, Len(s)) \o <<Append(s, x)[Len(s) + 1]>>
      BY <1>1, <2>4, SubSeqRecursiveSecond DEF Text
    <2>6. SubSeq(Append(s, x), m, Len(s)) = Rest(s)
      BY <1>1, <2>4, SubSeqAppend DEF Rest, Text
    <2>7. Rest(s) \o <<x>> = Append(Rest(s), x)
      BY <1>3, AppendIsConcat DEF Text
    <2> QED
      BY <1>1, <1>3, <1>4, <2>3, <2>5, <2>6, <2>7
  <1>5. CASE x = "nl"
    <2>1. LineEnds(Append(s, x)) = LineEnds(s) \cup {Len(s) + 1}
      BY <1>5, EndsOfAppend
    <2>2. \A k \in LineEnds(s) : k <= LastEnd(s) /\ k \in 1..Len(s)
      BY <1>1, LastEndTyped, LenProperties DEF LineEnds, Text
    <2>3. \A k \in LineEnds(Append(s, x)) : k <= Len(s) + 1
      BY <1>1, <2>1, <2>2
    <2>4. LastEnd(Append(s, x)) = Len(s) + 1
      BY <1>1, <2>1, <2>3, LastEndIs
    <2>5. Rest(Append(s, x)) = <<>>
      BY <1>1, <2>4, SubSeqEmpty DEF Rest
    <2> QED
      BY <1>3, <1>5, <2>5
  <1> QED
    BY <1>4, <1>5

LinePieces(s) == [i \in DOMAIN s |-> IF s[i] = "nl" THEN <<Line(s, i)>> ELSE <<>>]

LEMMA LinePiecesTyped ==
    ASSUME NEW s \in Text
    PROVE  /\ LinePieces(s) \in Seq(Seq(Text)) /\ Len(LinePieces(s)) = Len(s)
           /\ DOMAIN LinePieces(s) = 1..Len(s)
  <1>1. Len(s) \in Nat /\ DOMAIN s = 1..Len(s)
    BY LenProperties DEF Text
  <1>2. ASSUME NEW i \in 1..Len(s) PROVE Line(s, i) \in Text
    <2> DEFINE p == SubSeq(s, 1, i - 1)
    <2>1. s # <<>> /\ i - 1 \in Int /\ i - 1 <= Len(s)
      BY <1>1, <1>2, EmptySeq
    <2>2. p \in Text
      <3>1. PICK x \in Symbols : TRUE
        BY DEF Symbols, Bytes
      <3> QED
        BY <2>1, <3>1, SubSeqAppend DEF Text
    <2>3. LastEnd(p) + 1 \in Nat \ {0}
      BY <2>2, LastEndNat
    <2>4. PICK x \in Symbols : TRUE
      BY DEF Symbols, Bytes
    <2> HIDE DEF p
    <2>5. SubSeq(s, LastEnd(p) + 1, i - 1) \in Text
      BY <2>1, <2>3, <2>4, SubSeqAppend DEF Text
    <2> QED
      BY <2>5 DEF Line, p
  <1>3. \A i \in 1..Len(s) : LinePieces(s)[i] \in Seq(Text)
    BY <1>1, <1>2 DEF LinePieces
  <1>4. LinePieces(s) = [i \in 1..Len(s) |-> LinePieces(s)[i]]
    BY <1>1 DEF LinePieces
  <1> QED
    BY <1>1, <1>3, <1>4

LEMMA LinesTyped ==
    ASSUME NEW s \in Text
    PROVE  Lines(s) \in Seq(Text)
  <1>1. Lines(s) = FlattenSeq(LinePieces(s))
    BY DEF Lines, LinePieces
  <1> QED
    BY <1>1, LinePiecesTyped, FlattenType

\* The lines of a text that grows by a symbol.
LEMMA LinesAppend ==
    ASSUME NEW s \in Text, NEW x \in Symbols
    PROVE  /\ x # "nl" => Lines(Append(s, x)) = Lines(s)
           /\ x = "nl" => Lines(Append(s, x)) = Append(Lines(s), Rest(s))
  <1> DEFINE t == Append(s, x)
             n == Len(s)
             c == IF x = "nl" THEN <<Rest(s)>> ELSE <<>>
  <1>1. /\ n \in Nat /\ t \in Text /\ Len(t) = n + 1 /\ DOMAIN t = 1..(n + 1) /\ DOMAIN s = 1..n
        /\ \A i \in 1..n : t[i] = s[i]
        /\ t[n + 1] = x
    BY AppendProperties, LenProperties DEF Text
  <1>2. ASSUME NEW i \in 1..n PROVE Line(t, i) = Line(s, i)
    <2>1. i - 1 \in Int /\ i - 1 <= n
      BY <1>1
    <2>2. SubSeq(t, 1, i - 1) = SubSeq(s, 1, i - 1) /\ SubSeq(s, 1, i - 1) \in Text
      BY <2>1, SubSeqAppend DEF Text
    <2> DEFINE m == LastEnd(SubSeq(s, 1, i - 1)) + 1
    <2>3. m \in Nat \ {0}
      BY <2>2, LastEndNat
    <2>4. Line(t, i) = SubSeq(t, m, i - 1) /\ Line(s, i) = SubSeq(s, m, i - 1)
      BY <2>2 DEF Line
    <2> HIDE DEF m
    <2> QED
      BY <2>1, <2>3, <2>4, SubSeqAppend DEF Text
  <1>3. Line(t, n + 1) = Rest(s)
    <2>1. SubSeq(t, 1, n) = s
      BY <1>1, SubSeqAppend, SubSeqFull DEF Text
    <2>2. LastEnd(s) + 1 \in Nat \ {0}
      BY LastEndNat
    <2>3. (n + 1) - 1 = n /\ n \in Int /\ n <= n
      BY <1>1
    <2>4. Line(t, n + 1) = SubSeq(t, LastEnd(s) + 1, n)
      BY <2>1, <2>3 DEF Line
    <2>5. SubSeq(t, LastEnd(s) + 1, n) = SubSeq(s, LastEnd(s) + 1, n)
      BY <1>1, <2>2, <2>3, SubSeqAppend DEF Text
    <2> QED
      BY <2>4, <2>5 DEF Rest
  <1>4. LinePieces(t) = Append(LinePieces(s), c)
    <2>1. c \in Seq(Text)
      BY RestAppend
    <2>2. LinePieces(s) \in Seq(Seq(Text)) /\ Len(LinePieces(s)) = n
      BY LinePiecesTyped
    <2>3. /\ DOMAIN LinePieces(t) = 1..(n + 1)
          /\ LinePieces(t) = [i \in DOMAIN LinePieces(t) |-> LinePieces(t)[i]]
          /\ \A i \in 1..n : LinePieces(t)[i] = LinePieces(s)[i]
      <3> HIDE DEF t, n
      <3>1. \A i \in 1..n : i \in 1..(n + 1)
        BY <1>1
      <3> QED
        BY <1>1, <1>2, <3>1 DEF LinePieces
    <2>4. LinePieces(t)[n + 1] = c
      <3> HIDE DEF t, n
      <3>1. n + 1 \in 1..(n + 1)
        BY <1>1
      <3> QED
        BY <1>1, <1>3, <3>1 DEF LinePieces
    <2> HIDE DEF t, c
    <2> QED
      BY <2>1, <2>2, <2>3, <2>4, PiecesAppend
  <1>5. c \in Seq(Text)
    BY RestAppend
  <1>6. Lines(t) = Lines(s) \o c
    <2>1. Lines(t) = FlattenSeq(LinePieces(t)) /\ Lines(s) = FlattenSeq(LinePieces(s))
      BY DEF Lines, LinePieces
    <2>2. LinePieces(s) \in Seq(Seq(Text))
      BY LinePiecesTyped
    <2> HIDE DEF t, c
    <2> QED
      BY <1>4, <1>5, <2>1, <2>2, FlattenAppend
  <1>7. Lines(s) \in Seq(Text) /\ Rest(s) \in Text
    BY LinesTyped, RestAppend
  <1>8. Lines(s) \o <<>> = Lines(s) /\ Lines(s) \o <<Rest(s)>> = Append(Lines(s), Rest(s))
    BY <1>7, ConcatEmptySeq, AppendIsConcat
  <1> QED
    BY <1>6, <1>8

LEMMA NoText == Lines(<<>>) = <<>> /\ Rest(<<>>) = <<>> /\ <<>> \in Text
  <1>1. [i \in DOMAIN <<>> |-> IF <<>>[i] = "nl" THEN <<Line(<<>>, i)>> ELSE <<>>] = <<>>
    OBVIOUS
  <1>2. Lines(<<>>) = <<>>
    BY <1>1, FlattenEmpty DEF Lines
  <1>3. <<>> \in Text /\ Len(<<>>) = 0
    BY EmptySeq DEF Text
  <1>4. LineEnds(<<>>) = {}
    BY DEF LineEnds
  <1>5. LastEnd(<<>>) = 0
    BY <1>3, <1>4, LastEndIs
  <1>6. Rest(<<>>) = <<>>
    BY <1>3, <1>5, SubSeqEmpty DEF Rest
  <1> QED
    BY <1>2, <1>3, <1>6

Plain == Symbols \ {"hi", "lo"}

LEMMA PlainText == Seq(Plain) \subseteq Text /\ Strings \subseteq Seq(Plain)
  BY DEF Text, Plain, Strings, Symbols

\* The lines of a decoded text, and its rest, are strings without a line end.
LEMMA LinesAreStrings ==
    ASSUME NEW s \in Seq(Plain)
    PROVE  Lines(s) \in Seq(Strings) /\ Rest(s) \in Strings
  <1> DEFINE T == {t \in Seq(Plain) : Lines(t) \in Seq(Strings) /\ Rest(t) \in Strings}
  <1>1. <<>> \in T
    BY NoText, EmptySeq DEF Strings
  <1>2. ASSUME NEW t \in Seq(Plain), t \in T, NEW x \in Plain PROVE Append(t, x) \in T
    <2>1. t \in Text /\ x \in Symbols /\ Append(t, x) \in Seq(Plain)
      BY PlainText, AppendProperties DEF Plain
    <2>2. CASE x = "nl"
      <3>1. Append(Lines(t), Rest(t)) \in Seq(Strings)
        BY <1>2, AppendProperties
      <3>2. <<>> \in Strings
        BY EmptySeq DEF Strings
      <3> QED
        BY <2>1, <2>2, <3>1, <3>2, LinesAppend, RestAppend
    <2>3. CASE x # "nl"
      <3>1. x \in (Bytes \cup {"char", "?"}) \ {"hi", "lo", "nl"}
        BY <2>3 DEF Plain, Symbols
      <3>2. Append(Rest(t), x) \in Strings
        BY <1>2, <3>1, AppendProperties DEF Strings
      <3> QED
        BY <1>2, <2>1, <2>3, <3>2, LinesAppend, RestAppend
    <2> QED
      BY <2>2, <2>3
  <1> HIDE DEF T
  <1>3. Seq(Plain) \subseteq T
    BY <1>1, <1>2, FromEmpty
  <1> QED
    BY <1>3 DEF T

\* A text without a line end is all rest.
LEMMA AllRest ==
    ASSUME NEW s \in Seq(Symbols \ {"nl"})
    PROVE  Lines(s) = <<>> /\ Rest(s) = s
  <1> DEFINE A == Symbols \ {"nl"}
             T == {t \in Seq(A) : Lines(t) = <<>> /\ Rest(t) = t}
  <1>1. <<>> \in T
    BY NoText, EmptySeq
  <1>2. ASSUME NEW t \in Seq(A), t \in T, NEW x \in A PROVE Append(t, x) \in T
    <2>1. t \in Text /\ x \in Symbols /\ x # "nl" /\ Append(t, x) \in Seq(A)
      BY AppendProperties DEF Text
    <2> QED
      BY <1>2, <2>1, LinesAppend, RestAppend
  <1>3. Seq(A) \subseteq T
    <2> HIDE DEF A, T
    <2> QED
      BY <1>1, <1>2, FromEmpty
  <1> QED
    BY <1>3

LEMMA RestHasNoEnd ==
    ASSUME NEW s \in Text
    PROVE  Rest(s) \in Seq(Symbols \ {"nl"})
  <1> DEFINE T == {t \in Text : Rest(t) \in Seq(Symbols \ {"nl"})}
  <1>1. <<>> \in T
    BY NoText, EmptySeq
  <1>2. ASSUME NEW t \in Text, t \in T, NEW x \in Symbols PROVE Append(t, x) \in T
    <2>1. Append(t, x) \in Text
      BY AppendProperties DEF Text
    <2>2. CASE x = "nl"
      BY <2>1, <2>2, RestAppend, EmptySeq
    <2>3. CASE x # "nl"
      BY <1>2, <2>1, <2>3, RestAppend, AppendProperties
    <2> QED
      BY <2>2, <2>3
  <1>3. Text \subseteq T
    <2> HIDE DEF T
    <2> QED
      BY <1>1, <1>2, FromEmpty DEF Text
  <1> QED
    BY <1>3

\* Lines do not depend on how a text comes in parts: the line buffer works.
LEMMA LinesConcat ==
    ASSUME NEW s \in Text, NEW u \in Text
    PROVE  /\ Lines(s \o u) = Lines(s) \o Lines(Rest(s) \o u)
           /\ Rest(s \o u) = Rest(Rest(s) \o u)
  <1> DEFINE r == Rest(s)
             P(t) == /\ Lines(s \o t) = Lines(s) \o Lines(r \o t)
                     /\ Rest(s \o t) = Rest(r \o t)
             T == {t \in Text : P(t)}
  <1>0. r \in Text /\ Lines(s) \in Seq(Text) /\ Lines(r) = <<>> /\ Rest(r) = r
    <2>1. r \in Text /\ Lines(s) \in Seq(Text)
      BY RestAppend, LinesTyped DEF Symbols, Bytes
    <2>2. r \in Seq(Symbols \ {"nl"})
      BY RestHasNoEnd
    <2> HIDE DEF r
    <2> QED
      BY <2>1, <2>2, AllRest
  <1>1. <<>> \in T
    <2>1. s \o <<>> = s /\ r \o <<>> = r /\ Lines(s) \o <<>> = Lines(s)
      BY <1>0, ConcatEmptySeq DEF Text
    <2> QED
      BY <1>0, <2>1, NoText
  <1>2. ASSUME NEW t \in Text, P(t), NEW x \in Symbols PROVE P(Append(t, x))
    <2> HIDE DEF r
    <2>1. /\ s \o t \in Text /\ r \o t \in Text
          /\ s \o Append(t, x) = Append(s \o t, x) /\ r \o Append(t, x) = Append(r \o t, x)
      <3>1. /\ Append(t, x) = t \o <<x>> /\ <<x>> \in Seq(Symbols)
            /\ s \o t \in Seq(Symbols) /\ r \o t \in Seq(Symbols)
        BY <1>0, AppendIsConcat, ConcatProperties DEF Text
      <3> QED
        BY <1>0, <3>1, AppendProperties, AppendIsConcat, ConcatAssociative DEF Text
    <2>2. Lines(r \o t) \in Seq(Text) /\ Rest(r \o t) \in Text
      BY <2>1, LinesTyped, RestAppend
    <2>3. CASE x # "nl"
      <3>1. /\ Lines(s \o Append(t, x)) = Lines(s \o t)
            /\ Lines(r \o Append(t, x)) = Lines(r \o t)
        BY <2>1, <2>3, LinesAppend
      <3>2. /\ Rest(s \o Append(t, x)) = Append(Rest(s \o t), x)
            /\ Rest(r \o Append(t, x)) = Append(Rest(r \o t), x)
        BY <2>1, <2>3, RestAppend
      <3> QED
        BY <1>2, <3>1, <3>2
    <2>4. CASE x = "nl"
      <3>1. /\ Lines(s \o Append(t, x)) = Append(Lines(s \o t), Rest(s \o t))
            /\ Lines(r \o Append(t, x)) = Append(Lines(r \o t), Rest(r \o t))
        BY <2>1, <2>4, LinesAppend
      <3>left. Rest(Append(s \o t, x)) = <<>>
        BY <2>1, <2>4, RestAppend
      <3>right. Rest(Append(r \o t, x)) = <<>>
        BY <2>1, <2>4, RestAppend
      <3>2. Rest(s \o Append(t, x)) = <<>> /\ Rest(r \o Append(t, x)) = <<>>
        BY <2>1, <3>left, <3>right
      <3>3. Append(Lines(s) \o Lines(r \o t), Rest(r \o t))
            = Lines(s) \o Append(Lines(r \o t), Rest(r \o t))
        <4> DEFINE a == Lines(s)
                   b == Lines(r \o t)
                   c == Rest(r \o t)
        <4>1. a \in Seq(Text) /\ b \in Seq(Text) /\ c \in Text
          BY <1>0, <2>2
        <4> HIDE DEF a, b, c
        <4>2. <<c>> \in Seq(Text) /\ a \o b \in Seq(Text)
          BY <4>1, ConcatProperties
        <4>3. Append(a \o b, c) = (a \o b) \o <<c>> /\ Append(b, c) = b \o <<c>>
          BY <4>1, <4>2, AppendIsConcat
        <4>4. Append(a \o b, c) = a \o Append(b, c)
          BY <4>1, <4>2, <4>3, ConcatAssociative
        <4> QED
          BY <4>4 DEF a, b, c
      <3> QED
        BY <1>2, <3>1, <3>2, <3>3
    <2> QED
      BY <2>3, <2>4
  <1>3. Text \subseteq T
    <2> HIDE DEF P
    <2>1. \A t \in Text : t \in T => \A x \in Symbols : Append(t, x) \in T
      BY <1>2, AppendProperties DEF Text
    <2> HIDE DEF T
    <2> QED
      BY <1>1, <2>1, FromEmpty DEF Text
  <1> QED
    BY <1>3

-----------------------------------------------------------------------------
(* Each element replaced by a sequence.                                    *)

Spread(f, s) == FlattenSeq([i \in DOMAIN s |-> f[s[i]]])

LEMMA SpreadAppend ==
    ASSUME NEW A, NEW B, NEW f \in [A -> Seq(B)]
    PROVE  /\ Spread(f, <<>>) = <<>>
           /\ \A s \in Seq(A) : Spread(f, s) \in Seq(B)
           /\ \A s \in Seq(A), x \in A : Spread(f, Append(s, x)) = Spread(f, s) \o f[x]
  <1> DEFINE p(s) == [i \in DOMAIN s |-> f[s[i]]]
  <1>1. p(<<>>) = <<>>
    OBVIOUS
  <1>2. ASSUME NEW s \in Seq(A)
        PROVE  p(s) \in Seq(Seq(B)) /\ Len(p(s)) = Len(s)
    <2>1. DOMAIN s = 1..Len(s) /\ Len(s) \in Nat /\ \A i \in 1..Len(s) : s[i] \in A
      BY LenProperties, ElementOfSeq
    <2>2. p(s) = [i \in 1..Len(s) |-> p(s)[i]] /\ \A i \in 1..Len(s) : p(s)[i] \in Seq(B)
      BY <2>1
    <2> QED
      BY <2>1, <2>2
  <1>3. ASSUME NEW s \in Seq(A), NEW x \in A
        PROVE  p(Append(s, x)) = Append(p(s), f[x])
    <2>1. /\ Len(s) \in Nat /\ DOMAIN s = 1..Len(s)
          /\ DOMAIN Append(s, x) = 1..(Len(s) + 1)
          /\ \A i \in 1..Len(s) : Append(s, x)[i] = s[i] /\ i \in 1..(Len(s) + 1)
          /\ Append(s, x)[Len(s) + 1] = x /\ Len(s) + 1 \in 1..(Len(s) + 1)
      BY AppendProperties, LenProperties
    <2>2. p(s) \in Seq(Seq(B)) /\ Len(p(s)) = Len(s) /\ f[x] \in Seq(B)
      BY <1>2
    <2>3. /\ DOMAIN p(Append(s, x)) = 1..(Len(s) + 1)
          /\ p(Append(s, x)) = [i \in DOMAIN p(Append(s, x)) |-> p(Append(s, x))[i]]
          /\ \A i \in 1..Len(s) : p(Append(s, x))[i] = p(s)[i]
          /\ p(Append(s, x))[Len(s) + 1] = f[x]
      BY <2>1
    <2> HIDE DEF p
    <2> QED
      BY <2>2, <2>3, PiecesAppend
  <1> HIDE DEF p
  <1>4. \A s : Spread(f, s) = FlattenSeq(p(s))
    BY DEF Spread, p
  <1>5. Spread(f, <<>>) = <<>>
    BY <1>1, <1>4, FlattenEmpty
  <1>6. ASSUME NEW s \in Seq(A) PROVE Spread(f, s) \in Seq(B)
    BY <1>2, <1>4, FlattenType
  <1>7. ASSUME NEW s \in Seq(A), NEW x \in A
        PROVE  Spread(f, Append(s, x)) = Spread(f, s) \o f[x]
    <2>1. FlattenSeq(Append(p(s), f[x])) = FlattenSeq(p(s)) \o f[x]
      BY <1>2, FlattenAppend
    <2> QED
      BY <1>3, <1>4, <2>1
  <1> QED
    BY <1>5, <1>6, <1>7

LEMMA AppendRight ==
    ASSUME NEW A, NEW s \in Seq(A), NEW t \in Seq(A), NEW x \in A
    PROVE  s \o Append(t, x) = Append(s \o t, x) /\ s \o t \in Seq(A)
  <1>1. Append(t, x) = t \o <<x>> /\ <<x>> \in Seq(A) /\ s \o t \in Seq(A)
    BY AppendIsConcat, ConcatProperties
  <1>2. Append(s \o t, x) = (s \o t) \o <<x>>
    BY <1>1, AppendIsConcat
  <1> QED
    BY <1>1, <1>2, ConcatAssociative

LEMMA SpreadConcat ==
    ASSUME NEW A, NEW B, NEW f \in [A -> Seq(B)], NEW s \in Seq(A), NEW u \in Seq(A)
    PROVE  Spread(f, s \o u) = Spread(f, s) \o Spread(f, u)
  <1> DEFINE P(t) == Spread(f, s \o t) = Spread(f, s) \o Spread(f, t)
             T == {t \in Seq(A) : P(t)}
  <1>0. Spread(f, s) \in Seq(B)
    BY SpreadAppend
  <1>1. P(<<>>)
    <2>1. s \o <<>> = s /\ Spread(f, s) \o <<>> = Spread(f, s)
      BY <1>0, ConcatEmptySeq
    <2>2. Spread(f, <<>>) = <<>>
      BY SpreadAppend
    <2> QED
      BY <2>1, <2>2
  <1>2. ASSUME NEW t \in Seq(A), P(t), NEW x \in A PROVE P(Append(t, x))
    <2>1. s \o Append(t, x) = Append(s \o t, x) /\ s \o t \in Seq(A)
      BY AppendRight
    <2>2. \A z \in Seq(A), y \in A : Spread(f, Append(z, y)) = Spread(f, z) \o f[y]
      BY SpreadAppend
    <2>3. Spread(f, t) \in Seq(B) /\ f[x] \in Seq(B)
      BY SpreadAppend
    <2>4. (Spread(f, s) \o Spread(f, t)) \o f[x] = Spread(f, s) \o (Spread(f, t) \o f[x])
      BY <1>0, <2>3, ConcatAssociative
    <2> QED
      BY <1>2, <2>1, <2>2, <2>4
  <1> HIDE DEF P
  <1>3. <<>> \in T /\ \A t \in Seq(A) : t \in T => \A x \in A : Append(t, x) \in T
    BY <1>1, <1>2, EmptySeq, AppendProperties
  <1> HIDE DEF T
  <1>4. Seq(A) \subseteq T
    BY <1>3, FromEmpty
  <1>5. P(u)
    BY <1>4 DEF T
  <1> QED
    BY <1>5 DEF P

-----------------------------------------------------------------------------
(* Wide                                                                    *)

WideOf == [x \in Symbols |-> IF x = "char" THEN <<"?", "?">> ELSE <<x>>]

LEMMA WideIsSpread ==
    ASSUME NEW s \in Text
    PROVE  Wide(s) = Spread(WideOf, s)
  <1>1. DOMAIN s = 1..Len(s) /\ \A i \in 1..Len(s) : s[i] \in Symbols
    BY LenProperties, ElementOfSeq DEF Text
  <1>2. [i \in DOMAIN s |-> WideOf[s[i]]]
        = [i \in DOMAIN s |-> IF s[i] = "char" THEN <<"?", "?">> ELSE <<s[i]>>]
    BY <1>1 DEF WideOf
  <1> QED
    BY <1>2 DEF Wide, Spread

LEMMA WideOfTyped == WideOf \in [Symbols -> Seq(Symbols)]
  <1>1. \A x \in Symbols : <<x>> \in Seq(Symbols)
    OBVIOUS
  <1>2. "?" \in Symbols
    BY DEF Symbols
  <1>3. <<"?", "?">> \in Seq(Symbols)
    BY <1>2
  <1> QED
    BY <1>1, <1>3 DEF WideOf

\* Wide of a text that grows, as two symbols or one.
LEMMA WideAppend ==
    ASSUME NEW s \in Text, NEW x \in Symbols
    PROVE  /\ Wide(s) \in Text /\ Wide(<<>>) = <<>>
           /\ x = "char" => Wide(Append(s, x)) = Append(Append(Wide(s), "?"), "?")
           /\ x # "char" => Wide(Append(s, x)) = Append(Wide(s), x)
  <1>1. Append(s, x) \in Text /\ <<>> \in Text
    BY AppendProperties, EmptySeq DEF Text
  <1>2. Wide(s) \in Text
    <2>1. Spread(WideOf, s) \in Seq(Symbols)
      BY WideOfTyped, SpreadAppend DEF Text
    <2> QED
      BY <2>1, WideIsSpread DEF Text
  <1>3. Wide(<<>>) = <<>>
    BY <1>1, WideIsSpread, WideOfTyped, SpreadAppend
  <1>4. Wide(Append(s, x)) = Wide(s) \o WideOf[x]
    <2>1. Spread(WideOf, Append(s, x)) = Spread(WideOf, s) \o WideOf[x]
      BY WideOfTyped, SpreadAppend DEF Text
    <2> QED
      BY <1>1, <2>1, WideIsSpread
  <1>5. CASE x = "char"
    <2>1. WideOf[x] = Append(<<"?">>, "?")
      BY <1>5 DEF WideOf
    <2>2. "?" \in Symbols /\ <<"?">> \in Seq(Symbols)
      BY DEF Symbols
    <2>3. Wide(s) \o Append(<<"?">>, "?") = Append(Wide(s) \o <<"?">>, "?")
      BY <1>2, <2>2, AppendRight DEF Text
    <2>4. Wide(s) \o <<"?">> = Append(Wide(s), "?")
      BY <1>2, <2>2, AppendIsConcat DEF Text
    <2> QED
      BY <1>2, <1>3, <1>4, <1>5, <2>1, <2>3, <2>4
  <1>6. CASE x # "char"
    <2>1. WideOf[x] = <<x>>
      BY <1>6 DEF WideOf
    <2>2. Wide(s) \o <<x>> = Append(Wide(s), x)
      BY <1>2, AppendIsConcat DEF Text
    <2> QED
      BY <1>2, <1>3, <1>4, <1>6, <2>1, <2>2
  <1> QED
    BY <1>5, <1>6

LEMMA WideConcat ==
    ASSUME NEW s \in Text, NEW u \in Text
    PROVE  Wide(s \o u) = Wide(s) \o Wide(u)
  <1>1. s \o u \in Text
    BY ConcatProperties DEF Text
  <1>2. Spread(WideOf, s \o u) = Spread(WideOf, s) \o Spread(WideOf, u)
    BY WideOfTyped, SpreadConcat DEF Text
  <1> QED
    BY <1>1, <1>2, WideIsSpread

WideAll(ls) == [k \in DOMAIN ls |-> Wide(ls[k])]

LEMMA WideAllAppend ==
    ASSUME NEW ls \in Seq(Text), NEW l \in Text
    PROVE  /\ WideAll(<<>>) = <<>> /\ WideAll(ls) \in Seq(Text) /\ Len(WideAll(ls)) = Len(ls)
           /\ WideAll(Append(ls, l)) = Append(WideAll(ls), Wide(l))
  <1>1. WideAll(<<>>) = <<>>
    BY DEF WideAll
  <1>2. \A z \in Text : Wide(z) \in Text
    BY WideAppend DEF Symbols
  <1>3. /\ Len(ls) \in Nat /\ DOMAIN ls = 1..Len(ls) /\ \A i \in 1..Len(ls) : ls[i] \in Text
        /\ DOMAIN Append(ls, l) = 1..(Len(ls) + 1)
        /\ \A i \in 1..Len(ls) : Append(ls, l)[i] = ls[i] /\ i \in 1..(Len(ls) + 1)
        /\ Append(ls, l)[Len(ls) + 1] = l /\ Len(ls) + 1 \in 1..(Len(ls) + 1)
    BY AppendProperties, LenProperties, ElementOfSeq
  <1>4. WideAll(ls) \in Seq(Text) /\ Len(WideAll(ls)) = Len(ls)
    <2>1. WideAll(ls) = [i \in 1..Len(ls) |-> WideAll(ls)[i]]
      BY <1>3 DEF WideAll
    <2>2. \A i \in 1..Len(ls) : WideAll(ls)[i] \in Text
      BY <1>2, <1>3 DEF WideAll
    <2> QED
      BY <1>3, <2>1, <2>2
  <1>5. /\ DOMAIN WideAll(Append(ls, l)) = 1..(Len(ls) + 1)
        /\ WideAll(Append(ls, l)) = [i \in DOMAIN WideAll(Append(ls, l)) |-> WideAll(Append(ls, l))[i]]
        /\ \A i \in 1..Len(ls) : WideAll(Append(ls, l))[i] = WideAll(ls)[i]
        /\ WideAll(Append(ls, l))[Len(ls) + 1] = Wide(l)
    BY <1>3 DEF WideAll
  <1>6. WideAll(Append(ls, l)) = Append(WideAll(ls), Wide(l))
    BY <1>2, <1>4, <1>5, PiecesAppend
  <1> QED
    BY <1>1, <1>4, <1>6

\* A character of two bytes is not part of a line end.
LEMMA LinesOfWide ==
    ASSUME NEW s \in Text
    PROVE  Lines(Wide(s)) = WideAll(Lines(s)) /\ Rest(Wide(s)) = Wide(Rest(s))
  <1> DEFINE P(t) == Lines(Wide(t)) = WideAll(Lines(t)) /\ Rest(Wide(t)) = Wide(Rest(t))
             T == {t \in Text : P(t)}
  <1>1. P(<<>>)
    BY NoText, WideAppend, WideAllAppend, EmptySeq DEF Symbols
  <1>2. ASSUME NEW t \in Text, P(t), NEW x \in Symbols PROVE P(Append(t, x))
    <2>1. Wide(t) \in Text /\ Rest(t) \in Text /\ Lines(t) \in Seq(Text)
      BY WideAppend, RestAppend, LinesTyped
    <2>2. CASE x = "nl"
      <3>1. Wide(Append(t, x)) = Append(Wide(t), x)
        BY <2>2, WideAppend
      <3>2. Lines(Append(t, x)) = Append(Lines(t), Rest(t)) /\ Rest(Append(t, x)) = <<>>
        BY <2>2, LinesAppend, RestAppend
      <3>3. /\ Lines(Append(Wide(t), x)) = Append(Lines(Wide(t)), Rest(Wide(t)))
            /\ Rest(Append(Wide(t), x)) = <<>>
        BY <2>1, <2>2, LinesAppend, RestAppend
      <3>4. WideAll(Append(Lines(t), Rest(t))) = Append(WideAll(Lines(t)), Wide(Rest(t)))
        BY <2>1, WideAllAppend
      <3>5. Wide(<<>>) = <<>>
        BY WideAppend
      <3> QED
        BY <1>2, <3>1, <3>2, <3>3, <3>4, <3>5
    <2>3. CASE x # "nl" /\ x # "char"
      <3>1. Wide(Append(t, x)) = Append(Wide(t), x)
        BY <2>3, WideAppend
      <3>2. Lines(Append(t, x)) = Lines(t) /\ Rest(Append(t, x)) = Append(Rest(t), x)
        BY <2>3, LinesAppend, RestAppend
      <3>3. /\ Lines(Append(Wide(t), x)) = Lines(Wide(t))
            /\ Rest(Append(Wide(t), x)) = Append(Rest(Wide(t)), x)
        BY <2>1, <2>3, LinesAppend, RestAppend
      <3>4. Wide(Append(Rest(t), x)) = Append(Wide(Rest(t)), x)
        BY <2>1, <2>3, WideAppend
      <3> QED
        BY <1>2, <3>1, <3>2, <3>3, <3>4
    <2>4. CASE x = "char"
      <3> DEFINE w == Append(Wide(t), "?")
      <3>1. Wide(Append(t, x)) = Append(w, "?")
        BY <2>4, WideAppend
      <3>2. Lines(Append(t, x)) = Lines(t) /\ Rest(Append(t, x)) = Append(Rest(t), x)
        BY <2>4, LinesAppend, RestAppend
      <3>3. "?" \in Symbols /\ "?" # "nl" /\ w \in Text
        BY <2>1, AppendProperties DEF Symbols, Text
      <3>4. Lines(w) = Lines(Wide(t)) /\ Rest(w) = Append(Rest(Wide(t)), "?")
        BY <2>1, <3>3, LinesAppend, RestAppend
      <3> HIDE DEF w
      <3>5. Lines(Append(w, "?")) = Lines(w) /\ Rest(Append(w, "?")) = Append(Rest(w), "?")
        BY <3>3, LinesAppend, RestAppend
      <3>6. Wide(Append(Rest(t), x)) = Append(Append(Wide(Rest(t)), "?"), "?")
        BY <2>1, <2>4, WideAppend
      <3> QED
        BY <1>2, <3>1, <3>2, <3>4, <3>5, <3>6
    <2> QED
      BY <2>2, <2>3, <2>4
  <1> HIDE DEF P
  <1>3. <<>> \in T /\ \A t \in Text : t \in T => \A x \in Symbols : Append(t, x) \in T
    BY <1>1, <1>2, EmptySeq, AppendProperties DEF Text
  <1> HIDE DEF T
  <1>4. Text \subseteq T
    BY <1>3, FromEmpty DEF Text
  <1>5. P(s)
    BY <1>4 DEF T
  <1> QED
    BY <1>5 DEF P

-----------------------------------------------------------------------------
(* PopCr, TrimEnd and TrimStart                                            *)

LEMMA PopCrAppend ==
    ASSUME NEW s \in Text, NEW x \in Symbols
    PROVE  /\ PopCr(<<>>) = <<>>
           /\ PopCr(Append(s, x)) = IF x = "cr" THEN s ELSE Append(s, x)
  <1>1. Append(s, x) # <<>> /\ Last(Append(s, x)) = x /\ Front(Append(s, x)) = s
    <2>1. /\ Len(s) \in Nat /\ Append(s, x) \in Text /\ Len(Append(s, x)) = Len(s) + 1
          /\ Append(s, x)[Len(s) + 1] = x
      BY AppendProperties, LenProperties DEF Text
    <2>2. SubSeq(Append(s, x), 1, Len(s)) = s
      BY <2>1, SubSeqAppend, SubSeqFull DEF Text
    <2> QED
      BY <2>1, <2>2, EmptySeq DEF Front, Last
  <1> QED
    BY <1>1 DEF PopCr

LEMMA TrimEndAppend ==
    ASSUME NEW s \in Text, NEW x \in Symbols
    PROVE  /\ TrimEnd(<<>>) = <<>> /\ TrimEnd(s) \in Text
           /\ TrimEnd(Append(s, x)) = IF x = "cr" THEN TrimEnd(s) ELSE Append(s, x)
  <1> DEFINE K(t) == {i \in DOMAIN t : t[i] # "cr"}
  <1>1. /\ Len(s) \in Nat /\ DOMAIN s = 1..Len(s)
        /\ Append(s, x) \in Text /\ Len(Append(s, x)) = Len(s) + 1
        /\ DOMAIN Append(s, x) = 1..(Len(s) + 1)
        /\ \A i \in 1..Len(s) : Append(s, x)[i] = s[i]
        /\ Append(s, x)[Len(s) + 1] = x
    BY AppendProperties, LenProperties DEF Text
  <1>2. K(Append(s, x)) = K(s) \cup (IF x = "cr" THEN {} ELSE {Len(s) + 1})
    <2>1. 1..(Len(s) + 1) = (1..Len(s)) \cup {Len(s) + 1}
      BY <1>1
    <2> QED
      BY <1>1, <2>1
  <1>3. {0} \cup K(s) \subseteq 0..Len(s)
    BY <1>1
  <1>4. PICK m \in {0} \cup K(s) : \A k \in {0} \cup K(s) : k <= m
    BY <1>1, <1>3, Greatest
  <1>5. Max({0} \cup K(s)) = m /\ m \in 0..Len(s)
    <2> HIDE DEF K
    <2>1. {0} \cup K(s) \subseteq Int
      BY <1>1, <1>3
    <2> QED
      BY <1>3, <1>4, <2>1, MaxIs
  <1>6. TrimEnd(s) = SubSeq(s, 1, m) /\ SubSeq(s, 1, m) \in Text
    <2>1. m \in Int /\ m <= Len(s)
      BY <1>1, <1>5
    <2>2. SubSeq(s, 1, m) \in Text
      BY <2>1, SubSeqAppend DEF Text
    <2> QED
      BY <1>5, <2>2 DEF TrimEnd
  <1>7. TrimEnd(<<>>) = <<>>
    <2>1. {0} \cup {i \in DOMAIN <<>> : <<>>[i] # "cr"} = {0}
      OBVIOUS
    <2>2. Max({0}) = 0
      BY MaxIs
    <2> QED
      BY <2>1, <2>2, SubSeqEmpty DEF TrimEnd
  <1>8. CASE x = "cr"
    <2>1. {0} \cup K(Append(s, x)) = {0} \cup K(s)
      BY <1>2, <1>8
    <2>2. TrimEnd(Append(s, x)) = SubSeq(Append(s, x), 1, m)
      BY <1>5, <2>1 DEF TrimEnd
    <2>3. SubSeq(Append(s, x), 1, m) = SubSeq(s, 1, m)
      BY <1>1, <1>5, SubSeqAppend DEF Text
    <2> QED
      BY <1>6, <1>7, <1>8, <2>2, <2>3
  <1>9. CASE x # "cr"
    <2> DEFINE k == Len(s) + 1
               S == {0} \cup K(Append(s, x))
    <2>1. S \subseteq Int /\ k \in S /\ \A i \in S : i <= k
      BY <1>1, <1>2, <1>3, <1>9
    <2>2. Max(S) = k
      <3> HIDE DEF S, k
      <3> QED
        BY <2>1, MaxIs
    <2>3. TrimEnd(Append(s, x)) = SubSeq(Append(s, x), 1, Len(Append(s, x)))
      BY <1>1, <2>2 DEF TrimEnd
    <2>4. SubSeq(Append(s, x), 1, Len(Append(s, x))) = Append(s, x)
      BY <1>1, SubSeqFull DEF Text
    <2> QED
      BY <1>6, <1>7, <1>9, <2>3, <2>4
  <1> QED
    BY <1>8, <1>9

Blank == {"sp", "cr"}

LEMMA TrimStartAppend ==
    ASSUME NEW s \in Text, NEW x \in Symbols
    PROVE  /\ TrimStart(<<>>) = <<>> /\ TrimStart(s) \in Text
           /\ TrimStart(Append(s, x))
              = IF TrimStart(s) = <<>> /\ x \in Blank THEN <<>> ELSE Append(TrimStart(s), x)
  <1> DEFINE K(t) == {i \in DOMAIN t : t[i] \notin {"sp", "cr"}}
             n == Len(s)
             t == Append(s, x)
  <1>1. /\ n \in Nat /\ DOMAIN s = 1..n
        /\ t \in Text /\ Len(t) = n + 1 /\ DOMAIN t = 1..(n + 1)
        /\ \A i \in 1..n : t[i] = s[i]
        /\ t[n + 1] = x
    BY AppendProperties, LenProperties DEF Text
  <1>2. K(t) = K(s) \cup (IF x \in Blank THEN {} ELSE {n + 1})
    <2>1. 1..(n + 1) = (1..n) \cup {n + 1}
      BY <1>1
    <2> HIDE DEF t, n
    <2> QED
      BY <1>1, <2>1 DEF Blank
  <1>3. K(s) \subseteq 1..n
    BY <1>1
  <1> DEFINE S == {n + 1} \cup K(s)
             U == {(n + 1) + 1} \cup K(t)
  <1>4. TrimStart(s) = SubSeq(s, Min(S), n) /\ TrimStart(t) = SubSeq(t, Min(U), n + 1)
    BY <1>1 DEF TrimStart
  <1>bounds. S \subseteq 1..(n + 1) /\ S \subseteq Nat /\ S \subseteq Int /\ S # {}
    BY <1>1, <1>3
  <1>5. PICK m \in S : \A k \in S : m <= k
    <2> HIDE DEF S
    <2> QED
      BY <1>bounds, Least
  <1>6. Min(S) = m /\ m \in 1..(n + 1)
    <2> HIDE DEF S
    <2> QED
      BY <1>bounds, <1>5, MinIs
  <1>7. TrimStart(s) \in Text /\ SubSeq(t, m, n) = TrimStart(s)
    <2>1. m \in Nat \ {0} /\ n \in Int /\ n <= Len(s)
      BY <1>1, <1>6
    <2> HIDE DEF S, U, t, n
    <2>2. SubSeq(Append(s, x), m, n) = SubSeq(s, m, n) /\ SubSeq(s, m, n) \in Text
      BY <2>1, SubSeqAppend DEF Text
    <2> QED
      BY <1>4, <1>6, <2>2 DEF t
  <1>8. TrimStart(s) = <<>> <=> m = n + 1
    <2> HIDE DEF S, U, t
    <2>1. SubSeq(s, m, n) \in Seq(Symbols) /\ (m <= n => Len(SubSeq(s, m, n)) = n - m + 1)
      <3>1. \A i \in m..n : s[i] \in Symbols
        BY <1>1, <1>6, ElementOfSeq DEF Text
      <3> QED
        BY <1>1, <1>6, <3>1, SubSeqProperties
    <2>2. m = n + 1 => SubSeq(s, m, n) = <<>>
      BY <1>1, SubSeqEmpty
    <2>3. m <= n => SubSeq(s, m, n) # <<>>
      <3>1. m <= n => Len(SubSeq(s, m, n)) # 0
        BY <1>1, <1>6, <2>1
      <3>2. Len(<<>>) = 0
        OBVIOUS
      <3> QED
        BY <3>1, <3>2
    <2> QED
      BY <1>1, <1>4, <1>6, <2>2, <2>3
  <1>9. TrimStart(<<>>) = <<>>
    <2>1. {Len(<<>>) + 1} \cup {i \in DOMAIN <<>> : <<>>[i] \notin {"sp", "cr"}} = {1}
      OBVIOUS
    <2>2. Min({1}) = 1
      BY MinIs
    <2> QED
      BY <2>1, <2>2, SubSeqEmpty DEF TrimStart
  <1>10. CASE m = n + 1 /\ x \in Blank
    <2>1. K(s) = {}
      BY <1>1, <1>3, <1>5, <1>10
    <2>2. U = {(n + 1) + 1}
      BY <1>2, <1>10, <2>1
    <2>3. Min(U) = (n + 1) + 1
      <3>1. ASSUME NEW k \in Int PROVE Min({k}) = k
        <4>1. {k} \subseteq Int /\ k \in {k} /\ \A j \in {k} : k <= j
          OBVIOUS
        <4> QED
          BY <4>1, MinIs
      <3> QED
        BY <1>1, <2>2, <3>1
    <2>4. TrimStart(t) = <<>>
      <3>1. (n + 1) + 1 \in Int /\ n + 1 \in Int /\ n + 1 < (n + 1) + 1
        BY <1>1
      <3>2. TrimStart(t) = SubSeq(t, (n + 1) + 1, n + 1)
        BY <1>4, <2>3
      <3> HIDE DEF t, n
      <3> QED
        BY <3>1, <3>2, SubSeqEmpty
    <2> QED
      BY <1>7, <1>8, <1>9, <1>10, <2>4
  <1>11. CASE ~(m = n + 1 /\ x \in Blank)
    <2>1. m \in U /\ \A k \in U : m <= k
      BY <1>1, <1>2, <1>3, <1>5, <1>6, <1>11
    <2>2. U \subseteq Int
      BY <1>1, <1>2, <1>3
    <2>3. Min(U) = m
      <3> HIDE DEF U
      <3> QED
        BY <2>1, <2>2, MinIs
    <2> HIDE DEF U, S
    <2>4. SubSeq(t, m, n + 1) = SubSeq(t, m, n) \o <<t[n + 1]>>
      <3>1. m \in 1..(n + 1) /\ n + 1 \in m..Len(t) /\ (n + 1) - 1 = n
        BY <1>1, <1>6
      <3> HIDE DEF t, n
      <3> QED
        BY <1>1, <3>1, SubSeqRecursiveSecond DEF Text
    <2> HIDE DEF t, n
    <2>5. TrimStart(t) = Append(TrimStart(s), x)
      BY <1>1, <1>4, <1>7, <2>3, <2>4, AppendIsConcat DEF Text
    <2> QED
      BY <1>7, <1>8, <1>9, <1>11, <2>5 DEF t
  <1> QED
    BY <1>10, <1>11

LEMMA Trims ==
    ASSUME NEW A, A \subseteq Symbols, NEW s \in Seq(A)
    PROVE  PopCr(s) \in Seq(A) /\ TrimEnd(s) \in Seq(A) /\ TrimStart(s) \in Seq(A)
  <1> DEFINE P(t) == PopCr(t) \in Seq(A) /\ TrimEnd(t) \in Seq(A) /\ TrimStart(t) \in Seq(A)
             T == {t \in Seq(A) : P(t)}
  <1>1. P(<<>>)
    <2>1. <<>> \in Text /\ "?" \in Symbols /\ <<>> \in Seq(A)
      BY EmptySeq DEF Text, Symbols
    <2>2. PopCr(<<>>) = <<>> /\ TrimEnd(<<>>) = <<>> /\ TrimStart(<<>>) = <<>>
      BY <2>1, PopCrAppend, TrimEndAppend, TrimStartAppend
    <2> QED
      BY <2>1, <2>2
  <1>2. ASSUME NEW t \in Seq(A), P(t), NEW x \in A PROVE P(Append(t, x))
    <2>1. t \in Text /\ x \in Symbols /\ Append(t, x) \in Seq(A)
      BY AppendProperties DEF Text
    <2>2. PopCr(Append(t, x)) \in Seq(A)
      BY <2>1, PopCrAppend
    <2>3. TrimEnd(Append(t, x)) \in Seq(A)
      BY <1>2, <2>1, TrimEndAppend
    <2>4. TrimStart(Append(t, x)) \in Seq(A)
      <3>1. <<>> \in Seq(A) /\ Append(TrimStart(t), x) \in Seq(A)
        BY <1>2, EmptySeq, AppendProperties
      <3> QED
        BY <2>1, <3>1, TrimStartAppend
    <2> QED
      BY <2>2, <2>3, <2>4
  <1> HIDE DEF P
  <1>3. <<>> \in T /\ \A t \in Seq(A) : t \in T => \A x \in A : Append(t, x) \in T
    BY <1>1, <1>2, EmptySeq, AppendProperties
  <1> HIDE DEF T
  <1>4. Seq(A) \subseteq T
    BY <1>3, FromEmpty
  <1>5. P(s)
    BY <1>4 DEF T
  <1> QED
    BY <1>5 DEF P

LEMMA WideEmpty ==
    ASSUME NEW s \in Text
    PROVE  Wide(s) = <<>> <=> s = <<>>
  <1>1. CASE s = <<>>
    BY <1>1, WideAppend DEF Symbols
  <1>2. CASE s # <<>>
    <2>1. PICK t \in Text, x \in Symbols : s = Append(t, x)
      BY <1>2, SequenceEmptyOrAppend DEF Text
    <2>2. Wide(t) \in Text /\ Append(Wide(t), "?") \in Text
      BY WideAppend, AppendProperties DEF Symbols, Text
    <2>3. \A z \in Text : \A y : Append(z, y) # <<>>
      <3> SUFFICES ASSUME NEW z \in Text, NEW y PROVE Append(z, y) # <<>>
        OBVIOUS
      <3>1. Len(Append(z, y)) = Len(z) + 1 /\ Len(z) \in Nat /\ Len(<<>>) = 0
        BY LenProperties DEF Text
      <3> QED
        BY <3>1
    <2> QED
      BY <1>2, <2>1, <2>2, <2>3, WideAppend
  <1> QED
    BY <1>1, <1>2

LEMMA PopCrOfWide ==
    ASSUME NEW s \in Text
    PROVE  PopCr(Wide(s)) = Wide(PopCr(s))
  <1>1. CASE s = <<>>
    <2>1. Wide(<<>>) = <<>> /\ PopCr(<<>>) = <<>>
      BY <1>1, WideAppend, PopCrAppend DEF Symbols
    <2> QED
      BY <1>1, <2>1
  <1>2. CASE s # <<>>
    <2>1. PICK t \in Text, x \in Symbols : s = Append(t, x)
      BY <1>2, SequenceEmptyOrAppend DEF Text
    <2>2. Wide(t) \in Text /\ Append(Wide(t), "?") \in Text /\ "?" \in Symbols
      BY WideAppend, AppendProperties DEF Symbols, Text
    <2>3. CASE x = "char"
      <3>1. Wide(s) = Append(Append(Wide(t), "?"), "?") /\ PopCr(s) = s
        BY <2>1, <2>3, WideAppend, PopCrAppend
      <3>2. PopCr(Append(Append(Wide(t), "?"), "?")) = Append(Append(Wide(t), "?"), "?")
        BY <2>2, PopCrAppend
      <3> QED
        BY <3>1, <3>2
    <2>4. CASE x # "char"
      <3>1. Wide(s) = Append(Wide(t), x) /\ PopCr(s) = IF x = "cr" THEN t ELSE s
        BY <2>1, <2>4, WideAppend, PopCrAppend
      <3>2. PopCr(Append(Wide(t), x)) = IF x = "cr" THEN Wide(t) ELSE Append(Wide(t), x)
        BY <2>2, PopCrAppend
      <3> QED
        BY <3>1, <3>2
    <2> QED
      BY <2>3, <2>4
  <1> QED
    BY <1>1, <1>2

LEMMA TrimEndOfWide ==
    ASSUME NEW s \in Text
    PROVE  TrimEnd(Wide(s)) = Wide(TrimEnd(s))
  <1> DEFINE P(t) == TrimEnd(Wide(t)) = Wide(TrimEnd(t))
             T == {t \in Text : P(t)}
  <1>1. P(<<>>)
    <2>1. Wide(<<>>) = <<>> /\ TrimEnd(<<>>) = <<>>
      BY NoText, WideAppend, TrimEndAppend DEF Symbols
    <2> QED
      BY <2>1
  <1>2. ASSUME NEW t \in Text, P(t), NEW x \in Symbols PROVE P(Append(t, x))
    <2>1. Wide(t) \in Text /\ Append(Wide(t), "?") \in Text /\ "?" \in Symbols
      BY WideAppend, AppendProperties DEF Symbols, Text
    <2>2. CASE x = "char"
      <3>1. /\ Wide(Append(t, x)) = Append(Append(Wide(t), "?"), "?")
            /\ TrimEnd(Append(t, x)) = Append(t, x)
        BY <2>2, WideAppend, TrimEndAppend
      <3>2. TrimEnd(Append(Append(Wide(t), "?"), "?")) = Append(Append(Wide(t), "?"), "?")
        BY <2>1, TrimEndAppend
      <3> QED
        BY <3>1, <3>2
    <2>3. CASE x # "char"
      <3>1. /\ Wide(Append(t, x)) = Append(Wide(t), x)
            /\ TrimEnd(Append(t, x)) = IF x = "cr" THEN TrimEnd(t) ELSE Append(t, x)
        BY <2>3, WideAppend, TrimEndAppend
      <3>2. TrimEnd(Append(Wide(t), x)) = IF x = "cr" THEN TrimEnd(Wide(t)) ELSE Append(Wide(t), x)
        BY <2>1, TrimEndAppend
      <3> QED
        BY <1>2, <3>1, <3>2
    <2> QED
      BY <2>2, <2>3
  <1> HIDE DEF P
  <1>3. <<>> \in T /\ \A t \in Text : t \in T => \A x \in Symbols : Append(t, x) \in T
    BY <1>1, <1>2, EmptySeq, AppendProperties DEF Text
  <1> HIDE DEF T
  <1>4. Text \subseteq T
    BY <1>3, FromEmpty DEF Text
  <1>5. P(s)
    BY <1>4 DEF T
  <1> QED
    BY <1>5 DEF P

LEMMA TrimStartOfWide ==
    ASSUME NEW s \in Text
    PROVE  TrimStart(Wide(s)) = Wide(TrimStart(s))
  <1> DEFINE P(t) == TrimStart(Wide(t)) = Wide(TrimStart(t))
             T == {t \in Text : P(t)}
  <1>1. P(<<>>)
    <2>1. Wide(<<>>) = <<>> /\ TrimStart(<<>>) = <<>>
      BY NoText, WideAppend, TrimStartAppend DEF Symbols
    <2> QED
      BY <2>1
  <1>2. ASSUME NEW t \in Text, P(t), NEW x \in Symbols PROVE P(Append(t, x))
    <2>1. /\ Wide(t) \in Text /\ Append(Wide(t), "?") \in Text
          /\ "?" \in Symbols /\ "?" \notin Blank /\ "char" \notin Blank
      BY WideAppend, AppendProperties DEF Symbols, Text, Blank
    <2>2. TrimStart(t) \in Text /\ (TrimStart(Wide(t)) = <<>> <=> TrimStart(t) = <<>>)
      <3>1. TrimStart(t) \in Text
        BY TrimStartAppend
      <3> QED
        BY <1>2, <3>1, WideEmpty
    <2>3. CASE x = "char"
      <3>1. /\ Wide(Append(t, x)) = Append(Append(Wide(t), "?"), "?")
            /\ TrimStart(Append(t, x)) = Append(TrimStart(t), x)
        BY <2>1, <2>3, WideAppend, TrimStartAppend
      <3>2. TrimStart(Append(Wide(t), "?")) = Append(TrimStart(Wide(t)), "?")
        BY <2>1, TrimStartAppend
      <3>3. TrimStart(Append(Append(Wide(t), "?"), "?")) = Append(TrimStart(Append(Wide(t), "?")), "?")
        BY <2>1, TrimStartAppend
      <3>4. Wide(Append(TrimStart(t), x)) = Append(Append(Wide(TrimStart(t)), "?"), "?")
        BY <2>2, <2>3, WideAppend
      <3> QED
        BY <1>2, <3>1, <3>2, <3>3, <3>4
    <2>4. CASE x # "char"
      <3>1. /\ Wide(Append(t, x)) = Append(Wide(t), x)
            /\ TrimStart(Append(t, x))
               = IF TrimStart(t) = <<>> /\ x \in Blank THEN <<>> ELSE Append(TrimStart(t), x)
        BY <2>4, WideAppend, TrimStartAppend
      <3>2. TrimStart(Append(Wide(t), x))
            = IF TrimStart(Wide(t)) = <<>> /\ x \in Blank THEN <<>> ELSE Append(TrimStart(Wide(t)), x)
        BY <2>1, TrimStartAppend
      <3>3. Wide(Append(TrimStart(t), x)) = Append(Wide(TrimStart(t)), x)
        BY <2>2, <2>4, WideAppend
      <3>4. Wide(<<>>) = <<>>
        BY WideAppend
      <3> QED
        BY <1>2, <2>2, <3>1, <3>2, <3>3, <3>4
    <2> QED
      BY <2>3, <2>4
  <1> HIDE DEF P
  <1>3. <<>> \in T /\ \A t \in Text : t \in T => \A x \in Symbols : Append(t, x) \in T
    BY <1>1, <1>2, EmptySeq, AppendProperties DEF Text
  <1> HIDE DEF T
  <1>4. Text \subseteq T
    BY <1>3, FromEmpty DEF Text
  <1>5. P(s)
    BY <1>4 DEF T
  <1> QED
    BY <1>5 DEF P

-----------------------------------------------------------------------------
(* Events                                                                  *)

LEMMA EventTyped ==
    ASSUME NEW A, A \subseteq Symbols, NEW l \in Seq(A)
    PROVE  Event(l) \in Seq(Seq(A)) /\ (Event(l) = <<>> \/ \E e \in Seq(A) : Event(l) = <<e>>)
  <1>1. CASE l # <<>> /\ Head(l) = "data"
    <2>1. Tail(l) \in Seq(A)
      BY <1>1, HeadTailProperties
    <2>2. TrimStart(Tail(l)) \in Seq(A)
      BY <2>1, Trims
    <2>3. Event(l) = <<TrimStart(Tail(l))>>
      BY <1>1 DEF Event
    <2> QED
      BY <2>2, <2>3
  <1>2. CASE ~(l # <<>> /\ Head(l) = "data")
    <2>1. Event(l) = <<>>
      BY <1>2 DEF Event
    <2> QED
      BY <2>1
  <1> QED
    BY <1>1, <1>2

LEMMA EventOfWide ==
    ASSUME NEW l \in Text
    PROVE  Event(Wide(l)) = WideAll(Event(l))
  <1>0. WideAll(<<>>) = <<>>
    BY DEF WideAll
  <1>1. CASE l = <<>>
    <2>1. Wide(l) = <<>> /\ Event(<<>>) = <<>>
      BY <1>1, WideEmpty DEF Event
    <2> QED
      BY <1>0, <1>1, <2>1
  <1>2. CASE l # <<>>
    <2> DEFINE h == Head(l)
               t == Tail(l)
    <2>1. h \in Symbols /\ t \in Text /\ <<h>> \in Text
      BY <1>2, HeadTailProperties DEF Text
    <2>2. l = <<h>> \o t
      <3>1. Len(l) \in Nat /\ Len(l) # 0
        BY <1>2, EmptySeq, LenProperties DEF Text
      <3>2. 1 \in 1..Len(l) /\ Len(l) \in 1..Len(l)
        BY <3>1
      <3>3. SubSeq(l, 1, Len(l)) = <<l[1]>> \o SubSeq(l, 1 + 1, Len(l))
        BY <3>2, SubSeqRecursiveFirst DEF Text
      <3>4. SubSeq(l, 1, Len(l)) = l /\ Tail(l) = SubSeq(l, 2, Len(l)) /\ Head(l) = l[1]
        BY <1>2, SubSeqFull, TailIsSubSeq DEF Text
      <3> QED
        BY <3>3, <3>4
    <2> HIDE DEF h, t
    <2>3. Wide(l) = Wide(<<h>>) \o Wide(t) /\ Wide(t) \in Text
      BY <2>1, <2>2, WideConcat, WideAppend
    <2>4. CASE h = "char"
      <3>1. Wide(<<h>>) = <<"?", "?">>
        <4>1. <<>> \in Text /\ Append(<<>>, h) = <<h>>
          BY <2>1, EmptySeq DEF Text
        <4>2. Wide(<<h>>) = Append(Append(<<>>, "?"), "?")
          BY <2>1, <2>4, <4>1, WideAppend
        <4> QED
          BY <4>2
      <3>2. Head(<<"?", "?">> \o Wide(t)) = "?"
        BY <2>3, ConcatProperties DEF Text
      <3>3. Event(Wide(l)) = <<>> /\ Event(l) = <<>>
        BY <2>3, <2>4, <3>1, <3>2 DEF Event, h
      <3> QED
        BY <1>0, <3>3
    <2>5. CASE h # "char"
      <3>1. Wide(<<h>>) = <<h>>
        <4>1. <<>> \in Text /\ Append(<<>>, h) = <<h>>
          BY <2>1, EmptySeq DEF Text
        <4> QED
          BY <2>1, <2>5, <4>1, WideAppend
      <3> DEFINE w == Wide(t)
      <3>2. w \in Text
        BY <2>3
      <3> HIDE DEF w
      <3>3. <<h>> \o w # <<>> /\ Head(<<h>> \o w) = h /\ Tail(<<h>> \o w) = w
        BY <2>1, <3>2 DEF Text
      <3>4. Wide(l) = <<h>> \o w
        BY <2>3, <3>1 DEF w
      <3>5. CASE h = "data"
        <4>1. Event(l) = <<TrimStart(t)>>
          BY <1>2, <3>5 DEF Event, h, t
        <4>2. Event(Wide(l)) = <<TrimStart(w)>>
          BY <3>3, <3>4, <3>5 DEF Event
        <4>3. TrimStart(w) = Wide(TrimStart(t))
          BY <2>1, TrimStartOfWide DEF w
        <4>4. WideAll(<<TrimStart(t)>>) = <<Wide(TrimStart(t))>>
          BY DEF WideAll
        <4> QED
          BY <4>1, <4>2, <4>3, <4>4
      <3>6. CASE h # "data"
        <4>1. Event(l) = <<>>
          BY <3>6 DEF Event, h
        <4>2. Event(Wide(l)) = <<>>
          BY <3>3, <3>4, <3>6 DEF Event
        <4> QED
          BY <1>0, <4>1, <4>2
      <3> QED
        BY <3>5, <3>6
    <2> QED
      BY <2>4, <2>5
  <1> QED
    BY <1>1, <1>2

EventOf(A) == [l \in Seq(A) |-> Event(PopCr(l))]

LEMMA EventsAre ==
    ASSUME NEW A, A \subseteq Symbols
    PROVE  /\ EventOf(A) \in [Seq(A) -> Seq(Seq(A))]
           /\ \A ls \in Seq(Seq(A)) : Events(ls) = Spread(EventOf(A), ls)
  <1>1. EventOf(A) \in [Seq(A) -> Seq(Seq(A))]
    <2>1. \A l \in Seq(A) : Event(PopCr(l)) \in Seq(Seq(A))
      BY Trims, EventTyped
    <2> QED
      BY <2>1 DEF EventOf
  <1>2. ASSUME NEW ls \in Seq(Seq(A)) PROVE Events(ls) = Spread(EventOf(A), ls)
    <2>1. DOMAIN ls = 1..Len(ls) /\ \A k \in 1..Len(ls) : ls[k] \in Seq(A)
      BY LenProperties, ElementOfSeq
    <2>2. [k \in DOMAIN ls |-> Event(PopCr(ls[k]))] = [k \in DOMAIN ls |-> EventOf(A)[ls[k]]]
      BY <2>1 DEF EventOf
    <2> QED
      BY <2>2 DEF Events, Spread
  <1> QED
    BY <1>1, <1>2

LEMMA SpreadSame ==
    ASSUME NEW C, NEW f \in [C -> Seq(C)]
    PROVE  \A x \in Seq(C), y \in Seq(C) : Spread(f, x \o y) = Spread(f, x) \o Spread(f, y)
  BY SpreadConcat

LEMMA EventsConcat ==
    ASSUME NEW A, A \subseteq Symbols, NEW ls \in Seq(Seq(A)), NEW ms \in Seq(Seq(A))
    PROVE  Events(ls) \in Seq(Seq(A)) /\ Events(ls \o ms) = Events(ls) \o Events(ms)
  <1>1. ls \o ms \in Seq(Seq(A))
    BY ConcatProperties
  <1>2. EventOf(A) \in [Seq(A) -> Seq(Seq(A))]
    BY EventsAre
  <1>3. Spread(EventOf(A), ls \o ms) = Spread(EventOf(A), ls) \o Spread(EventOf(A), ms)
    BY <1>2, SpreadSame
  <1>4. Spread(EventOf(A), ls) \in Seq(Seq(A))
    BY <1>2, SpreadAppend
  <1> QED
    BY <1>1, <1>3, <1>4, EventsAre

LEMMA EventsAppend ==
    ASSUME NEW ls \in Seq(Text), NEW l \in Text
    PROVE  /\ Events(<<>>) = <<>> /\ Events(ls) \in Seq(Text)
           /\ Events(Append(ls, l)) = Events(ls) \o Event(PopCr(l))
  <1>1. EventOf(Symbols) \in [Text -> Seq(Text)]
    BY EventsAre DEF Text
  <1>2. Append(ls, l) \in Seq(Text) /\ <<>> \in Seq(Text)
    BY AppendProperties, EmptySeq
  <1>3. \A z \in Seq(Text) : Events(z) = Spread(EventOf(Symbols), z)
    BY EventsAre DEF Text
  <1>4. Spread(EventOf(Symbols), <<>>) = <<>> /\ Spread(EventOf(Symbols), ls) \in Seq(Text)
    BY <1>1, SpreadAppend
  <1>5. Spread(EventOf(Symbols), Append(ls, l)) = Spread(EventOf(Symbols), ls) \o EventOf(Symbols)[l]
    BY <1>1, SpreadAppend
  <1>6. EventOf(Symbols)[l] = Event(PopCr(l))
    BY DEF EventOf, Text
  <1> QED
    BY <1>2, <1>3, <1>4, <1>5, <1>6

LEMMA EventsOfWide ==
    ASSUME NEW ls \in Seq(Text)
    PROVE  Events(WideAll(ls)) = WideAll(Events(ls))
  <1> DEFINE P(z) == Events(WideAll(z)) = WideAll(Events(z))
             T == {z \in Seq(Text) : P(z)}
  <1>1. P(<<>>)
    <2>1. Events(<<>>) = <<>> /\ WideAll(<<>>) = <<>>
      BY EventsAppend, EmptySeq, NoText DEF WideAll
    <2> QED
      BY <2>1
  <1>2. ASSUME NEW z \in Seq(Text), P(z), NEW l \in Text PROVE P(Append(z, l))
    <2>1. /\ Wide(l) \in Text /\ PopCr(l) \in Text /\ Events(z) \in Seq(Text)
          /\ WideAll(z) \in Seq(Text)
      BY WideAppend, Trims, EventsAppend, WideAllAppend DEF Symbols, Text
    <2>2. WideAll(Append(z, l)) = Append(WideAll(z), Wide(l))
      BY WideAllAppend
    <2>3. Events(Append(WideAll(z), Wide(l))) = Events(WideAll(z)) \o Event(PopCr(Wide(l)))
      BY <2>1, EventsAppend
    <2>4. Event(PopCr(Wide(l))) = WideAll(Event(PopCr(l)))
      BY <2>1, PopCrOfWide, EventOfWide
    <2>5. Events(Append(z, l)) = Events(z) \o Event(PopCr(l))
      BY EventsAppend
    <2>6. WideAll(Events(z) \o Event(PopCr(l))) = WideAll(Events(z)) \o WideAll(Event(PopCr(l)))
      <3>1. Event(PopCr(l)) = <<>> \/ \E e \in Text : Event(PopCr(l)) = <<e>>
        BY <2>1, EventTyped DEF Text
      <3>2. WideAll(Events(z)) \in Seq(Text)
        BY <2>1, WideAllAppend
      <3>3. CASE Event(PopCr(l)) = <<>>
        <4>1. Events(z) \o <<>> = Events(z) /\ WideAll(Events(z)) \o <<>> = WideAll(Events(z))
          BY <2>1, <3>2, ConcatEmptySeq
        <4>2. WideAll(<<>>) = <<>>
          BY DEF WideAll
        <4> QED
          BY <3>3, <4>1, <4>2
      <3>4. ASSUME NEW e \in Text, Event(PopCr(l)) = <<e>>
            PROVE  WideAll(Events(z) \o <<e>>) = WideAll(Events(z)) \o WideAll(<<e>>)
        <4>1. Wide(e) \in Text
          BY WideAppend DEF Symbols
        <4>2. Events(z) \o <<e>> = Append(Events(z), e)
          BY <2>1, AppendIsConcat
        <4>3. WideAll(Append(Events(z), e)) = Append(WideAll(Events(z)), Wide(e))
          BY <2>1, WideAllAppend
        <4>4. Append(WideAll(Events(z)), Wide(e)) = WideAll(Events(z)) \o <<Wide(e)>>
          BY <3>2, <4>1, AppendIsConcat
        <4>5. WideAll(<<e>>) = <<Wide(e)>>
          BY DEF WideAll
        <4> QED
          BY <4>2, <4>3, <4>4, <4>5
      <3> QED
        BY <3>1, <3>3, <3>4
    <2> QED
      BY <1>2, <2>2, <2>3, <2>4, <2>5, <2>6
  <1> HIDE DEF P
  <1>3. <<>> \in T /\ \A z \in Seq(Text) : z \in T => \A l \in Text : Append(z, l) \in T
    BY <1>1, <1>2, EmptySeq, AppendProperties
  <1> HIDE DEF T
  <1>4. Seq(Text) \subseteq T
    BY <1>3, FromEmpty
  <1>5. P(ls)
    BY <1>4 DEF T
  <1> QED
    BY <1>5 DEF P

\* Texts that differ in their two-byte characters only make the same events, but
\* for those characters.
LEMMA WideDecides ==
    ASSUME NEW s \in Text, NEW u \in Text, Wide(s) = Wide(u)
    PROVE  /\ WideAll(Events(Lines(s))) = WideAll(Events(Lines(u)))
           /\ WideAll(Event(TrimEnd(Rest(s)))) = WideAll(Event(TrimEnd(Rest(u))))
  <1>1. ASSUME NEW t \in Text
        PROVE  /\ WideAll(Events(Lines(t))) = Events(Lines(Wide(t)))
               /\ WideAll(Event(TrimEnd(Rest(t)))) = Event(TrimEnd(Rest(Wide(t))))
    <2>1. Lines(t) \in Seq(Text) /\ Rest(t) \in Text /\ TrimEnd(Rest(t)) \in Text
      <3>1. Rest(t) \in Text
        BY RestAppend DEF Symbols
      <3> QED
        BY <3>1, LinesTyped, Trims DEF Text
    <2>2. WideAll(Events(Lines(t))) = Events(WideAll(Lines(t)))
      BY <2>1, EventsOfWide
    <2>3. WideAll(Event(TrimEnd(Rest(t)))) = Event(Wide(TrimEnd(Rest(t))))
      BY <2>1, EventOfWide
    <2>4. Wide(TrimEnd(Rest(t))) = TrimEnd(Wide(Rest(t)))
      BY <2>1, TrimEndOfWide
    <2>5. WideAll(Lines(t)) = Lines(Wide(t)) /\ Wide(Rest(t)) = Rest(Wide(t))
      BY LinesOfWide
    <2> QED
      BY <2>2, <2>3, <2>4, <2>5
  <1>2. WideAll(Events(Lines(s))) = Events(Lines(Wide(s)))
    BY <1>1
  <1>3. WideAll(Events(Lines(u))) = Events(Lines(Wide(u)))
    BY <1>1
  <1>4. WideAll(Event(TrimEnd(Rest(s)))) = Event(TrimEnd(Rest(Wide(s))))
    BY <1>1
  <1>5. WideAll(Event(TrimEnd(Rest(u)))) = Event(TrimEnd(Rest(Wide(u))))
    BY <1>1
  <1> QED
    BY <1>2, <1>3, <1>4, <1>5

-----------------------------------------------------------------------------
(* Lossy                                                                   *)

Shown(x) == IF x \in {"hi", "lo"} THEN "?" ELSE x
Open(b) == Len(b) # 0 /\ b[Len(b)] = "hi"   \* ends in the first half of a character

PairAt(b, i) == i \in 1..(Len(b) - 1) /\ b[i] = "hi" /\ b[i + 1] = "lo"
CharAt(b, i) ==
    CASE PairAt(b, i)      -> <<"char">>
      [] PairAt(b, i - 1)  -> <<>>
      [] OTHER             -> <<IF b[i] \in {"hi", "lo"} THEN "?" ELSE b[i]>>
Chars(b) == [i \in DOMAIN b |-> CharAt(b, i)]

LEMMA LossyIsFlat ==
    ASSUME NEW b \in Seq(Bytes)
    PROVE  Lossy(b) = FlattenSeq(Chars(b))
  BY DEF Lossy, Chars, CharAt, PairAt

LEMMA CharsTyped ==
    ASSUME NEW b \in Seq(Bytes)
    PROVE  Chars(b) \in Seq(Seq(Plain)) /\ Len(Chars(b)) = Len(b) /\ Lossy(b) \in Seq(Plain)
  <1>1. DOMAIN b = 1..Len(b) /\ Len(b) \in Nat /\ \A i \in 1..Len(b) : b[i] \in Bytes
    BY LenProperties, ElementOfSeq
  <1>2. <<>> \in Seq(Plain) /\ \A x \in Plain : <<x>> \in Seq(Plain)
    BY EmptySeq
  <1>3. "char" \in Plain /\ "?" \in Plain /\ Bytes \ {"hi", "lo"} \subseteq Plain
    BY DEF Plain, Symbols
  <1>4. ASSUME NEW i \in 1..Len(b) PROVE CharAt(b, i) \in Seq(Plain)
    BY <1>1, <1>2, <1>3 DEF CharAt
  <1>5. Chars(b) \in Seq(Seq(Plain)) /\ Len(Chars(b)) = Len(b)
    <2>1. Chars(b) = [i \in 1..Len(b) |-> Chars(b)[i]]
      BY <1>1 DEF Chars
    <2>2. \A i \in 1..Len(b) : Chars(b)[i] \in Seq(Plain)
      BY <1>1, <1>4 DEF Chars
    <2> QED
      BY <1>1, <2>1, <2>2
  <1> QED
    BY <1>5, LossyIsFlat, FlattenType

\* A byte that completes no character is one of the decoded text, or "?".
LEMMA LossyAppend ==
    ASSUME NEW b \in Seq(Bytes), NEW x \in Bytes, ~(x = "lo" /\ Open(b))
    PROVE  Lossy(Append(b, x)) = Append(Lossy(b), Shown(x))
  <1> DEFINE n == Len(b)
             t == Append(b, x)
  <1>1. /\ n \in Nat /\ DOMAIN b = 1..n
        /\ t \in Seq(Bytes) /\ Len(t) = n + 1 /\ DOMAIN t = 1..(n + 1)
        /\ \A i \in 1..n : t[i] = b[i] /\ i \in 1..(n + 1)
        /\ t[n + 1] = x /\ n + 1 \in 1..(n + 1)
    BY AppendProperties, LenProperties
  <1>2. Shown(x) \in Plain /\ <<Shown(x)>> \in Seq(Plain)
    BY DEF Shown, Plain, Symbols
  <1>3. ~(n # 0 /\ b[n] = "hi" /\ x = "lo")
    BY DEF Open
  <1> HIDE DEF t, n
  <1>4. ASSUME NEW i \in 0..n PROVE PairAt(t, i) <=> PairAt(b, i)
    <2>1. CASE i \in 1..(n - 1)
      <3>1. i \in 1..n /\ i + 1 \in 1..n /\ i \in 1..((n + 1) - 1)
        BY <1>1, <2>1
      <3> QED
        BY <1>1, <2>1, <3>1 DEF PairAt, n
    <2>2. CASE i = n /\ n # 0
      <3>1. ~PairAt(t, i)
        BY <1>1, <1>3, <2>2 DEF PairAt
      <3>2. ~PairAt(b, i)
        BY <1>1, <2>2 DEF PairAt, n
      <3> QED
        BY <3>1, <3>2
    <2>3. CASE i = 0
      BY <2>3 DEF PairAt
    <2> QED
      BY <1>1, <2>1, <2>2, <2>3
  <1>5. ASSUME NEW i \in 1..n PROVE CharAt(t, i) = CharAt(b, i)
    <2>1. i \in 0..n /\ i - 1 \in 0..n /\ t[i] = b[i]
      BY <1>1
    <2>2. (PairAt(t, i) <=> PairAt(b, i)) /\ (PairAt(t, i - 1) <=> PairAt(b, i - 1))
      BY <1>4, <2>1
    <2> QED
      BY <2>1, <2>2 DEF CharAt
  <1>6. CharAt(t, n + 1) = <<Shown(x)>>
    <2>1. ~PairAt(t, n + 1)
      BY <1>1 DEF PairAt
    <2>2. ~PairAt(t, (n + 1) - 1)
      <3>1. (n + 1) - 1 = n /\ n \in 0..n
        BY <1>1
      <3>2. ~PairAt(b, n)
        BY <1>1 DEF PairAt, n
      <3> QED
        BY <1>4, <3>1, <3>2
    <2> QED
      BY <1>1, <2>1, <2>2 DEF CharAt, Shown
  <1>7. Chars(t) = Append(Chars(b), <<Shown(x)>>)
    <2>1. Chars(b) \in Seq(Seq(Plain)) /\ Len(Chars(b)) = n
      BY CharsTyped DEF n
    <2>2. /\ DOMAIN Chars(t) = 1..(n + 1)
          /\ Chars(t) = [i \in DOMAIN Chars(t) |-> Chars(t)[i]]
      BY <1>1 DEF Chars
    <2>3. /\ \A i \in 1..n : Chars(t)[i] = Chars(b)[i]
          /\ Chars(t)[n + 1] = <<Shown(x)>>
      BY <1>1, <1>5, <1>6 DEF Chars
    <2> QED
      BY <1>2, <2>1, <2>2, <2>3, PiecesAppend
  <1>8. FlattenSeq(Append(Chars(b), <<Shown(x)>>)) = FlattenSeq(Chars(b)) \o <<Shown(x)>>
    BY <1>2, CharsTyped, FlattenAppend
  <1>9. Lossy(b) \o <<Shown(x)>> = Append(Lossy(b), Shown(x))
    BY <1>2, CharsTyped, AppendIsConcat
  <1> QED
    BY <1>1, <1>7, <1>8, <1>9, LossyIsFlat DEF t

\* The second byte of a character makes one of the last "?".
LEMMA LossyPair ==
    ASSUME NEW b \in Seq(Bytes)
    PROVE  Lossy(Append(Append(b, "hi"), "lo")) = Append(Lossy(b), "char")
  <1> DEFINE n == Len(b)
             s == Append(b, "hi")
             t == Append(s, "lo")
  <1>0. "hi" \in Bytes /\ "lo" \in Bytes /\ "char" \in Plain
    BY DEF Bytes, Plain, Symbols
  <1>1. /\ n \in Nat /\ DOMAIN b = 1..n /\ s \in Seq(Bytes)
        /\ Len(s) = n + 1 /\ s[n + 1] = "hi" /\ \A i \in 1..n : s[i] = b[i]
    BY <1>0, AppendProperties, LenProperties
  <1>2. /\ t \in Seq(Bytes) /\ Len(t) = n + 2 /\ DOMAIN t = 1..(n + 2)
        /\ \A i \in 1..n : t[i] = b[i] /\ i \in 1..(n + 2)
        /\ t[n + 1] = "hi" /\ t[n + 2] = "lo" /\ n + 1 \in 1..(n + 2) /\ n + 2 \in 1..(n + 2)
    <2> HIDE DEF s, n
    <2>1. /\ t \in Seq(Bytes) /\ Len(t) = (n + 1) + 1 /\ t[(n + 1) + 1] = "lo"
          /\ \A i \in 1..(n + 1) : t[i] = s[i]
      BY <1>0, <1>1, AppendProperties
    <2>2. DOMAIN t = 1..Len(t)
      BY <2>1, LenProperties
    <2> HIDE DEF t
    <2>3. (n + 1) + 1 = n + 2 /\ n + 1 \in 1..(n + 1) /\ \A i \in 1..n : i \in 1..(n + 1)
      BY <1>1
    <2> QED
      BY <1>1, <2>1, <2>2, <2>3
  <1> HIDE DEF s, t, n
  <1>3. ASSUME NEW i \in 0..n PROVE PairAt(t, i) <=> PairAt(b, i)
    <2>1. CASE i \in 1..(n - 1)
      <3>1. i \in 1..n /\ i + 1 \in 1..n /\ i \in 1..((n + 2) - 1)
        BY <1>1, <2>1
      <3> QED
        BY <1>2, <2>1, <3>1 DEF PairAt, n
    <2>2. CASE i = n /\ n # 0
      <3>1. ~PairAt(t, i)
        BY <1>1, <1>2, <2>2 DEF PairAt
      <3>2. ~PairAt(b, i)
        BY <1>1, <2>2 DEF PairAt, n
      <3> QED
        BY <3>1, <3>2
    <2>3. CASE i = 0
      BY <2>3 DEF PairAt
    <2> QED
      BY <1>1, <2>1, <2>2, <2>3
  <1>4. ASSUME NEW i \in 1..n PROVE CharAt(t, i) = CharAt(b, i)
    <2>1. i \in 0..n /\ i - 1 \in 0..n /\ t[i] = b[i]
      BY <1>1, <1>2
    <2>2. (PairAt(t, i) <=> PairAt(b, i)) /\ (PairAt(t, i - 1) <=> PairAt(b, i - 1))
      BY <1>3, <2>1
    <2> QED
      BY <2>1, <2>2 DEF CharAt
  <1>5. PairAt(t, n + 1)
    BY <1>1, <1>2 DEF PairAt
  <1>6. CharAt(t, n + 1) = <<"char">>
    <2>1. ~PairAt(t, (n + 1) - 1)
      BY <1>1, <1>2 DEF PairAt
    <2> QED
      BY <1>5, <2>1 DEF CharAt
  <1>7. CharAt(t, n + 2) = <<>>
    <2>1. ~PairAt(t, n + 2) /\ PairAt(t, (n + 2) - 1)
      BY <1>1, <1>2, <1>5 DEF PairAt
    <2> QED
      BY <2>1 DEF CharAt
  <1> DEFINE c == Append(Chars(b), <<"char">>)
  <1>8. Chars(b) \in Seq(Seq(Plain)) /\ Len(Chars(b)) = n /\ <<"char">> \in Seq(Plain)
    BY <1>0, CharsTyped DEF n
  <1>9. /\ c \in Seq(Seq(Plain)) /\ Len(c) = n + 1 /\ c[n + 1] = <<"char">>
        /\ \A i \in 1..n : c[i] = Chars(b)[i]
    BY <1>8, AppendProperties
  <1>10. Chars(t) = Append(c, <<>>)
    <2> HIDE DEF c
    <2>1. /\ DOMAIN Chars(t) = 1..((n + 1) + 1)
          /\ Chars(t) = [i \in DOMAIN Chars(t) |-> Chars(t)[i]]
      BY <1>1, <1>2 DEF Chars
    <2>2. /\ \A i \in 1..n : Chars(t)[i] = Chars(b)[i]
          /\ Chars(t)[n + 1] = <<"char">> /\ Chars(t)[n + 2] = <<>>
      BY <1>1, <1>2, <1>4, <1>6, <1>7 DEF Chars
    <2>3. \A i \in 1..(n + 1) : Chars(t)[i] = c[i]
      <3>1. \A i \in 1..(n + 1) : i \in 1..n \/ i = n + 1
        BY <1>1
      <3> QED
        BY <1>9, <2>2, <3>1
    <2>4. Chars(t)[(n + 1) + 1] = <<>> /\ <<>> \in Seq(Plain)
      BY <1>1, <2>2, EmptySeq
    <2> QED
      BY <1>9, <2>1, <2>3, <2>4, PiecesAppend
  <1>11. FlattenSeq(Append(c, <<>>)) = FlattenSeq(c) \o <<>> /\ FlattenSeq(c) \in Seq(Plain)
    BY <1>9, EmptySeq, FlattenAppend, FlattenType
  <1>12. FlattenSeq(c) = FlattenSeq(Chars(b)) \o <<"char">>
    BY <1>8, FlattenAppend
  <1>13. Lossy(b) \o <<"char">> = Append(Lossy(b), "char")
    BY <1>0, CharsTyped, AppendIsConcat
  <1>14. FlattenSeq(c) \o <<>> = FlattenSeq(c)
    BY <1>11, ConcatEmptySeq
  <1> QED
    BY <1>2, <1>10, <1>11, <1>12, <1>13, <1>14, LossyIsFlat DEF t, s

\* Induction over the last two elements.
LEMMA FromEmptyByTwo ==
    ASSUME NEW A, NEW T, <<>> \in T, \A x \in A : Append(<<>>, x) \in T,
           \A s \in Seq(A), x \in A, y \in A :
              s \in T /\ Append(s, x) \in T => Append(Append(s, x), y) \in T
    PROVE  Seq(A) \subseteq T
  <1> DEFINE U == {s \in Seq(A) : s \in T /\ \A x \in A : Append(s, x) \in T}
  <1>1. <<>> \in U
    BY EmptySeq
  <1>2. ASSUME NEW s \in Seq(A), s \in U, NEW x \in A PROVE Append(s, x) \in U
    <2>1. Append(s, x) \in Seq(A) /\ Append(s, x) \in T
      BY <1>2, AppendProperties
    <2>2. \A y \in A : Append(Append(s, x), y) \in T
      BY <1>2
    <2> QED
      BY <2>1, <2>2
  <1> HIDE DEF U
  <1>3. Seq(A) \subseteq U
    BY <1>1, <1>2, FromEmpty
  <1> QED
    BY <1>3 DEF U

LEMMA OpenAppend ==
    ASSUME NEW b \in Seq(Bytes), NEW x \in Bytes
    PROVE  /\ ~Open(<<>>) /\ (Open(Append(b, x)) <=> x = "hi")
           /\ Len(Append(b, x)) # 0
           /\ Append(b, x)[1] = IF Len(b) = 0 THEN x ELSE b[1]
  <1>1. Len(b) \in Nat /\ Len(Append(b, x)) = Len(b) + 1 /\ Append(b, x)[Len(b) + 1] = x
    BY AppendProperties, LenProperties
  <1>2. Len(b) # 0 => Append(b, x)[1] = b[1]
    BY <1>1, AppendProperties
  <1>3. Len(<<>>) = 0
    OBVIOUS
  <1> QED
    BY <1>1, <1>2, <1>3 DEF Open

LEMMA LossyEmpty == Lossy(<<>>) = <<>> /\ <<>> \in Seq(Bytes)
  <1>1. <<>> \in Seq(Bytes)
    BY EmptySeq
  <1>2. Chars(<<>>) = <<>>
    BY DEF Chars
  <1> QED
    BY <1>1, <1>2, LossyIsFlat, FlattenEmpty

\* The bytes of a text as Wide shows them.
MaskOf == [x \in Bytes |-> <<Shown(x)>>]
Mask(b) == Spread(MaskOf, b)

LEMMA MaskTyped == MaskOf \in [Bytes -> Seq(Symbols)]
  <1>1. \A x \in Bytes : Shown(x) \in Symbols
    BY DEF Shown, Symbols
  <1> QED
    BY <1>1 DEF MaskOf

LEMMA MaskAppend ==
    ASSUME NEW b \in Seq(Bytes), NEW x \in Bytes
    PROVE  /\ Mask(<<>>) = <<>> /\ Mask(b) \in Text
           /\ Mask(Append(b, x)) = Append(Mask(b), Shown(x))
  <1>1. Spread(MaskOf, b) \in Seq(Symbols) /\ Spread(MaskOf, <<>>) = <<>>
    BY MaskTyped, SpreadAppend
  <1>2. Spread(MaskOf, Append(b, x)) = Spread(MaskOf, b) \o MaskOf[x]
    BY MaskTyped, SpreadAppend
  <1>3. MaskOf[x] = <<Shown(x)>> /\ Shown(x) \in Symbols
    BY DEF MaskOf, Shown, Symbols
  <1>4. Spread(MaskOf, b) \o <<Shown(x)>> = Append(Spread(MaskOf, b), Shown(x))
    BY <1>1, <1>3, AppendIsConcat
  <1> QED
    BY <1>1, <1>2, <1>3, <1>4 DEF Mask, Text

LEMMA WideOfLossy ==
    ASSUME NEW b \in Seq(Bytes)
    PROVE  Wide(Lossy(b)) = Mask(b)
  <1> DEFINE P(t) == Wide(Lossy(t)) = Mask(t)
             T == {t \in Seq(Bytes) : P(t)}
  <1>1. P(<<>>)
    <2>1. Wide(<<>>) = <<>> /\ Mask(<<>>) = <<>>
      BY NoText, WideAppend, MaskAppend, LossyEmpty DEF Symbols, Bytes
    <2> QED
      BY <2>1, LossyEmpty
  <1>2. ASSUME NEW t \in Seq(Bytes), P(t), NEW x \in Bytes, ~(x = "lo" /\ Open(t))
        PROVE  P(Append(t, x))
    <2>1. Lossy(Append(t, x)) = Append(Lossy(t), Shown(x))
      BY <1>2, LossyAppend
    <2>2. Lossy(t) \in Text /\ Shown(x) \in Symbols /\ Shown(x) # "char"
      <3>1. Lossy(t) \in Text
        BY CharsTyped, PlainText
      <3> QED
        BY <3>1 DEF Shown, Symbols, Bytes
    <2>3. Wide(Append(Lossy(t), Shown(x))) = Append(Wide(Lossy(t)), Shown(x))
      BY <2>2, WideAppend
    <2> QED
      BY <1>2, <2>1, <2>3, MaskAppend
  <1>3. ASSUME NEW t \in Seq(Bytes), P(t) PROVE P(Append(Append(t, "hi"), "lo"))
    <2>1. Lossy(Append(Append(t, "hi"), "lo")) = Append(Lossy(t), "char")
      BY LossyPair
    <2>2. Lossy(t) \in Text /\ "char" \in Symbols
      BY CharsTyped, PlainText DEF Symbols
    <2>3. Wide(Append(Lossy(t), "char")) = Append(Append(Wide(Lossy(t)), "?"), "?")
      BY <2>2, WideAppend
    <2>4. /\ "hi" \in Bytes /\ "lo" \in Bytes /\ Append(t, "hi") \in Seq(Bytes)
          /\ Shown("hi") = "?" /\ Shown("lo") = "?"
      BY AppendProperties DEF Bytes, Shown
    <2>5. Mask(Append(Append(t, "hi"), "lo")) = Append(Append(Mask(t), "?"), "?")
      BY <2>4, MaskAppend
    <2> QED
      BY <1>3, <2>1, <2>3, <2>5
  <1> HIDE DEF P
  <1>4. <<>> \in T /\ \A x \in Bytes : Append(<<>>, x) \in T
    BY <1>1, <1>2, LossyEmpty, OpenAppend, AppendProperties
  <1>5. ASSUME NEW t \in Seq(Bytes), NEW x \in Bytes, NEW y \in Bytes, t \in T, Append(t, x) \in T
        PROVE  Append(Append(t, x), y) \in T
    <2>1. Append(t, x) \in Seq(Bytes) /\ Append(Append(t, x), y) \in Seq(Bytes)
      BY AppendProperties
    <2>2. CASE x = "hi" /\ y = "lo"
      BY <1>3, <1>5, <2>1, <2>2
    <2>3. CASE ~(x = "hi" /\ y = "lo")
      <3>1. ~(y = "lo" /\ Open(Append(t, x)))
        BY <2>3, OpenAppend
      <3> QED
        BY <1>2, <1>5, <2>1, <3>1
    <2> QED
      BY <2>2, <2>3
  <1> HIDE DEF T
  <1>6. Seq(Bytes) \subseteq T
    BY <1>4, <1>5, FromEmptyByTwo
  <1>7. P(b)
    BY <1>6 DEF T
  <1> QED
    BY <1>7 DEF P

\* Decoding in parts is decoding the whole, unless a character is cut.
LEMMA LossyConcat ==
    ASSUME NEW a \in Seq(Bytes), NEW b \in Seq(Bytes), ~Open(a)
    PROVE  Lossy(a \o b) = Lossy(a) \o Lossy(b)
  <1> DEFINE P(t) == Lossy(a \o t) = Lossy(a) \o Lossy(t)
             T == {t \in Seq(Bytes) : P(t)}
  <1>0. Lossy(a) \in Seq(Plain) /\ \A t \in Seq(Bytes) : Lossy(t) \in Seq(Plain)
    BY CharsTyped
  <1>1. P(<<>>)
    <2>1. a \o <<>> = a /\ Lossy(a) \o <<>> = Lossy(a)
      BY <1>0, ConcatEmptySeq
    <2> QED
      BY <2>1, LossyEmpty
  <1>2. ASSUME NEW t \in Seq(Bytes), P(t), NEW x \in Bytes,
               ~(x = "lo" /\ Open(t)), ~(x = "lo" /\ Open(a \o t))
        PROVE  P(Append(t, x))
    <2>1. a \o Append(t, x) = Append(a \o t, x) /\ a \o t \in Seq(Bytes)
      BY AppendRight
    <2>2. /\ Lossy(Append(a \o t, x)) = Append(Lossy(a \o t), Shown(x))
          /\ Lossy(Append(t, x)) = Append(Lossy(t), Shown(x))
      BY <1>2, <2>1, LossyAppend
    <2>3. Shown(x) \in Plain
      BY DEF Shown, Plain, Symbols
    <2>4. Lossy(a) \o Append(Lossy(t), Shown(x)) = Append(Lossy(a) \o Lossy(t), Shown(x))
      BY <1>0, <2>3, AppendRight
    <2> QED
      BY <1>2, <2>1, <2>2, <2>4
  <1>3. ASSUME NEW t \in Seq(Bytes), P(t) PROVE P(Append(Append(t, "hi"), "lo"))
    <2>1. "hi" \in Bytes /\ "lo" \in Bytes /\ "char" \in Plain /\ Append(t, "hi") \in Seq(Bytes)
      BY AppendProperties DEF Bytes, Plain, Symbols
    <2>2. /\ a \o Append(t, "hi") = Append(a \o t, "hi") /\ a \o t \in Seq(Bytes)
          /\ a \o Append(Append(t, "hi"), "lo") = Append(a \o Append(t, "hi"), "lo")
      BY <2>1, AppendRight
    <2>3. /\ Lossy(Append(Append(t, "hi"), "lo")) = Append(Lossy(t), "char")
          /\ Lossy(Append(Append(a \o t, "hi"), "lo")) = Append(Lossy(a \o t), "char")
      BY <2>2, LossyPair
    <2>4. Lossy(a) \o Append(Lossy(t), "char") = Append(Lossy(a) \o Lossy(t), "char")
      BY <1>0, <2>1, AppendRight
    <2> QED
      BY <1>3, <2>2, <2>3, <2>4
  <1>4. ASSUME NEW t \in Seq(Bytes), NEW x \in Bytes
        PROVE  Open(a \o Append(t, x)) <=> x = "hi"
    <2>1. a \o Append(t, x) = Append(a \o t, x) /\ a \o t \in Seq(Bytes)
      BY AppendRight
    <2> QED
      BY <2>1, OpenAppend
  <1> HIDE DEF P
  <1>5. <<>> \in T /\ \A x \in Bytes : Append(<<>>, x) \in T
    <2>1. a \o <<>> = a
      BY ConcatEmptySeq
    <2>2. ASSUME NEW x \in Bytes PROVE P(Append(<<>>, x)) /\ Append(<<>>, x) \in Seq(Bytes)
      BY <1>1, <1>2, <2>1, LossyEmpty, OpenAppend, AppendProperties
    <2> QED
      BY <1>1, <2>2, LossyEmpty
  <1>6. ASSUME NEW t \in Seq(Bytes), NEW x \in Bytes, NEW y \in Bytes, t \in T, Append(t, x) \in T
        PROVE  Append(Append(t, x), y) \in T
    <2>1. Append(t, x) \in Seq(Bytes) /\ Append(Append(t, x), y) \in Seq(Bytes)
      BY AppendProperties
    <2>2. CASE x = "hi" /\ y = "lo"
      BY <1>3, <1>6, <2>1, <2>2
    <2>3. CASE ~(x = "hi" /\ y = "lo")
      <3>1. ~(y = "lo" /\ Open(Append(t, x))) /\ ~(y = "lo" /\ Open(a \o Append(t, x)))
        BY <1>4, <2>3, OpenAppend
      <3> QED
        BY <1>2, <1>6, <2>1, <3>1
    <2> QED
      BY <2>2, <2>3
  <1> HIDE DEF T
  <1>7. Seq(Bytes) \subseteq T
    BY <1>5, <1>6, FromEmptyByTwo
  <1>8. P(b)
    BY <1>7 DEF T
  <1> QED
    BY <1>8 DEF P

LEMMA MaskConcat ==
    ASSUME NEW a \in Seq(Bytes), NEW b \in Seq(Bytes)
    PROVE  Mask(a \o b) = Mask(a) \o Mask(b)
  BY MaskTyped, SpreadConcat DEF Mask

-----------------------------------------------------------------------------
(* The invariant: what has come is decoded to some text d, which is the    *)
(* text of all the bytes unless a chunk boundary cut a character, and      *)
(* everything sent and buffered is what that text is to become.            *)

Taken(r) == SubSeq(text[r], 1, took[r])

Ending(r, d) == CASE source[r] = "flows" -> <<>>
                  [] source[r] = "over" -> Event(TrimEnd(Rest(d)))
                  [] source[r] = "failed" -> <<ErrorEvent>>

Decoded(r, d) ==
    /\ Wide(d) = Mask(Taken(r))
    /\ ~cut[r] => d = Lossy(Taken(r)) /\ ~Open(Taken(r))
    /\ source[r] = "flows" => buffer[r] = Rest(d)
    /\ got[r] \o queue[r] = Events(Lines(d)) \o Ending(r, d)

StreamInv == \A r \in Requests : \E d \in Seq(Plain) : Decoded(r, d)

ChatInv ==
    /\ TypeOK /\ StreamInv
    /\ \A r \in Requests : at[r] \in {"new", "sent", "body"} => took[r] = 0

Sent == Strings \cup {ErrorEvent}

LEMMA TextsTyped ==
    ASSUME TypeOK, NEW r \in Requests
    PROVE  /\ text[r] \in Seq(Bytes) /\ took[r] \in Nat /\ took[r] <= Len(text[r])
           /\ Len(text[r]) \in Nat /\ Taken(r) \in Seq(Bytes)
  <1>1. text[r] \in Seq(Bytes) /\ took[r] \in Nat /\ took[r] <= Len(text[r])
    BY ChatAssumption, EmptySeq DEF TypeOK
  <1>2. Len(text[r]) \in Nat /\ \A i \in 1..took[r] : text[r][i] \in Bytes
    BY <1>1, LenProperties, ElementOfSeq
  <1>3. Taken(r) \in Seq(Bytes)
    BY <1>1, <1>2, SubSeqProperties DEF Taken
  <1> QED
    BY <1>1, <1>2, <1>3

\* The events of a decoded text are strings.
LEMMA EventsTyped ==
    ASSUME NEW d \in Seq(Plain)
    PROVE  /\ Events(Lines(d)) \in Seq(Strings) /\ Rest(d) \in Strings
           /\ Event(TrimEnd(Rest(d))) \in Seq(Strings)
  <1> DEFINE A == (Bytes \cup {"char", "?"}) \ {"hi", "lo", "nl"}
  <1>1. Strings = Seq(A) /\ A \subseteq Symbols
    BY DEF Strings, Symbols
  <1> HIDE DEF A
  <1>2. Lines(d) \in Seq(Strings) /\ Rest(d) \in Strings
    BY LinesAreStrings
  <1>3. TrimEnd(Rest(d)) \in Seq(A)
    BY <1>1, <1>2, Trims
  <1>4. Event(TrimEnd(Rest(d))) \in Seq(Seq(A))
    BY <1>1, <1>3, EventTyped
  <1>5. Events(Lines(d)) \in Seq(Seq(A))
    BY <1>1, <1>2, EventsConcat
  <1> QED
    BY <1>1, <1>2, <1>4, <1>5

LEMMA SentTyped ==
    /\ Seq(Strings) \subseteq Seq(Sent) /\ <<>> \in Seq(Sent) /\ <<ErrorEvent>> \in Seq(Sent)
    /\ \A s \in Seq(Sent) : s # <<>> => Head(s) \in Sent /\ Tail(s) \in Seq(Sent)
  <1>1. Seq(Strings) \subseteq Seq(Sent)
    BY DEF Sent
  <1>2. <<>> \in Seq(Sent) /\ <<ErrorEvent>> \in Seq(Sent)
    BY EmptySeq DEF Sent
  <1>3. \A s \in Seq(Sent) : s # <<>> => Head(s) \in Sent /\ Tail(s) \in Seq(Sent)
    BY HeadTailProperties
  <1> QED
    BY <1>1, <1>2, <1>3

\* A step that leaves a request alone.
LEMMA SameRequest ==
    ASSUME NEW r \in Requests,
           took'[r] = took[r], source'[r] = source[r], buffer'[r] = buffer[r],
           queue'[r] = queue[r], got'[r] = got[r], cut'[r] = cut[r],
           text'[r] = text[r] \/ took[r] = 0,
           TypeOK, \E d \in Seq(Plain) : Decoded(r, d)
    PROVE  \E d \in Seq(Plain) : Decoded(r, d)'
  <1>1. Taken(r)' = Taken(r)
    <2>1. CASE text'[r] = text[r]
      BY <2>1 DEF Taken
    <2>2. CASE took[r] = 0
      <3>1. \A t : SubSeq(t, 1, 0) = <<>>
        BY SubSeqEmpty
      <3> QED
        BY <2>2, <3>1 DEF Taken
    <2> QED
      BY <2>1, <2>2
  <1>2. PICK d \in Seq(Plain) : Decoded(r, d)
    OBVIOUS
  <1>3. Ending(r, d)' = Ending(r, d)
    BY DEF Ending
  <1>4. Decoded(r, d)'
    BY <1>1, <1>2, <1>3 DEF Decoded
  <1> QED
    BY <1>4

\* With one more chunk, which is decoded to u, the text d becomes d \o u.
Grows(t, k, n, d, u) ==
    /\ u \in Seq(Plain) /\ d \o u \in Seq(Plain) /\ Rest(d) \o u \in Seq(Plain)
    /\ Wide(d \o u) = Mask(SubSeq(t, 1, n))
    /\ Open(SubSeq(t, 1, n)) <=> t[n] = "hi"
    /\ d = Lossy(SubSeq(t, 1, k)) /\ ~Open(SubSeq(t, 1, k)) => d \o u = Lossy(SubSeq(t, 1, n))
    /\ Rest(d \o u) = Rest(Rest(d) \o u)
    /\ Events(Lines(d \o u)) = Events(Lines(d)) \o Events(Lines(Rest(d) \o u))

LEMMA ChunkDecodes ==
    ASSUME NEW t \in Seq(Bytes), NEW k \in Nat, NEW n \in Nat, k < n, n <= Len(t),
           NEW d \in Seq(Plain), Wide(d) = Mask(SubSeq(t, 1, k)),
           NEW u, u = Lossy(SubSeq(t, k + 1, n))
    PROVE  Grows(t, k, n, d, u)
  <1> DEFINE a == SubSeq(t, 1, k)
             b == SubSeq(t, k + 1, n)
  <1>1. Len(t) \in Nat /\ \A i \in 1..Len(t) : t[i] \in Bytes
    BY LenProperties, ElementOfSeq
  <1>2. a \in Seq(Bytes) /\ b \in Seq(Bytes)
    <2>1. (\A i \in 1..k : t[i] \in Bytes) /\ \A i \in (k + 1)..n : t[i] \in Bytes
      BY <1>1
    <2> QED
      BY <2>1, SubSeqProperties
  <1>3. a \o b = SubSeq(t, 1, n)
    <2>1. 1 \in 1..(Len(t) + 1) /\ k \in (1 - 1)..Len(t) /\ n \in k..Len(t)
      BY <1>1
    <2> QED
      BY <2>1, ConcatAdjacentSubSeq
  <1>4. Open(SubSeq(t, 1, n)) <=> t[n] = "hi"
    <2>1. \A i \in 1..n : t[i] \in Bytes
      BY <1>1
    <2>2. Len(SubSeq(t, 1, n)) = n /\ SubSeq(t, 1, n)[n] = t[n]
      BY <2>1, SubSeqProperties
    <2> QED
      BY <2>2 DEF Open
  <1> HIDE DEF a, b
  <1>5. u \in Seq(Plain) /\ Rest(d) \in Seq(Plain) /\ d \in Text /\ u \in Text
    <2>1. u \in Seq(Plain)
      BY <1>2, CharsTyped DEF b
    <2>2. Rest(d) \in Seq(Plain)
      BY LinesAreStrings, PlainText
    <2> QED
      BY <2>1, <2>2, PlainText
  <1>6. d \o u \in Seq(Plain) /\ Rest(d) \o u \in Seq(Plain)
    BY <1>5, ConcatProperties
  <1>7. Wide(d \o u) = Mask(SubSeq(t, 1, n))
    <2>1. Wide(d \o u) = Wide(d) \o Wide(u)
      BY <1>5, WideConcat
    <2>2. Wide(u) = Mask(b) /\ Wide(d) = Mask(a)
      BY <1>2, WideOfLossy DEF a, b
    <2>3. Mask(a \o b) = Mask(a) \o Mask(b)
      BY <1>2, MaskConcat
    <2> QED
      BY <1>3, <2>1, <2>2, <2>3
  <1>8. d = Lossy(a) /\ ~Open(a) => d \o u = Lossy(SubSeq(t, 1, n))
    <2>1. ~Open(a) => Lossy(a \o b) = Lossy(a) \o Lossy(b)
      BY <1>2, LossyConcat
    <2> QED
      BY <1>3, <2>1 DEF b
  <1>9. Rest(d \o u) = Rest(Rest(d) \o u) /\ Lines(d \o u) = Lines(d) \o Lines(Rest(d) \o u)
    BY <1>5, LinesConcat
  <1>10. Events(Lines(d) \o Lines(Rest(d) \o u)) = Events(Lines(d)) \o Events(Lines(Rest(d) \o u))
    <2> DEFINE A == (Bytes \cup {"char", "?"}) \ {"hi", "lo", "nl"}
    <2>1. Strings = Seq(A) /\ A \subseteq Symbols
      BY DEF Strings, Symbols
    <2> HIDE DEF A
    <2>2. Lines(d) \in Seq(Strings) /\ Lines(Rest(d) \o u) \in Seq(Strings)
      BY <1>6, LinesAreStrings
    <2> QED
      BY <2>1, <2>2, EventsConcat
  <1> QED
    BY <1>4, <1>5, <1>6, <1>7, <1>8, <1>9, <1>10 DEF a, Grows

LEMMA ChunkKeeps ==
    ASSUME ChatInv, NEW r \in Requests, NEW n \in (took[r] + 1)..Len(text[r]), Chunk(r, n)
    PROVE  ChatInv'
  <1>1. /\ text[r] \in Seq(Bytes) /\ took[r] \in Nat /\ Len(text[r]) \in Nat
        /\ n \in Nat /\ took[r] < n /\ n <= Len(text[r])
    BY TextsTyped DEF ChatInv
  <1>2. at[r] = "stream" /\ source[r] = "flows" /\ queue[r] = <<>>
    BY DEF Chunk, Flows
  <1>3. PICK d \in Seq(Plain) : Decoded(r, d)
    BY DEF ChatInv, StreamInv
  <1>decoded. PICK u : u = Lossy(SubSeq(text[r], took[r] + 1, n))
    OBVIOUS
  <1>4. buffer[r] = Rest(d)
    BY <1>2, <1>3 DEF Decoded
  <1>5. /\ took' = [took EXCEPT ![r] = n] /\ queue' = [queue EXCEPT ![r] = Events(Lines(Rest(d) \o u))]
        /\ buffer' = [buffer EXCEPT ![r] = Rest(Rest(d) \o u)]
        /\ cut' = [cut EXCEPT ![r] = @ \/ text[r][n] = "hi"]
        /\ UNCHANGED <<server, at, answer, text, source, got>>
    BY <1>4, <1>decoded DEF Chunk
  <1>6. Wide(d) = Mask(SubSeq(text[r], 1, took[r]))
    BY <1>3 DEF Decoded, Taken
  <1>7. /\ u \in Seq(Plain) /\ d \o u \in Seq(Plain) /\ Rest(d) \o u \in Seq(Plain)
        /\ Wide(d \o u) = Mask(SubSeq(text[r], 1, n))
        /\ Open(SubSeq(text[r], 1, n)) <=> text[r][n] = "hi"
        /\ d = Lossy(Taken(r)) /\ ~Open(Taken(r)) => d \o u = Lossy(SubSeq(text[r], 1, n))
        /\ Rest(d \o u) = Rest(Rest(d) \o u)
        /\ Events(Lines(d \o u)) = Events(Lines(d)) \o Events(Lines(Rest(d) \o u))
    <2> DEFINE t == text[r]
               k == took[r]
    <2>1. u = Lossy(SubSeq(t, k + 1, n)) /\ Wide(d) = Mask(SubSeq(t, 1, k))
      BY <1>6, <1>decoded
    <2>2. t \in Seq(Bytes) /\ k \in Nat /\ n \in Nat /\ k < n /\ n <= Len(t)
      BY <1>1
    <2>3. Taken(r) = SubSeq(t, 1, k)
      BY DEF Taken
    <2> HIDE DEF t, k
    <2>4. Grows(t, k, n, d, u)
      BY <2>1, <2>2, ChunkDecodes
    <2> QED
      BY <2>3, <2>4 DEF Grows, t
  <1> DEFINE e == Events(Lines(Rest(d) \o u))
  <1>8. e \in Seq(Strings) /\ e \in Seq(Sent) /\ Rest(Rest(d) \o u) \in Strings
    BY <1>7, EventsTyped, SentTyped
  <1>9. Events(Lines(d)) \in Seq(Sent) /\ Events(Lines(d \o u)) \in Seq(Sent)
    BY <1>7, EventsTyped, SentTyped
  <1>10. TypeOK /\ StreamInv
    BY DEF ChatInv
  <1> HIDE DEF e
  <1>11. TypeOK'
    <2>1. took' \in [Requests -> Nat] /\ \A q \in Requests : took'[q] <= Len(text'[q])
      BY <1>1, <1>5, <1>10 DEF TypeOK
    <2>2. buffer' \in [Requests -> Strings]
      BY <1>5, <1>8, <1>10 DEF TypeOK
    <2>3. queue' \in [Requests -> Seq(Sent)] /\ got' \in [Requests -> Seq(Sent)]
      BY <1>5, <1>8, <1>10 DEF TypeOK, Sent, e
    <2>4. cut' \in [Requests -> BOOLEAN]
      BY <1>5, <1>10 DEF TypeOK
    <2> QED
      BY <1>5, <1>10, <2>1, <2>2, <2>3, <2>4 DEF TypeOK, Sent
  <1>12. StreamInv'
    <2> SUFFICES ASSUME NEW q \in Requests PROVE \E z \in Seq(Plain) : Decoded(q, z)'
      BY DEF StreamInv
    <2>1. CASE q # r
      <3>1. /\ took'[q] = took[q] /\ source'[q] = source[q] /\ buffer'[q] = buffer[q]
            /\ queue'[q] = queue[q] /\ got'[q] = got[q] /\ cut'[q] = cut[q] /\ text'[q] = text[q]
        BY <1>5, <1>10, <2>1 DEF TypeOK
      <3> QED
        BY <1>10, <3>1, SameRequest DEF StreamInv
    <2>2. CASE q = r
      <3>1. /\ took'[r] = n /\ source'[r] = "flows" /\ buffer'[r] = Rest(Rest(d) \o u)
            /\ queue'[r] = e /\ got'[r] = got[r] /\ (cut'[r] <=> cut[r] \/ text[r][n] = "hi")
            /\ text'[r] = text[r]
        BY <1>2, <1>5, <1>10 DEF TypeOK, e
      <3>2. Taken(r)' = SubSeq(text[r], 1, n)
        BY <3>1 DEF Taken
      <3>3. Ending(r, d \o u)' = <<>> /\ Ending(r, d) = <<>>
        BY <1>2, <3>1 DEF Ending
      <3>4. got[r] \o <<>> = Events(Lines(d)) \o <<>>
        BY <1>2, <1>3, <3>3 DEF Decoded
      <3>5. got[r] \in Seq(Sent)
        BY <1>10 DEF TypeOK, Sent
      <3>6. got[r] = Events(Lines(d))
        <4>1. got[r] \o <<>> = got[r] /\ Events(Lines(d)) \o <<>> = Events(Lines(d))
          BY <1>9, <3>5, ConcatEmptySeq
        <4> QED
          BY <3>4, <4>1
      <3>7. got[r] \o e = Events(Lines(d \o u)) \o <<>>
        <4>1. Events(Lines(d \o u)) \o <<>> = Events(Lines(d \o u))
          BY <1>9, ConcatEmptySeq
        <4> QED
          BY <1>7, <3>6, <4>1 DEF e
      <3>8. ~cut'[r] => d \o u = Lossy(SubSeq(text[r], 1, n)) /\ ~Open(SubSeq(text[r], 1, n))
        BY <1>3, <1>7, <3>1 DEF Decoded
      <3>9. Decoded(r, d \o u)'
        <4>1. Wide(d \o u) = Mask(Taken(r)')
          BY <1>7, <3>2
        <4>2. ~cut'[r] => d \o u = Lossy(Taken(r)') /\ ~Open(Taken(r)')
          BY <3>2, <3>8
        <4>3. source'[r] = "flows" => buffer'[r] = Rest(d \o u)
          BY <1>7, <3>1
        <4>4. got'[r] \o queue'[r] = Events(Lines(d \o u)) \o Ending(r, d \o u)'
          BY <3>1, <3>3, <3>7
        <4> QED
          BY <4>1, <4>2, <4>3, <4>4, Zenon DEF Decoded
      <3> QED
        BY <1>7, <2>2, <3>9
    <2> QED
      BY <2>1, <2>2
  <1>13. \A q \in Requests : at'[q] \in {"new", "sent", "body"} => took'[q] = 0
    BY <1>2, <1>5, <1>10 DEF ChatInv, TypeOK
  <1> QED
    BY <1>11, <1>12, <1>13 DEF ChatInv

\* Break and Over: what they queue is the ending of the text.
LEMMA EndKeeps ==
    ASSUME ChatInv, NEW r \in Requests, Break(r) \/ Over(r)
    PROVE  ChatInv'
  <1>1. at[r] = "stream" /\ source[r] = "flows" /\ queue[r] = <<>>
    BY DEF Break, Over, Flows
  <1>2. PICK d \in Seq(Plain) : Decoded(r, d)
    BY DEF ChatInv, StreamInv
  <1>3. buffer[r] = Rest(d)
    BY <1>1, <1>2 DEF Decoded
  <1>4. PICK way \in {"over", "failed"}, e \in {Event(TrimEnd(Rest(d))), <<ErrorEvent>>} :
          /\ e = IF way = "over" THEN Event(TrimEnd(Rest(d))) ELSE <<ErrorEvent>>
          /\ source' = [source EXCEPT ![r] = way] /\ queue' = [queue EXCEPT ![r] = e]
          /\ buffer' = [buffer EXCEPT ![r] = <<>>]
          /\ UNCHANGED <<server, at, answer, text, took, got, cut>>
    <2>1. CASE Break(r)
      <3> DEFINE e == <<ErrorEvent>>
      <3>1. /\ source' = [source EXCEPT ![r] = "failed"] /\ queue' = [queue EXCEPT ![r] = e]
            /\ buffer' = [buffer EXCEPT ![r] = <<>>]
            /\ UNCHANGED <<server, at, answer, text, took, got, cut>>
        BY <2>1 DEF Break
      <3> QED
        BY <3>1
    <2>2. CASE Over(r)
      <3> DEFINE e == Event(TrimEnd(Rest(d)))
      <3>1. /\ source' = [source EXCEPT ![r] = "over"] /\ queue' = [queue EXCEPT ![r] = e]
            /\ buffer' = [buffer EXCEPT ![r] = <<>>]
            /\ UNCHANGED <<server, at, answer, text, took, got, cut>>
        BY <1>3, <2>2 DEF Over
      <3> HIDE DEF e
      <3> QED
        BY <3>1 DEF e
    <2> QED
      BY <2>1, <2>2
  <1>5. e \in Seq(Sent) /\ Events(Lines(d)) \in Seq(Sent)
    BY <1>4, EventsTyped, SentTyped
  <1>6. TypeOK /\ StreamInv /\ got[r] \in Seq(Sent) /\ <<>> \in Strings
    BY EmptySeq DEF ChatInv, TypeOK, Sent, Strings
  <1>7. TypeOK'
    <2>1. queue' \in [Requests -> Seq(Sent)] /\ got' \in [Requests -> Seq(Sent)]
      BY <1>4, <1>5, <1>6 DEF TypeOK, Sent
    <2>2. buffer' \in [Requests -> Strings] /\ source' \in [Requests -> {"flows", "failed", "over"}]
      BY <1>4, <1>6 DEF TypeOK
    <2> QED
      BY <1>4, <1>6, <2>1, <2>2 DEF TypeOK, Sent
  <1>8. StreamInv'
    <2> SUFFICES ASSUME NEW q \in Requests PROVE \E z \in Seq(Plain) : Decoded(q, z)'
      BY DEF StreamInv
    <2>1. CASE q # r
      <3>1. /\ took'[q] = took[q] /\ source'[q] = source[q] /\ buffer'[q] = buffer[q]
            /\ queue'[q] = queue[q] /\ got'[q] = got[q] /\ cut'[q] = cut[q] /\ text'[q] = text[q]
        BY <1>4, <1>6, <2>1 DEF TypeOK
      <3> QED
        BY <1>6, <3>1, SameRequest DEF StreamInv
    <2>2. CASE q = r
      <3>1. /\ source'[r] = way /\ queue'[r] = e /\ got'[r] = got[r] /\ cut'[r] = cut[r]
            /\ took'[r] = took[r] /\ text'[r] = text[r]
        BY <1>4, <1>6 DEF TypeOK
      <3>2. Taken(r)' = Taken(r)
        BY <3>1 DEF Taken
      <3>3. Ending(r, d) = <<>> /\ Ending(r, d)' = e
        BY <1>1, <1>4, <3>1 DEF Ending
      <3>4. got[r] = Events(Lines(d))
        <4>1. got[r] \o <<>> = Events(Lines(d)) \o <<>>
          BY <1>1, <1>2, <3>3 DEF Decoded
        <4>2. got[r] \o <<>> = got[r] /\ Events(Lines(d)) \o <<>> = Events(Lines(d))
          BY <1>5, <1>6, ConcatEmptySeq
        <4> QED
          BY <4>1, <4>2
      <3>5. Decoded(r, d)'
        <4>1. Wide(d) = Mask(Taken(r)')
          BY <1>2, <3>2 DEF Decoded
        <4>2. ~cut'[r] => d = Lossy(Taken(r)') /\ ~Open(Taken(r)')
          BY <1>2, <3>1, <3>2 DEF Decoded
        <4>3. source'[r] = "flows" => buffer'[r] = Rest(d)
          BY <3>1
        <4>4. got'[r] \o queue'[r] = Events(Lines(d)) \o Ending(r, d)'
          BY <3>1, <3>3, <3>4
        <4> QED
          BY <4>1, <4>2, <4>3, <4>4, Zenon DEF Decoded
      <3> QED
        BY <2>2, <3>5
    <2> QED
      BY <2>1, <2>2
  <1>9. \A q \in Requests : at'[q] \in {"new", "sent", "body"} => took'[q] = 0
    BY <1>4 DEF ChatInv
  <1> QED
    BY <1>7, <1>8, <1>9 DEF ChatInv

LEMMA DeliverKeeps ==
    ASSUME ChatInv, NEW r \in Requests, Deliver(r)
    PROVE  ChatInv'
  <1>1. /\ TypeOK /\ StreamInv /\ queue[r] # <<>>
        /\ queue[r] \in Seq(Sent) /\ got[r] \in Seq(Sent)
    BY DEF ChatInv, TypeOK, Sent, Deliver
  <1>2. PICK e, rest : e = Head(queue[r]) /\ rest = Tail(queue[r])
    OBVIOUS
  <1>3. e \in Sent /\ rest \in Seq(Sent) /\ Append(got[r], e) \in Seq(Sent)
    BY <1>1, <1>2, SentTyped, AppendProperties
  <1>4. /\ got' = [got EXCEPT ![r] = Append(got[r], e)] /\ queue' = [queue EXCEPT ![r] = rest]
        /\ UNCHANGED <<server, at, answer, text, took, source, buffer, cut>>
    BY <1>2 DEF Deliver
  <1>5. Append(got[r], e) \o rest = got[r] \o queue[r]
    <2> DEFINE g == got[r]
               s == queue[r]
    <2>0. g \in Seq(Sent) /\ s \in Seq(Sent) /\ s # <<>> /\ e = Head(s) /\ rest = Tail(s)
      BY <1>1, <1>2
    <2> HIDE DEF g, s
    <2>1. s = <<e>> \o rest
      <3>1. Len(s) \in Nat /\ Len(s) # 0
        BY <2>0, EmptySeq, LenProperties
      <3>2. 1 \in 1..Len(s) /\ Len(s) \in 1..Len(s)
        BY <3>1
      <3>3. SubSeq(s, 1, Len(s)) = <<s[1]>> \o SubSeq(s, 1 + 1, Len(s))
        BY <2>0, <3>2, SubSeqRecursiveFirst
      <3>4. SubSeq(s, 1, Len(s)) = s /\ Tail(s) = SubSeq(s, 2, Len(s)) /\ Head(s) = s[1]
        BY <2>0, SubSeqFull, TailIsSubSeq
      <3> QED
        BY <2>0, <3>3, <3>4
    <2>2. <<e>> \in Seq(Sent) /\ Append(g, e) = g \o <<e>>
      BY <1>3, <2>0, AppendIsConcat
    <2>3. (g \o <<e>>) \o rest = g \o (<<e>> \o rest)
      BY <1>3, <2>0, <2>2, ConcatAssociative
    <2>4. Append(g, e) \o rest = g \o s
      BY <2>1, <2>2, <2>3
    <2> QED
      BY <2>4 DEF g, s
  <1>6. TypeOK'
    <2>1. queue' \in [Requests -> Seq(Sent)] /\ got' \in [Requests -> Seq(Sent)]
      BY <1>1, <1>3, <1>4 DEF TypeOK, Sent
    <2> QED
      BY <1>1, <1>4, <2>1 DEF TypeOK, Sent
  <1>7. StreamInv'
    <2> SUFFICES ASSUME NEW q \in Requests PROVE \E z \in Seq(Plain) : Decoded(q, z)'
      BY DEF StreamInv
    <2>1. CASE q # r
      <3>1. /\ took'[q] = took[q] /\ source'[q] = source[q] /\ buffer'[q] = buffer[q]
            /\ queue'[q] = queue[q] /\ got'[q] = got[q] /\ cut'[q] = cut[q] /\ text'[q] = text[q]
        BY <1>1, <1>4, <2>1 DEF TypeOK
      <3> QED
        BY <1>1, <3>1, SameRequest DEF StreamInv
    <2>2. CASE q = r
      <3>1. PICK d \in Seq(Plain) : Decoded(r, d)
        BY <1>1 DEF StreamInv
      <3>2. got'[r] = Append(got[r], e) /\ queue'[r] = rest
        BY <1>1, <1>4 DEF TypeOK
      <3>3. got'[r] \o queue'[r] = got[r] \o queue[r]
        BY <1>5, <3>2
      <3>4. Taken(r)' = Taken(r) /\ Ending(r, d)' = Ending(r, d)
        BY <1>4 DEF Taken, Ending
      <3>5. Decoded(r, d)'
        <4>1. Wide(d) = Mask(Taken(r)')
          BY <3>1, <3>4 DEF Decoded
        <4>2. ~cut'[r] => d = Lossy(Taken(r)') /\ ~Open(Taken(r)')
          BY <1>4, <3>1, <3>4 DEF Decoded
        <4>3. source'[r] = "flows" => buffer'[r] = Rest(d)
          BY <1>4, <3>1 DEF Decoded
        <4>4. got'[r] \o queue'[r] = Events(Lines(d)) \o Ending(r, d)'
          BY <3>1, <3>3, <3>4 DEF Decoded
        <4> QED
          BY <4>1, <4>2, <4>3, <4>4, Zenon DEF Decoded
      <3> QED
        BY <2>2, <3>5
    <2> QED
      BY <2>1, <2>2
  <1>8. \A q \in Requests : at'[q] \in {"new", "sent", "body"} => took'[q] = 0
    BY <1>4 DEF ChatInv
  <1> QED
    BY <1>6, <1>7, <1>8 DEF ChatInv

\* The other steps leave what was sent alone; Head200 sets a text of which nothing has come.
LEMMA OthersKeep ==
    ASSUME ChatInv, TypeOK',
           UNCHANGED <<took, source, buffer, queue, got, cut>>,
           \A q \in Requests : text'[q] = text[q] \/ took[q] = 0,
           \A q \in Requests : at'[q] \in {"new", "sent", "body"} => at[q] \in {"new", "sent", "body"}
    PROVE  ChatInv'
  <1>1. TypeOK /\ StreamInv
    BY DEF ChatInv
  <1>2. StreamInv'
    <2> SUFFICES ASSUME NEW q \in Requests PROVE \E z \in Seq(Plain) : Decoded(q, z)'
      BY DEF StreamInv
    <2>1. /\ took'[q] = took[q] /\ source'[q] = source[q] /\ buffer'[q] = buffer[q]
          /\ queue'[q] = queue[q] /\ got'[q] = got[q] /\ cut'[q] = cut[q]
      OBVIOUS
    <2> QED
      BY <1>1, <2>1, SameRequest DEF StreamInv
  <1> QED
    BY <1>2 DEF ChatInv

LEMMA InitHolds == Init => ChatInv
  <1> SUFFICES ASSUME Init PROVE ChatInv
    OBVIOUS
  <1>1. <<>> \in Strings /\ <<>> \in Seq(Sent) /\ Len(<<>>) = 0
    BY SentTyped, EmptySeq DEF Strings
  <1>2. TypeOK
    BY <1>1 DEF Init, TypeOK, Stages, Sent
  <1>3. ASSUME NEW r \in Requests PROVE \E d \in Seq(Plain) : Decoded(r, d)
    <2>1. \A t : SubSeq(t, 1, 0) = <<>>
      BY SubSeqEmpty
    <2>2. Taken(r) = <<>>
      BY <2>1 DEF Init, Taken
    <2>3. <<>> \in Seq(Plain) /\ Lines(<<>>) = <<>> /\ Rest(<<>>) = <<>> /\ Lossy(<<>>) = <<>>
      BY EmptySeq, NoText, LossyEmpty
    <2>4. Wide(<<>>) = <<>> /\ Mask(<<>>) = <<>> /\ ~Open(<<>>)
      BY NoText, LossyEmpty, WideAppend, MaskAppend, OpenAppend DEF Symbols, Bytes
    <2>5. Events(<<>>) = <<>> /\ <<>> \o <<>> = <<>>
      BY EventsAppend, NoText, EmptySeq, ConcatEmptySeq
    <2>6. Ending(r, <<>>) = <<>>
      BY DEF Ending, Init
    <2>7. Decoded(r, <<>>)
      BY <2>2, <2>3, <2>4, <2>5, <2>6 DEF Decoded, Init
    <2> QED
      BY <2>3, <2>7
  <1> QED
    BY <1>2, <1>3 DEF ChatInv, StreamInv, Init

LEMMA StepKeeps == ChatInv /\ [Next]_vars => ChatInv'
  <1> SUFFICES ASSUME ChatInv, [Next]_vars PROVE ChatInv'
    OBVIOUS
  <1>0. TypeOK
    BY DEF ChatInv
  <1>1. ASSUME NEW r \in Requests, Look(r) \/ Unreachable(r) \/ WaitForBody(r) \/ Body(r) \/ Close(r) \/ Leave(r)
        PROVE  ChatInv'
    <2>1. PICK stage \in Stages, status \in Statuses \cup {0} :
            /\ at' = [at EXCEPT ![r] = stage] /\ answer' = [answer EXCEPT ![r] = status]
            /\ stage \in {"new", "sent", "body"} => at[r] \in {"new", "sent", "body"}
            /\ UNCHANGED <<server, text, took, source, buffer, queue, got, cut>>
      <3> DEFINE goal == \E stage \in Stages, status \in Statuses \cup {0} :
            /\ at' = [at EXCEPT ![r] = stage] /\ answer' = [answer EXCEPT ![r] = status]
            /\ stage \in {"new", "sent", "body"} => at[r] \in {"new", "sent", "body"}
            /\ UNCHANGED <<server, text, took, source, buffer, queue, got, cut>>
      <3>1. answer = [answer EXCEPT ![r] = answer[r]] /\ answer[r] \in Statuses \cup {0}
        BY <1>0 DEF TypeOK
      <3>2. {"sent", "body", "stream", "done"} \subseteq Stages /\ {200, 404, 500, 502} \subseteq Statuses
        BY DEF Stages, Statuses
      <3>3. ASSUME NEW status \in Statuses, Reply(r, status) PROVE goal
        BY <3>2, <3>3 DEF Reply
      <3>4. CASE Look(r)
        BY <3>1, <3>2, <3>3, <3>4 DEF Look
      <3>5. CASE Unreachable(r)
        BY <3>2, <3>3, <3>5 DEF Unreachable
      <3>6. CASE WaitForBody(r)
        BY <3>1, <3>2, <3>6 DEF WaitForBody
      <3>7. CASE Body(r)
        BY <3>2, <3>3, <3>7 DEF Body
      <3>8. CASE Close(r)
        BY <3>1, <3>2, <3>8 DEF Close
      <3>9. CASE Leave(r)
        BY <3>1, <3>2, <3>9 DEF Leave
      <3> QED
        BY <1>1, <3>4, <3>5, <3>6, <3>7, <3>8, <3>9
    <2>2. TypeOK'
      BY <1>0, <2>1 DEF TypeOK
    <2>3. \A q \in Requests : at'[q] \in {"new", "sent", "body"} => at[q] \in {"new", "sent", "body"}
      BY <1>0, <2>1 DEF TypeOK
    <2> QED
      BY <2>1, <2>2, <2>3, OthersKeep
  <1>2. ASSUME NEW r \in Requests, Head200(r) PROVE ChatInv'
    <2>1. /\ at' = [at EXCEPT ![r] = "stream"] /\ answer' = [answer EXCEPT ![r] = 200] /\ took[r] = 0
          /\ UNCHANGED <<server, took, source, buffer, queue, got, cut>>
      BY <1>2 DEF Head200, ChatInv
    <2>2. PICK t \in Texts : text' = [text EXCEPT ![r] = t]
      BY <1>2 DEF Head200
    <2>3. Len(t) \in Nat
      BY ChatAssumption, LenProperties
    <2>4. TypeOK'
      <3>1. text' \in [Requests -> Texts \cup {<<>>}] /\ \A q \in Requests : took'[q] <= Len(text'[q])
        BY <1>0, <2>1, <2>2, <2>3 DEF TypeOK
      <3>2. at' \in [Requests -> Stages] /\ answer' \in [Requests -> Statuses \cup {0}]
        BY <1>0, <2>1 DEF TypeOK, Stages, Statuses
      <3> QED
        BY <1>0, <2>1, <3>1, <3>2 DEF TypeOK
    <2>5. \A q \in Requests : text'[q] = text[q] \/ took[q] = 0
      BY <1>0, <2>1, <2>2 DEF TypeOK
    <2>6. \A q \in Requests : at'[q] \in {"new", "sent", "body"} => at[q] \in {"new", "sent", "body"}
      BY <1>0, <2>1 DEF TypeOK
    <2> QED
      BY <2>1, <2>4, <2>5, <2>6, OthersKeep
  <1>3. CASE Interrupt \/ Stop
    <2>1. server' \in {"up", "stopping", "down"} /\ UNCHANGED requestVars
      BY <1>3 DEF Interrupt, Stop
    <2>2. UNCHANGED <<at, answer, text, took, source, buffer, queue, got, cut>>
      BY <2>1 DEF requestVars
    <2>3. TypeOK'
      BY <1>0, <2>1, <2>2 DEF TypeOK
    <2> QED
      BY <2>2, <2>3, OthersKeep
  <1>4. CASE UNCHANGED vars
    <2>1. UNCHANGED <<server, at, answer, text, took, source, buffer, queue, got, cut>>
      BY <1>4 DEF vars, requestVars
    <2>2. TypeOK'
      BY <1>0, <2>1 DEF TypeOK
    <2> QED
      BY <2>1, <2>2, OthersKeep
  <1> QED
    BY <1>1, <1>2, <1>3, <1>4, ChunkKeeps, EndKeeps, DeliverKeeps DEF Next

-----------------------------------------------------------------------------
(* Reassembled                                                             *)

Alike(x, y) == Len(x) = Len(y) /\ \A i \in 1..Len(x) : Wide(x[i]) = Wide(y[i])

LEMMA WideAlike ==
    ASSUME NEW A, NEW B, NEW x \in Seq(A), NEW y \in Seq(B), WideAll(x) = WideAll(y)
    PROVE  Alike(x, y)
  <1>1. /\ DOMAIN x = 1..Len(x) /\ Len(x) \in Nat /\ DOMAIN y = 1..Len(y) /\ Len(y) \in Nat
    BY LenProperties
  <1>2. DOMAIN WideAll(x) = DOMAIN x /\ DOMAIN WideAll(y) = DOMAIN y
    BY DEF WideAll
  <1>3. 1..Len(x) = 1..Len(y)
    BY <1>1, <1>2
  <1>4. Len(x) = Len(y)
    <2>1. ASSUME NEW m \in Nat, NEW n \in Nat, m < n PROVE 1..m # 1..n
      <3>1. n \in 1..n /\ n \notin 1..m
        BY <2>1
      <3> QED
        BY <3>1
    <2>2. \A m, n \in Nat : 1..m = 1..n => m = n
      <3> SUFFICES ASSUME NEW m \in Nat, NEW n \in Nat, m # n PROVE 1..m # 1..n
        OBVIOUS
      <3>1. m < n \/ n < m
        OBVIOUS
      <3> QED
        BY <2>1, <3>1
    <2> DEFINE m == Len(x)
               n == Len(y)
    <2>3. m \in Nat /\ n \in Nat /\ 1..m = 1..n
      BY <1>1, <1>3
    <2> HIDE DEF m, n
    <2>4. m = n
      BY <2>2, <2>3
    <2> QED
      BY <2>4 DEF m, n
  <1>5. ASSUME NEW i \in 1..Len(x) PROVE Wide(x[i]) = Wide(y[i])
    <2>1. WideAll(x)[i] = Wide(x[i]) /\ WideAll(y)[i] = Wide(y[i])
      BY <1>1, <1>3 DEF WideAll
    <2> QED
      BY <2>1
  <1> QED
    BY <1>4, <1>5 DEF Alike

LEMMA AlikeConcat ==
    ASSUME NEW A, NEW x \in Seq(A), NEW y \in Seq(A), NEW u \in Seq(A), NEW v \in Seq(A),
           Alike(x, y), Alike(u, v)
    PROVE  Alike(x \o u, y \o v)
  <1>1. /\ Len(x) \in Nat /\ Len(u) \in Nat /\ Len(y) = Len(x) /\ Len(v) = Len(u)
        /\ Len(x \o u) = Len(x) + Len(u) /\ Len(y \o v) = Len(y) + Len(v)
    BY ConcatProperties, LenProperties DEF Alike
  <1>2. ASSUME NEW i \in 1..(Len(x) + Len(u)) PROVE Wide((x \o u)[i]) = Wide((y \o v)[i])
    <2>1. /\ (x \o u)[i] = IF i <= Len(x) THEN x[i] ELSE u[i - Len(x)]
          /\ (y \o v)[i] = IF i <= Len(x) THEN y[i] ELSE v[i - Len(x)]
      BY <1>1, ConcatProperties
    <2>2. i <= Len(x) => i \in 1..Len(x)
      BY <1>1
    <2>3. ~(i <= Len(x)) => i - Len(x) \in 1..Len(u)
      BY <1>1
    <2> QED
      BY <2>1, <2>2, <2>3 DEF Alike
  <1> QED
    BY <1>1, <1>2 DEF Alike

LEMMA InvReassembles == ChatInv => Reassembled
  <1> SUFFICES ASSUME ChatInv, NEW r \in Requests
               PROVE  LET out == got[r] \o queue[r]
                      IN  /\ Len(out) = Len(Owed(r))
                          /\ \A i \in DOMAIN out :
                                IF cut[r] THEN Wide(out[i]) = Wide(Owed(r)[i]) ELSE out[i] = Owed(r)[i]
    BY ChatAssumption DEF Reassembled
  <1> DEFINE out == got[r] \o queue[r]
             s == Lossy(Taken(r))
  <1>1. PICK d \in Seq(Plain) : Decoded(r, d)
    BY DEF ChatInv, StreamInv
  <1>2. out = Events(Lines(d)) \o Ending(r, d)
    BY <1>1 DEF Decoded
  <1>3. Owed(r) = Events(Lines(s)) \o Ending(r, s)
    BY DEF Owed, Ending, Taken
  <1>4. CASE ~cut[r]
    <2>1. out = Owed(r)
      BY <1>1, <1>2, <1>3, <1>4 DEF Decoded
    <2> QED
      BY <1>4, <2>1
  <1>5. CASE cut[r]
    <2>1. Taken(r) \in Seq(Bytes) /\ source[r] \in {"flows", "failed", "over"}
      BY TextsTyped DEF ChatInv, TypeOK
    <2>2. s \in Seq(Plain) /\ s \in Text /\ d \in Text
      BY <2>1, CharsTyped, PlainText
    <2>3. Wide(d) = Wide(s)
      BY <1>1, <2>1, WideOfLossy DEF Decoded
    <2> HIDE DEF s
    <2>4. /\ WideAll(Events(Lines(d))) = WideAll(Events(Lines(s)))
          /\ WideAll(Event(TrimEnd(Rest(d)))) = WideAll(Event(TrimEnd(Rest(s))))
      BY <2>2, <2>3, WideDecides
    <2>5. /\ Events(Lines(d)) \in Seq(Sent) /\ Events(Lines(s)) \in Seq(Sent)
          /\ Event(TrimEnd(Rest(d))) \in Seq(Sent) /\ Event(TrimEnd(Rest(s))) \in Seq(Sent)
      BY <2>2, EventsTyped, SentTyped
    <2>6. Alike(Events(Lines(d)), Events(Lines(s)))
      BY <2>4, <2>5, WideAlike
    <2>7. /\ Ending(r, d) \in Seq(Sent) /\ Ending(r, s) \in Seq(Sent)
          /\ Alike(Ending(r, d), Ending(r, s))
      <3>1. CASE source[r] = "over"
        <4>1. Ending(r, d) = Event(TrimEnd(Rest(d))) /\ Ending(r, s) = Event(TrimEnd(Rest(s)))
          BY <3>1 DEF Ending
        <4>2. Alike(Event(TrimEnd(Rest(d))), Event(TrimEnd(Rest(s))))
          BY <2>4, <2>5, WideAlike
        <4> QED
          BY <2>5, <4>1, <4>2
      <3>2. CASE source[r] # "over"
        <4>1. /\ Ending(r, d) = IF source[r] = "flows" THEN <<>> ELSE <<ErrorEvent>>
              /\ Ending(r, s) = IF source[r] = "flows" THEN <<>> ELSE <<ErrorEvent>>
          BY <2>1, <3>2 DEF Ending
        <4>2. \A x : Alike(x, x)
          BY DEF Alike
        <4> QED
          BY <4>1, <4>2, SentTyped
      <3> QED
        BY <3>1, <3>2
    <2>8. Alike(out, Owed(r))
      BY <1>2, <1>3, <2>5, <2>6, <2>7, AlikeConcat
    <2>9. DOMAIN out = 1..Len(out)
      BY <1>2, <2>5, <2>7, ConcatProperties, LenProperties
    <2> QED
      BY <1>5, <2>8, <2>9 DEF Alike
  <1> QED
    BY <1>4, <1>5

LEMMA ChatInvariant == Spec => []ChatInv
  <1>1. Init => ChatInv
    BY InitHolds
  <1>2. ChatInv /\ [Next]_vars => ChatInv'
    BY StepKeeps
  <1> QED
    BY <1>1, <1>2, PTL DEF Spec

\* Statuses, stages and counters are what they should be, the line buffer holds no line
\* end and every event is a decoded line or the one error (handler, SseLineBuffer).
THEOREM ChatTypes == Spec => []TypeOK
  <1>1. ChatInv => TypeOK
    BY DEF ChatInv
  <1> QED
    BY <1>1, ChatInvariant, PTL

\* Whatever the upstream sends and however the network cuts it, the client gets an event
\* for each data line, in order, with the text of the line unless a cut went through a
\* character, and an error last if the upstream broke off (SseLineBuffer::handle, finish).
THEOREM FramesAreReassembled == Spec => []Reassembled
  BY InvReassembles, ChatInvariant, PTL
=============================================================================

-------------------------- MODULE EventStreamProofs ---------------------------
(***************************************************************************)
(* That the stream implements EventDelivery, its steps though not its      *)
(* liveness, for any number of tasks, rows, connections and page sizes:    *)
(* what is on the wire continues what the client has, what is queued       *)
(* continues the wire, and the cursor is at the end of both.  What the     *)
(* client has is therefore in order and complete.                          *)
(***************************************************************************)
EXTENDS EventStream, TLAPS

\* Row b is the first of the wanted rows after a.
Follows(a, b) ==
    /\ b \in DOMAIN log /\ log[b] \in Wanted /\ a < b
    /\ \A r \in DOMAIN log : a < r /\ r < b => log[r] \notin Wanted

EndOf(s, a) == IF s = <<>> THEN a ELSE s[Len(s)]

\* The rows of s are the wanted rows after a, from the first on.
Continues(s, a) ==
    /\ s # <<>> => Follows(a, s[1])
    /\ \A i \in 1..(Len(s) - 1) : Follows(s[i], s[i + 1])

Here == EndOf(got, After)
Sent == EndOf(wire, Here)

IInv ==
    /\ TypeOK
    /\ lastId = IF got = <<>> THEN None ELSE got[Len(got)]
    /\ Continues(wire, Here)
    /\ Continues(pending, Sent)
    /\ open => cursor = EndOf(pending, Sent)
    /\ ~open => pending = <<>>

LEMMA NoRows == ASSUME NEW S PROVE <<>> \in Seq(S) /\ DOMAIN <<>> = {}
  OBVIOUS

LEMMA HeadAndTail ==
    ASSUME NEW s \in Seq(Nat), s # <<>>
    PROVE  /\ Len(s) \in Nat \ {0} /\ DOMAIN s = 1..Len(s)
           /\ Head(s) = s[1] /\ s[1] \in Nat
           /\ Tail(s) \in Seq(Nat) /\ Len(Tail(s)) = Len(s) - 1
           /\ DOMAIN Tail(s) = 1..(Len(s) - 1)
           /\ \A i \in 1..(Len(s) - 1) : Tail(s)[i] = s[i + 1]
  OBVIOUS

LEMMA OneMore ==
    ASSUME NEW s \in Seq(Nat), NEW x \in Nat
    PROVE  /\ Len(s) \in Nat /\ DOMAIN s = 1..Len(s)
           /\ Append(s, x) \in Seq(Nat) /\ Append(s, x) # <<>>
           /\ Len(Append(s, x)) = Len(s) + 1 /\ DOMAIN Append(s, x) = 1..(Len(s) + 1)
           /\ Append(s, x)[Len(s) + 1] = x
           /\ \A i \in 1..Len(s) : Append(s, x)[i] = s[i]
  OBVIOUS

LEMMA TailEnds ==
    ASSUME NEW s \in Seq(Nat), s # <<>>
    PROVE  EndOf(Tail(s), Head(s)) = s[Len(s)]
<1>0. Len(s) \in Nat \ {0} /\ Tail(s) \in Seq(Nat) /\ Len(Tail(s)) = Len(s) - 1
      /\ Head(s) = s[1]
  BY HeadAndTail
<1>1. CASE Len(s) = 1
  <2>1. Tail(s) # <<>> => Len(Tail(s)) \in Nat \ {0}
    BY <1>0, HeadAndTail
  <2>2. Tail(s) = <<>>
    BY <1>0, <1>1, <2>1
  <2> QED BY <1>0, <1>1, <2>2 DEF EndOf
<1>2. CASE Len(s) # 1
  <2>1. Len(s) - 1 \in 1..(Len(s) - 1) /\ Len(Tail(s)) = Len(s) - 1
    BY <1>0, <1>2
  <2>2. Tail(s)[Len(s) - 1] = s[(Len(s) - 1) + 1] /\ (Len(s) - 1) + 1 = Len(s)
    BY <2>1, HeadAndTail
  <2>3. Tail(s) # <<>>
    BY <2>1, NoRows, HeadAndTail
  <2> QED BY <2>1, <2>2, <2>3 DEF EndOf
<1> QED
  BY <1>1, <1>2

LEMMA EndOfNat == ASSUME NEW s \in Seq(Nat), NEW a \in Nat PROVE EndOf(s, a) \in Nat
  BY DEF EndOf

LEMMA PageTypes ==
    ASSUME TypeOK, NEW page \in Pages
    PROVE  /\ page \in Seq(Nat) /\ page # <<>> /\ Len(page) \in Nat \ {0}
           /\ DOMAIN page = 1..Len(page)
           /\ \A i \in DOMAIN page : page[i] \in Fresh
<1>1. PICK n \in 1..PollLimit : page \in [1..n -> Fresh]
  BY DEF Pages
<1>2. Fresh \subseteq Nat
  BY DEF Fresh, TypeOK
<1>3. n \in Nat \ {0} /\ DOMAIN page = 1..n /\ page \in [1..n -> Nat]
  <2>1. n \in Nat \ {0}
    BY StreamAssumption
  <2>2. DOMAIN page = 1..n /\ \A i \in 1..n : page[i] \in Nat
    BY <1>1, <1>2
  <2>3. page = [i \in 1..n |-> page[i]]
    BY <1>1
  <2> QED BY <2>1, <2>2, <2>3
<1>4. page \in Seq(Nat)
  BY <1>3
<1>5. Len(page) = n
  BY <1>3, <1>4
<1> QED
  BY <1>1, <1>3, <1>4, <1>5

LEMMA TypeInit == Init => TypeOK
<1> SUFFICES ASSUME Init PROVE TypeOK
  OBVIOUS
<1>1. open \in BOOLEAN /\ polled \in BOOLEAN
  BY DEF Init
<1>2. log \in Seq(Tasks) /\ started \in [Posted -> Nat]
  BY NoRows DEF Init
<1> QED
  BY <1>1, <1>2, NoRows, StreamAssumption DEF Init, TypeOK

LEMMA TypeStep == TypeOK /\ [Next]_vars => TypeOK'
<1> SUFFICES ASSUME TypeOK, [Next]_vars PROVE TypeOK'
  OBVIOUS
<1> USE StreamAssumption
<1>1. ASSUME NEW k \in Tasks, Publish(k) PROVE TypeOK'
  BY <1>1 DEF Publish, TypeOK, postVars
<1>2. ASSUME NEW k \in Posted, CreateTask(k) PROVE TypeOK'
  BY <1>2 DEF CreateTask, TypeOK
<1>3. ASSUME NEW k \in Posted, StartTask(k) PROVE TypeOK'
  BY <1>3 DEF StartTask, TypeOK
<1>4. CASE Connect
  BY <1>4, NoRows DEF Connect, TypeOK, postVars
<1>5. CASE PollRows
  <2>1. PICK page \in Pages : pending' = page /\ cursor' = page[Len(page)]
    BY <1>5 DEF PollRows
  <2>2. page \in Seq(Nat) /\ cursor' \in Nat
    BY <2>1, PageTypes
  <2> QED BY <1>5, <2>1, <2>2 DEF PollRows, TypeOK, postVars
<1>6. CASE PollNone \/ Timeout
  BY <1>6 DEF PollNone, Timeout, TypeOK, postVars
<1>7. CASE PollFails \/ Cut
  <2>1. open' \in BOOLEAN
    BY <1>7 DEF PollFails, Cut
  <2>2. polled' \in BOOLEAN
    BY <1>7 DEF PollFails, Cut, TypeOK
  <2>3. cuts' \in 0..MaxCuts
    BY <1>7 DEF PollFails, Cut, TypeOK
  <2>4. pending' \in Seq(Nat) /\ wire' \in Seq(Nat)
    BY <1>7, NoRows DEF PollFails, Cut, TypeOK
  <2>5. UNCHANGED <<log, postVars, cursor, lastId, got>>
    BY <1>7 DEF PollFails, Cut
  <2> QED
    BY <2>1, <2>2, <2>3, <2>4, <2>5 DEF TypeOK, postVars
<1>8. CASE Send
  BY <1>8 DEF Send, TypeOK, postVars
<1>9. CASE Receive
  BY <1>9 DEF Receive, TypeOK, postVars
<1>10. CASE UNCHANGED vars
  BY <1>10 DEF vars, TypeOK, postVars
<1> QED
  BY <1>1, <1>2, <1>3, <1>4, <1>5, <1>6, <1>7, <1>8, <1>9, <1>10 DEF Next

\* Every variable of the stream and its client keeps its type.
THEOREM StreamTypeCorrect == Spec => []TypeOK
  BY TypeInit, TypeStep, PTL DEF Spec

-----------------------------------------------------------------------------

\* A row that is appended comes after all there are, so it is between none.
LEMMA Appended ==
    ASSUME TypeOK, NEW k, log' = Append(log, k), NEW a, NEW b, Follows(a, b)
    PROVE  Follows(a, b)'
  BY DEF Follows, TypeOK

LEMMA ContinuesOn ==
    ASSUME TypeOK, NEW s, NEW a, Continues(s, a),
           UNCHANGED log \/ \E k \in Tasks : log' = Append(log, k)
    PROVE  /\ s # <<>> => Follows(a, s[1])'
           /\ \A i \in 1..(Len(s) - 1) : Follows(s[i], s[i + 1])'
<1>1. CASE UNCHANGED log
  BY <1>1 DEF Continues, Follows
<1>2. ASSUME NEW k \in Tasks, log' = Append(log, k)
      PROVE  /\ s # <<>> => Follows(a, s[1])'
             /\ \A i \in 1..(Len(s) - 1) : Follows(s[i], s[i + 1])'
  BY <1>2, Appended DEF Continues
<1> QED
  BY <1>1, <1>2

\* A page continues the cursor.
LEMMA PageContinues ==
    ASSUME TypeOK, NEW page \in Pages, IsPage(page)
    PROVE  Continues(page, cursor)
<1>5. ASSUME NEW i \in DOMAIN page
      PROVE  Follows(IF i = 1 THEN cursor ELSE page[i - 1], page[i])
  <2> DEFINE a == IF i = 1 THEN cursor ELSE page[i - 1]
             rows == {page[j] : j \in DOMAIN page}
  <2>1. /\ DOMAIN page = 1..Len(page) /\ Len(page) \in Nat /\ i \in Nat \ {0}
        /\ \A j \in DOMAIN page : page[j] \in Fresh /\ page[j] \in Nat
    BY PageTypes DEF Fresh, TypeOK
  <2>2. page[i] \in DOMAIN log /\ log[page[i]] \in Wanted /\ cursor < page[i]
    BY <2>1 DEF Fresh
  <2>3. a < page[i] /\ a \in Nat /\ a >= cursor
    <3>1. CASE i = 1
      BY <2>2, <3>1 DEF TypeOK
    <3>2. CASE i # 1
      <4>1. i - 1 \in DOMAIN page
        BY <2>1, <3>2
      <4>2. page[i - 1] \in Fresh /\ page[i - 1] \in Nat /\ page[i - 1] < page[i]
        BY <2>1, <4>1 DEF IsPage
      <4> QED BY <3>2, <4>2 DEF Fresh, TypeOK
    <3> QED BY <3>1, <3>2
  <2>4. ASSUME NEW r \in DOMAIN log, a < r, r < page[i], log[r] \in Wanted PROVE FALSE
    <3>0. r \in Nat /\ cursor \in Nat
      BY DEF TypeOK
    <3>1. r \in Fresh
      BY <2>3, <2>4, <3>0 DEF Fresh
    <3>2. CASE r \in rows
      <4>1. PICK j \in DOMAIN page : r = page[j]
        BY <3>2
      <4>2. j < i \/ j = i \/ i < j
        BY <2>1
      <4>3. ~(i < j) /\ j # i
        BY <2>1, <2>4, <4>1 DEF IsPage
      <4>4. i - 1 \in DOMAIN page /\ (j = i - 1 \/ j < i - 1)
        BY <2>1, <4>2, <4>3
      <4>5. page[j] <= page[i - 1] /\ i # 1
        BY <2>1, <4>4 DEF IsPage
      <4> QED BY <2>1, <2>4, <3>0, <4>1, <4>4, <4>5
    <3>3. CASE r \notin rows
      <4>1. page[i] \in rows
        OBVIOUS
      <4>2. page[i] < r
        BY <3>1, <3>3, <4>1 DEF IsPage
      <4> QED BY <2>1, <2>4, <3>0, <4>2
    <3> QED BY <3>2, <3>3
  <2> QED
    BY <2>2, <2>3, <2>4 DEF Follows
<1>6. Follows(cursor, page[1])
  <2>1. 1 \in DOMAIN page
    BY PageTypes
  <2> QED BY <1>5, <2>1
<1>7. ASSUME NEW i \in 1..(Len(page) - 1) PROVE Follows(page[i], page[i + 1])
  <2>1. i + 1 \in DOMAIN page /\ i + 1 # 1 /\ (i + 1) - 1 = i
    BY PageTypes
  <2> QED BY <1>5, <2>1
<1> QED
  BY <1>6, <1>7 DEF Continues

LEMMA TailContinues ==
    ASSUME NEW s \in Seq(Nat), s # <<>>, NEW a, Continues(s, a)
    PROVE  Continues(Tail(s), Head(s))
<1>1. Tail(s) # <<>> => Len(s) > 1
  BY HeadAndTail
<1>2. Tail(s) # <<>> => Tail(s)[1] = s[2] /\ 1 \in 1..(Len(s) - 1)
  BY <1>1, HeadAndTail
<1>3. ASSUME NEW i \in 1..(Len(Tail(s)) - 1) PROVE Follows(Tail(s)[i], Tail(s)[i + 1])
  <2>1. /\ Tail(s)[i] = s[i + 1] /\ Tail(s)[i + 1] = s[(i + 1) + 1]
        /\ i + 1 \in 1..(Len(s) - 1)
    BY HeadAndTail
  <2> QED BY <2>1 DEF Continues
<1> QED
  BY <1>2, <1>3, HeadAndTail DEF Continues

LEMMA ChainInit == Init => IInv
<1> SUFFICES ASSUME Init PROVE IInv
  OBVIOUS
<1>1. Continues(<<>>, Here) /\ Continues(<<>>, Sent)
  BY NoRows DEF Continues
<1>2. ~open
  BY DEF Init
<1> QED
  BY <1>1, <1>2, TypeInit DEF Init, IInv

LEMMA ChainStep == IInv /\ [Next]_vars => IInv'
<1> SUFFICES ASSUME IInv, [Next]_vars PROVE IInv'
  OBVIOUS
<1>0. TypeOK /\ TypeOK' /\ After \in Nat /\ Here \in Nat /\ Sent \in Nat
  BY TypeStep, EndOfNat, StreamAssumption DEF IInv, Here, Sent, TypeOK
\* The table grows, and nothing else that the chain is made of changes.
<1>1. ASSUME UNCHANGED <<open, cursor, pending, wire, lastId, got>>,
             UNCHANGED log \/ \E k \in Tasks : log' = Append(log, k)
      PROVE  IInv'
  <2>1. Here' = Here /\ Sent' = Sent
    BY <1>1 DEF Here, Sent, EndOf
  <2>2. Continues(wire, Here)'
    BY <1>0, <1>1, <2>1, ContinuesOn DEF IInv, Continues, TypeOK
  <2>3. Continues(pending, Sent)'
    BY <1>0, <1>1, <2>1, ContinuesOn DEF IInv, Continues, TypeOK
  <2> QED
    BY <1>0, <1>1, <2>1, <2>2, <2>3 DEF IInv, EndOf
<1>2. ASSUME NEW k \in Tasks, Publish(k) PROVE IInv'
  BY <1>1, <1>2 DEF Publish
<1>3. ASSUME NEW k \in Posted, CreateTask(k) \/ StartTask(k) PROVE IInv'
  BY <1>1, <1>3, StreamAssumption DEF CreateTask, StartTask
<1>4. CASE Connect
  <2>1. Here' = Here /\ wire = <<>> /\ pending' = <<>> /\ UNCHANGED <<log, wire, got>>
    BY <1>4 DEF Connect, Here, EndOf
  <2>2. Sent' = Here
    BY <2>1 DEF Sent, EndOf
  <2>3. cursor' = Here /\ UNCHANGED lastId
    BY <1>0, <1>4, StreamAssumption DEF Connect, IInv, Here, EndOf, TypeOK
  <2>4. Continues(wire, Here)' /\ Continues(pending, Sent)'
    BY <2>1, NoRows DEF Continues
  <2> QED
    BY <1>0, <2>1, <2>2, <2>3, <2>4, NoRows DEF IInv, EndOf
<1>5. CASE PollRows
  <2>1. PICK page \in Pages :
           IsPage(page) /\ pending' = page /\ cursor' = page[Len(page)]
    BY <1>5 DEF PollRows
  <2>2. open /\ pending = <<>> /\ UNCHANGED <<log, open, wire, lastId, got>>
    BY <1>5 DEF PollRows, postVars
  <2>3. Here' = Here /\ Sent' = Sent /\ cursor = Sent
    BY <2>2 DEF Here, Sent, EndOf, IInv
  <2>4. Continues(page, Sent)
    BY <1>0, <2>1, <2>3, PageContinues
  <2>5. Continues(wire, Here)' /\ Continues(pending, Sent)'
    BY <2>1, <2>2, <2>3, <2>4 DEF IInv, Continues, Follows
  <2>6. cursor' = EndOf(pending, Sent)'
    BY <1>0, <2>1, PageTypes DEF EndOf
  <2> QED
    BY <1>0, <2>2, <2>5, <2>6 DEF IInv
<1>6. CASE PollNone
  BY <1>1, <1>6 DEF PollNone
<1>7. CASE Timeout \/ PollFails
  <2>1. pending = <<>> /\ ~open' /\ UNCHANGED <<log, pending, wire, lastId, got>>
    BY <1>7 DEF Timeout, PollFails
  <2>2. Here' = Here /\ Sent' = Sent
    BY <2>1 DEF Here, Sent, EndOf
  <2>3. Continues(wire, Here)' /\ Continues(pending, Sent)'
    BY <2>1, <2>2 DEF IInv, Continues, Follows
  <2> QED
    BY <1>0, <2>1, <2>3 DEF IInv
<1>8. CASE Cut
  <2>1. ~open' /\ pending' = <<>> /\ wire' = <<>> /\ UNCHANGED <<lastId, got>>
    BY <1>8 DEF Cut
  <2>2. Continues(wire, Here)' /\ Continues(pending, Sent)'
    BY <2>1, NoRows DEF Continues
  <2> QED
    BY <1>0, <2>1, <2>2 DEF IInv
<1>9. CASE Send
  <2>1. /\ open /\ pending # <<>> /\ wire' = Append(wire, Head(pending))
        /\ pending' = Tail(pending) /\ UNCHANGED <<log, open, cursor, lastId, got>>
    BY <1>9 DEF Send
  <2>0. pending \in Seq(Nat) /\ wire \in Seq(Nat) /\ Head(pending) \in Nat
    BY <1>0, <2>1, HeadAndTail DEF TypeOK
  <2>2. Here' = Here /\ Sent' = Head(pending)
    BY <2>0, <2>1, OneMore DEF Here, Sent, EndOf
  <2>3. Follows(Sent, Head(pending))
    BY <2>0, <2>1, HeadAndTail DEF IInv, Continues
  <2>4. Continues(wire, Here)'
    <3>1. wire'[1] = IF wire = <<>> THEN Head(pending) ELSE wire[1]
      BY <2>0, <2>1, OneMore
    <3>2. Follows(Here, wire'[1])
      BY <2>3, <3>1 DEF IInv, Continues, Sent, EndOf
    <3>3. ASSUME NEW i \in 1..Len(wire) PROVE Follows(wire'[i], wire'[i + 1])
      <4>1. CASE i < Len(wire)
        <5>1. wire'[i] = wire[i] /\ wire'[i + 1] = wire[i + 1] /\ i \in 1..(Len(wire) - 1)
          BY <2>0, <2>1, <4>1, OneMore
        <5> QED BY <5>1 DEF IInv, Continues
      <4>2. CASE i = Len(wire)
        <5>1. wire'[i] = Sent /\ wire'[i + 1] = Head(pending)
          BY <2>0, <2>1, <4>2, OneMore DEF Sent, EndOf
        <5> QED BY <2>3, <5>1
      <4> QED BY <2>0, <4>1, <4>2
    <3>4. Len(wire') - 1 = Len(wire)
      BY <2>0, <2>1, OneMore
    <3> QED BY <2>1, <2>2, <3>2, <3>3, <3>4 DEF Continues, Follows
  <2>5. Continues(pending, Sent)'
    BY <2>0, <2>1, <2>2, TailContinues DEF IInv, Continues, Follows
  <2>6. cursor' = EndOf(pending, Sent)'
    BY <2>0, <2>1, <2>2, TailEnds DEF IInv, EndOf
  <2> QED
    BY <1>0, <2>1, <2>4, <2>5, <2>6 DEF IInv
<1>10. CASE Receive
  <2>1. /\ wire # <<>> /\ got' = Append(got, Head(wire)) /\ lastId' = Head(wire)
        /\ wire' = Tail(wire) /\ UNCHANGED <<log, open, cursor, pending>>
    BY <1>10 DEF Receive
  <2>0. wire \in Seq(Nat) /\ got \in Seq(Nat) /\ Head(wire) \in Nat
    BY <1>0, <2>1, HeadAndTail DEF TypeOK
  <2>2. Here' = Head(wire) /\ Sent' = Sent
    <3>1. Here' = Head(wire)
      BY <2>0, <2>1, OneMore DEF Here, EndOf
    <3>2. EndOf(wire, Here)' = EndOf(wire, Here)
      BY <2>0, <2>1, <3>1, TailEnds DEF EndOf
    <3> QED BY <3>1, <3>2 DEF Sent
  <2>3. Continues(wire, Here)'
    BY <2>0, <2>1, <2>2, TailContinues DEF IInv, Continues, Follows
  <2>4. Continues(pending, Sent)'
    BY <2>1, <2>2 DEF IInv, Continues, Follows
  <2>5. lastId' = IF got' = <<>> THEN None ELSE got'[Len(got')]
    BY <1>0, <2>1 DEF TypeOK
  <2> QED
    BY <1>0, <2>1, <2>2, <2>3, <2>4, <2>5 DEF IInv, EndOf
<1>11. CASE UNCHANGED vars
  BY <1>1, <1>11 DEF vars
<1> QED
  BY <1>2, <1>3, <1>4, <1>5, <1>6, <1>7, <1>8, <1>9, <1>10, <1>11 DEF Next

-----------------------------------------------------------------------------

\* A step of the stream adds a row to the table, hands the client the next one,
\* or is none of EventDelivery's.
LEMMA DeliveryStep == IInv /\ [Next]_vars => [Delivery!Next]_(Delivery!vars)
<1> SUFFICES ASSUME IInv, [Next]_vars
             PROVE  Delivery!Next \/ UNCHANGED Delivery!vars
  OBVIOUS
<1> USE DEF Delivery!Next, Delivery!vars, Delivery!Publish
<1>1. ASSUME NEW k \in Tasks, Publish(k) PROVE Delivery!Next
  BY <1>1 DEF Publish
<1>2. ASSUME NEW k \in Posted, CreateTask(k) PROVE UNCHANGED Delivery!vars
  BY <1>2 DEF CreateTask
<1>3. ASSUME NEW k \in Posted, StartTask(k) PROVE Delivery!Next
  BY <1>3, StreamAssumption DEF StartTask
<1>4. CASE Receive
  <2>1. wire # <<>> /\ got' = Append(got, Head(wire)) /\ UNCHANGED log
    BY <1>4 DEF Receive
  <2>2. Follows(Here, Head(wire))
    BY <2>1, HeadAndTail DEF IInv, Continues, TypeOK
  <2>3. Here = Delivery!Reached
    BY DEF Here, EndOf, Delivery!Reached
  <2>4. Head(wire) \in Delivery!Due /\ \A q \in Delivery!Due : Head(wire) <= q
    BY <2>2, <2>3 DEF Follows, Delivery!Due, IInv, TypeOK
  <2> QED BY <2>1, <2>4 DEF Delivery!Deliver
<1>5. CASE Connect \/ PollRows \/ PollNone \/ Timeout \/ PollFails \/ Send \/ Cut
  BY <1>5 DEF Connect, PollRows, PollNone, Timeout, PollFails, Send, Cut
<1>6. CASE UNCHANGED vars
  BY <1>6 DEF vars
<1> QED
  BY <1>1, <1>2, <1>3, <1>4, <1>5, <1>6 DEF Next

\* The stream implements EventDelivery step by step: whatever connections end
\* or are cut, the client is handed the first wanted row it does not have.
THEOREM StreamDelivers == Spec => Delivery!Init /\ [][Delivery!Next]_(Delivery!vars)
<1>1. Init => Delivery!Init
  BY DEF Init, Delivery!Init
<1> QED
  BY <1>1, ChainInit, ChainStep, DeliveryStep, PTL DEF Spec

-----------------------------------------------------------------------------

InOrder ==
    /\ Delivery!InOrderNoGaps
    /\ \A i \in DOMAIN got : got[i] \in DOMAIN log

LEMMA OrderStep == IInv /\ InOrder /\ [Next]_vars => InOrder'
<1> SUFFICES ASSUME IInv, InOrder, [Next]_vars PROVE InOrder'
  OBVIOUS
<1> USE DEF InOrder, Delivery!InOrderNoGaps, Delivery!Received
<1>0. log \in Seq(Tasks) /\ got \in Seq(Nat) /\ After \in Nat
  BY StreamAssumption DEF IInv, TypeOK
<1>1. ASSUME NEW k \in Tasks, log' = Append(log, k), UNCHANGED got PROVE InOrder'
  <2>1. /\ DOMAIN log' = DOMAIN log \cup {Len(log) + 1} /\ DOMAIN log = 1..Len(log)
        /\ \A r \in DOMAIN log : log'[r] = log[r]
    BY <1>0, <1>1
  <2>2. ASSUME NEW r \in DOMAIN log', After < r, log'[r] \in Wanted,
               NEW i \in DOMAIN got, r <= got[i]
        PROVE  \E j \in DOMAIN got : r = got[j]
    <3>1. got[i] \in DOMAIN log /\ Len(log) \in Nat
      BY <1>0
    <3>2. r \in DOMAIN log /\ log[r] \in Wanted
      BY <2>1, <2>2, <3>1
    <3> QED BY <2>2, <3>2
  <2> QED BY <1>1, <2>1, <2>2
<1>2. CASE Receive
  <2>1. wire # <<>> /\ got' = Append(got, Head(wire)) /\ UNCHANGED log
    BY <1>2 DEF Receive
  <2>2. Head(wire) \in Nat /\ Follows(Here, Head(wire))
    BY <2>1, HeadAndTail DEF IInv, Continues, TypeOK
  <2>3. /\ DOMAIN got' = 1..(Len(got) + 1) /\ DOMAIN got = 1..Len(got) /\ Len(got) \in Nat
        /\ got'[Len(got) + 1] = Head(wire) /\ \A i \in DOMAIN got : got'[i] = got[i]
    BY <1>0, <2>1, <2>2, OneMore
  <2>4. \A i \in DOMAIN got : got[i] <= Here /\ got[i] \in Nat
    BY <1>0 DEF Here, EndOf
  <2>5. After <= Here /\ Here \in Nat
    BY <1>0 DEF Here, EndOf
  <2>6. \A i, j \in DOMAIN got' : i < j => got'[i] < got'[j]
    BY <2>2, <2>3, <2>4, <2>5 DEF Follows
  <2>7. ASSUME NEW r \in DOMAIN log, After < r, log[r] \in Wanted,
               NEW i \in DOMAIN got', r <= got'[i]
        PROVE  \E j \in DOMAIN got' : r = got'[j]
    <3>1. r \in Nat
      BY <1>0
    <3>2. CASE \E j \in DOMAIN got : r <= got[j]
      <4>1. \E j \in DOMAIN got : r = got[j]
        BY <2>7, <3>2
      <4> QED BY <2>3, <4>1
    <3>3. CASE \A j \in DOMAIN got : ~(r <= got[j])
      <4>1. i = Len(got) + 1 /\ r <= Head(wire)
        BY <2>3, <2>7, <3>3
      <4>2. Here < r
        BY <1>0, <2>7, <3>1, <3>3 DEF Here, EndOf
      <4>3. r = Head(wire)
        BY <2>2, <2>7, <3>1, <4>1, <4>2 DEF Follows
      <4> QED BY <2>3, <4>3
    <3> QED BY <3>2, <3>3
  <2>8. \A i \in DOMAIN got' :
           got'[i] > After /\ log[got'[i]] \in Wanted /\ got'[i] \in DOMAIN log
    <3>1. Head(wire) > After /\ log[Head(wire)] \in Wanted /\ Head(wire) \in DOMAIN log
      BY <1>0, <2>2, <2>5 DEF Follows
    <3> QED BY <2>3, <3>1
  <2> QED BY <2>1, <2>6, <2>7, <2>8
<1>3. CASE UNCHANGED <<log, got>>
  BY <1>3
<1>4. ASSUME NEW k \in Tasks, Publish(k) PROVE InOrder'
  BY <1>1, <1>4 DEF Publish
<1>5. ASSUME NEW k \in Posted, CreateTask(k) \/ StartTask(k) PROVE InOrder'
  BY <1>1, <1>3, <1>5, StreamAssumption DEF CreateTask, StartTask
<1>6. CASE Connect \/ PollRows \/ PollNone \/ Timeout \/ PollFails \/ Send \/ Cut
  BY <1>3, <1>6 DEF Connect, PollRows, PollNone, Timeout, PollFails, Send, Cut
<1>7. CASE UNCHANGED vars
  BY <1>3, <1>7 DEF vars
<1> QED
  BY <1>2, <1>4, <1>5, <1>6, <1>7 DEF Next

\* Over any number of connections, cut and ended wherever, the client has the
\* rows of its tasks in the order of the table, each once and none left out.
THEOREM ClientReadsInOrder == Spec => []Delivery!InOrderNoGaps
<1>1. Init => IInv /\ InOrder
  <2>1. Init => InOrder
    BY NoRows DEF Init, InOrder, Delivery!InOrderNoGaps, Delivery!Received
  <2> QED BY <2>1, ChainInit
<1>2. (IInv /\ InOrder) /\ [Next]_vars => (IInv /\ InOrder)'
  BY ChainStep, OrderStep
<1>3. InOrder => Delivery!InOrderNoGaps
  BY DEF InOrder
<1> QED
  BY <1>1, <1>2, <1>3, PTL DEF Spec
=============================================================================

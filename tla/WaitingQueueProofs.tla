------------------------- MODULE WaitingQueueProofs --------------------------
(***************************************************************************)
(* What the queue operations of WaitingQueue do to any queue.              *)
(***************************************************************************)
EXTENDS WaitingQueue, SequenceTheorems, FiniteSetTheorems,
        WellFoundedInduction, TLAPS

(* A non-empty set of positions has a smallest element.                    *)
LEMMA MinOfPositions ==
  ASSUME NEW I \in SUBSET Nat, I # {}
  PROVE  Min(I) \in I /\ \A j \in I : Min(I) <= j
<1> DEFINE T == {1..i : i \in I}
<1>1. T \subseteq FiniteSubsetsOf(Nat) /\ T # {}
  <2>1. ASSUME NEW i \in I PROVE 1..i \in FiniteSubsetsOf(Nat)
    BY FS_Interval DEF FiniteSubsetsOf
  <2> QED BY <2>1
<1>2. PICK X \in T : \A Y \in T : ~(<<Y, X>> \in StrictSubsetOrdering(Nat))
  BY <1>1, FS_StrictSubsetOrderingWellFounded, WFMin
<1>3. PICK i \in I : X = 1..i
  OBVIOUS
<1>4. ASSUME NEW j \in I PROVE i <= j
  <2>1. ~(<<1..j, 1..i>> \in StrictSubsetOrdering(Nat))
    BY <1>2, <1>3
  <2>2. 1..j \subseteq Nat /\ 1..i \subseteq Nat
    OBVIOUS
  <2>3. ~(1..j \subseteq 1..i) \/ 1..j = 1..i
    BY <2>1, <2>2 DEF StrictSubsetOrdering
  <2>4. CASE ~(1..j \subseteq 1..i)
    BY <2>4
  <2>5. CASE 1..j = 1..i
    <3>1. i = 0 \/ i \in 1..j
      BY <2>5
    <3> QED BY <3>1
  <2> QED BY <2>3, <2>4, <2>5
<1> QED BY <1>4 DEF Min

(* RemoveAt closes the gap: what stands before i stays where it is, what   *)
(* stands behind moves up by one.                                          *)
LEMMA RemoveAtProperties ==
  ASSUME NEW S, NEW q \in Seq(S), NEW i \in 1..Len(q)
  PROVE  /\ RemoveAt(q, i) \in Seq(S)
         /\ Len(RemoveAt(q, i)) = Len(q) - 1
         /\ \A j \in 1..(Len(q) - 1) :
              RemoveAt(q, i)[j] = IF j < i THEN q[j] ELSE q[j + 1]
<1> DEFINE front == SubSeq(q, 1, i - 1)
           back == SubSeq(q, i + 1, Len(q))
<1>1. /\ front \in Seq(S) /\ Len(front) = i - 1
      /\ \A j \in 1..(i - 1) : front[j] = q[j]
  BY SubSeqProperties
<1>2. /\ back \in Seq(S) /\ Len(back) = Len(q) - i
      /\ \A j \in 1..(Len(q) - i) : back[j] = q[i + j]
  BY SubSeqProperties
<1> HIDE DEF front, back
<1>3. RemoveAt(q, i) = front \o back
  BY DEF RemoveAt, front, back
<1>4. /\ front \o back \in Seq(S)
      /\ Len(front \o back) = Len(front) + Len(back)
      /\ \A j \in 1..(Len(front) + Len(back)) :
           (front \o back)[j] = IF j <= Len(front) THEN front[j] ELSE back[j - Len(front)]
  BY <1>1, <1>2, ConcatProperties, Zenon
<1>5. ASSUME NEW j \in 1..(Len(q) - 1)
      PROVE  (front \o back)[j] = IF j < i THEN q[j] ELSE q[j + 1]
  <2>1. CASE j < i
    BY <2>1, <1>1, <1>2, <1>4
  <2>2. CASE ~(j < i)
    <3>1. (front \o back)[j] = back[j - (i - 1)] /\ j - (i - 1) \in 1..(Len(q) - i)
      BY <2>2, <1>1, <1>2, <1>4
    <3>2. back[j - (i - 1)] = q[i + (j - (i - 1))]
      BY <3>1, <1>2
    <3> QED BY <2>2, <3>1, <3>2
  <2> QED BY <2>1, <2>2
<1> QED BY <1>1, <1>2, <1>3, <1>4, <1>5

(* Remove(id) takes the first entry of id out of the line, or nothing.     *)
LEMMA LeaveProperties ==
  ASSUME NEW S, NEW q \in Seq(S), NEW id
  PROVE  \/ Leave(q, id) = q /\ \A i \in 1..Len(q) : q[i].id # id
         \/ \E i \in 1..Len(q) :
              /\ q[i].id = id
              /\ \A j \in 1..(i - 1) : q[j].id # id
              /\ Leave(q, id) = RemoveAt(q, i)
<1> DEFINE I == {i \in 1..Len(q) : q[i].id = id}
<1>1. CASE I = {}
  BY <1>1 DEF Leave, RemoveFirstMatch
<1>2. CASE I # {}
  <2>1. Min(I) \in I /\ \A j \in I : Min(I) <= j
    BY <1>2, MinOfPositions
  <2>2. Leave(q, id) = RemoveAt(q, Min(I))
    BY <1>2 DEF Leave, RemoveFirstMatch, SelectInSeq
  <2>3. Min(I) \in 1..Len(q) /\ q[Min(I)].id = id
    BY <2>1
  <2>4. \A j \in 1..(Min(I) - 1) : q[j].id # id
    <3>1. ASSUME NEW j \in 1..(Min(I) - 1), q[j].id = id PROVE FALSE
      <4>1. j \in I
        BY <3>1, <2>3
      <4>2. Min(I) <= j
        BY <4>1, <2>1
      <4> QED BY <4>2, <2>3
    <3> QED BY <3>1
  <2> QED BY <2>2, <2>3, <2>4
<1> QED BY <1>1, <1>2

(* Taking somebody out of the line leaves a line of entries.               *)
LEMMA LeaveType ==
  ASSUME NEW S, NEW q \in Seq(S), NEW id
  PROVE  Leave(q, id) \in Seq(S)
<1>1. CASE Leave(q, id) = q
  BY <1>1
<1>2. CASE Leave(q, id) # q
  <2>1. PICK i \in 1..Len(q) : Leave(q, id) = RemoveAt(q, i)
    BY <1>2, LeaveProperties
  <2> QED BY <2>1, RemoveAtProperties
<1> QED BY <1>1, <1>2

-----------------------------------------------------------------------------
(* A line in which no connection stands twice                              *)

(* No connection stands in q twice.                                        *)
NoTwice(q) == \A i, j \in DOMAIN q : q[i].conn = q[j].conn => i = j

LEMMA LeaveKeepsApart ==
  ASSUME NEW S, NEW q \in Seq(S), NoTwice(q), NEW id
  PROVE  /\ NoTwice(Leave(q, id))
         /\ \A i \in DOMAIN Leave(q, id) : \E j \in DOMAIN q : Leave(q, id)[i] = q[j]
<1>1. CASE Leave(q, id) = q
  BY <1>1
<1>2. CASE Leave(q, id) # q
  <2>1. PICK k \in 1..Len(q) : Leave(q, id) = RemoveAt(q, k)
    BY <1>2, LeaveProperties
  <2> DEFINE l == Leave(q, id)
             from(i) == IF i < k THEN i ELSE i + 1
  <2>2. /\ DOMAIN q = 1..Len(q) /\ Len(q) \in Nat
        /\ DOMAIN l = 1..(Len(q) - 1)
        /\ \A i \in DOMAIN l : l[i] = q[from(i)]
    <3>1. DOMAIN q = 1..Len(q) /\ Len(q) \in Nat
      BY LenProperties
    <3>2. /\ l \in Seq(S) /\ Len(l) = Len(q) - 1
          /\ \A i \in 1..(Len(q) - 1) : l[i] = q[from(i)]
      BY <2>1, RemoveAtProperties, Zenon
    <3>3. DOMAIN l = 1..(Len(q) - 1)
      BY <3>2, LenProperties
    <3> QED BY <3>1, <3>2, <3>3
  <2>3. \A i \in DOMAIN l : from(i) \in DOMAIN q
    BY <2>2
  <2>4. \A i, j \in DOMAIN l : from(i) = from(j) => i = j
    BY <2>2
  <2>5. NoTwice(l)
    BY <2>2, <2>3, <2>4 DEF NoTwice
  <2> QED BY <2>2, <2>3, <2>5
<1> QED BY <1>1, <1>2

LEMMA AddKeepsApart ==
  ASSUME NEW S, NEW q \in Seq(S), NoTwice(q), NEW s, NEW c, Entry(s, c) \in S,
         \A i \in DOMAIN q : q[i].conn # c
  PROVE  /\ NoTwice(Add(q, s, c))
         /\ \A i \in DOMAIN Add(q, s, c) :
              \/ Add(q, s, c)[i] = Entry(s, c)
              \/ \E j \in DOMAIN q : Add(q, s, c)[i] = q[j]
<1>1. Entry(s, c) \in S /\ Entry(s, c).conn = c
  BY DEF Entry
<1> DEFINE a == Append(q, Entry(s, c))
<1>2. /\ DOMAIN q = 1..Len(q) /\ Len(q) \in Nat
      /\ DOMAIN a = 1..(Len(q) + 1)
      /\ \A i \in 1..Len(q) : a[i] = q[i]
      /\ a[Len(q) + 1] = Entry(s, c)
  BY <1>1, AppendProperties, LenProperties
<1> HIDE DEF a
<1>3. NoTwice(a)
  BY <1>1, <1>2 DEF NoTwice
<1>4. \A i \in DOMAIN a : a[i] = Entry(s, c) \/ \E j \in DOMAIN q : a[i] = q[j]
  BY <1>2
<1> QED BY <1>3, <1>4 DEF Add, a

(* Remove takes an entry of its session out, when there is one, and with   *)
(* it the connection of that entry.                                        *)
LEMMA LeaveTakesOne ==
  ASSUME NEW S, NEW q \in Seq(S), NoTwice(q), NEW id, \E i \in DOMAIN q : q[i].id = id
  PROVE  \E k \in DOMAIN q :
           /\ q[k].id = id
           /\ \A i \in DOMAIN Leave(q, id) : Leave(q, id)[i].conn # q[k].conn
<1>0. DOMAIN q = 1..Len(q) /\ Len(q) \in Nat
  BY LenProperties
<1>1. PICK k \in 1..Len(q) : q[k].id = id /\ Leave(q, id) = RemoveAt(q, k)
  BY <1>0, LeaveProperties
<1> DEFINE l == Leave(q, id)
           from(i) == IF i < k THEN i ELSE i + 1
<1>2. /\ l \in Seq(S) /\ Len(l) = Len(q) - 1
      /\ \A i \in 1..(Len(q) - 1) : l[i] = q[from(i)]
  BY <1>1, RemoveAtProperties, Zenon
<1>3. DOMAIN l = 1..(Len(q) - 1)
  BY <1>2, LenProperties
<1> HIDE DEF l
<1>4. ASSUME NEW i \in DOMAIN l PROVE l[i].conn # q[k].conn
  <2>1. l[i] = q[from(i)] /\ from(i) \in DOMAIN q /\ from(i) # k
    BY <1>0, <1>2, <1>3, <1>4
  <2> QED BY <1>0, <2>1 DEF NoTwice
<1> QED BY <1>0, <1>1, <1>4 DEF l

(* A broadcast tells every connection in the line its place and the total. *)
LEMMA BroadcastTellsTheTruth ==
  ASSUME NEW S, NEW q \in Seq(S), NoTwice(q), NEW conns, NEW i \in DOMAIN q, q[i].conn \in conns
  PROVE  BroadcastPositions(q, conns)[q[i].conn] = Update(i, Len(q))
<1>1. (CHOOSE j \in DOMAIN q : q[j].conn = q[i].conn) = i
  BY DEF NoTwice
<1> QED BY <1>1 DEF BroadcastPositions

(* PopFront takes out the first entry, and nothing else.                   *)
LEMMA TailKeepsApart ==
  ASSUME NEW S, NEW q \in Seq(S), NoTwice(q), q # <<>>
  PROVE  /\ Tail(q) \in Seq(S) /\ NoTwice(Tail(q))
         /\ \A i \in DOMAIN Tail(q) : \E j \in DOMAIN q : Tail(q)[i] = q[j]
         /\ 1 \in DOMAIN q /\ Head(q) = q[1] /\ Head(q) \in S
         /\ \A i \in DOMAIN Tail(q) : Tail(q)[i].conn # Head(q).conn
<1> DEFINE l == Tail(q)
<1>1. /\ l \in Seq(S) /\ Len(l) = Len(q) - 1
      /\ \A i \in 1..Len(l) : l[i] = q[i + 1]
  BY HeadTailProperties
<1>2. DOMAIN q = 1..Len(q) /\ Len(q) \in Nat \ {0} /\ Head(q) = q[1] /\ Head(q) \in S
  BY LenProperties, EmptySeq, HeadTailProperties
<1>3. DOMAIN l = 1..(Len(q) - 1)
  BY <1>1, LenProperties
<1> HIDE DEF l
<1>4. ASSUME NEW i \in DOMAIN l PROVE l[i] = q[i + 1] /\ i + 1 \in DOMAIN q /\ i \in Nat \ {0}
  BY <1>1, <1>2, <1>3, <1>4
<1>5. \A i \in DOMAIN l : l[i].conn # Head(q).conn
  <2>1. ASSUME NEW i \in DOMAIN l PROVE l[i].conn # q[1].conn
    <3>1. 1 \in DOMAIN q /\ i + 1 # 1
      BY <1>2, <1>4
    <3> QED BY <1>4, <3>1 DEF NoTwice
  <2> QED BY <1>2, <2>1
<1>6. NoTwice(l)
  BY <1>4 DEF NoTwice
<1>7. 1 \in DOMAIN q
  BY <1>2
<1> QED BY <1>1, <1>2, <1>4, <1>5, <1>6, <1>7 DEF l

(* So many connections, so many places.                                    *)
LEMMA LengthBounded ==
  ASSUME NEW S, NEW q \in Seq(S), NoTwice(q), NEW conns, IsFiniteSet(conns),
         \A i \in DOMAIN q : q[i].conn \in conns
  PROVE  Len(q) \in 0..Cardinality(conns) /\ Cardinality(conns) \in Nat
<1> DEFINE at == [i \in 1..Len(q) |-> q[i].conn]
<1>1. DOMAIN q = 1..Len(q) /\ Len(q) \in Nat
  BY LenProperties
<1>2. at \in Injection(1..Len(q), conns)
  BY <1>1 DEF Injection, IsInjective, NoTwice
<1>3. Cardinality(1..Len(q)) <= Cardinality(conns)
  BY <1>2, FS_Injection
<1>4. Cardinality(1..Len(q)) = Len(q)
  <2>1. 1 \in Int /\ Len(q) \in Int
    BY <1>1
  <2>2. Cardinality(1..Len(q)) = IF 1 > Len(q) THEN 0 ELSE Len(q) - 1 + 1
    BY <2>1, FS_Interval, Zenon
  <2> QED BY <1>1, <2>2
<1>5. Cardinality(conns) \in Nat
  BY FS_CardinalityType
<1> QED BY <1>1, <1>3, <1>4, <1>5
=============================================================================

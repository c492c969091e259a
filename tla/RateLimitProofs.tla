--------------------------- MODULE RateLimitProofs ---------------------------
(***************************************************************************)
(* Proofs about the rate limiter, for any number of addresses, any length  *)
(* of the window and any limit, zero included.                             *)
(***************************************************************************)
EXTENDS RateLimit, TLAPS

USE WindowPositive, LimitNat

(* A counted request changes the count of one entry and nothing else.      *)
LEMMA CountedEntry ==
  ASSUME TypeOK, NEW a \in Addresses, Count(a)
  PROVE  /\ requests[a] \in Entries
         /\ requests' = [requests EXCEPT ![a] = [requests[a] EXCEPT !.count = @ + 1]]
         /\ requests'[a] = [requests[a] EXCEPT !.count = @ + 1]
         /\ requests'[a] \in Entries
         /\ requests'[a] \in [count : Nat, age : Nat]
<1>1. requests[a] \in Entries
  BY DEF Count, Live, TypeOK
<1>2. requests' = [requests EXCEPT ![a] = [requests[a] EXCEPT !.count = @ + 1]]
  BY DEF Count
<1>3. requests'[a] = [requests[a] EXCEPT !.count = @ + 1]
  BY <1>2 DEF TypeOK
<1>4. [requests[a] EXCEPT !.count = @ + 1] \in Entries
  BY <1>1 DEF Entries
<1>5. requests'[a] \in [count : Nat, age : Nat]
  BY <1>3, <1>4 DEF Entries, Ages
<1> QED BY <1>1, <1>2, <1>3, <1>4, <1>5

-----------------------------------------------------------------------------
(* The type invariant of the limiter.                                      *)
THEOREM TypeCorrect == Spec => []TypeOK
<1>1. Init => TypeOK
  <2> SUFFICES ASSUME Init PROVE TypeOK
    OBVIOUS
  <2>1. requests \in [Addresses -> Entries \cup {NoEntry}]
    BY DEF Init
  <2>2. phase \in 0..Window - 1 /\ due \in BOOLEAN
    <3>1. 0 \in 0..Window - 1
      OBVIOUS
    <3> QED BY <3>1 DEF Init
  <2>3. passed \in [Addresses -> [0..Window -> Nat]]
    BY DEF Init
  <2> QED BY <2>1, <2>2, <2>3 DEF TypeOK
<1>2. TypeOK /\ [Next]_vars => TypeOK'
  <2> SUFFICES ASSUME TypeOK, [Next]_vars PROVE TypeOK'
    OBVIOUS
  <2> USE DEF TypeOK, Entries, Ages
  <2>1. CASE Tick
    <3>1. requests' \in [Addresses -> Entries \cup {NoEntry}]
      BY <2>1 DEF Tick, Live, Expired
    <3>2. phase' \in 0..Window - 1 /\ due' \in BOOLEAN
      BY <2>1 DEF Tick
    <3>3. passed' \in [Addresses -> [0..Window -> Nat]]
      BY <2>1 DEF Tick
    <3> QED BY <3>1, <3>2, <3>3
  <2>2. CASE Cleanup
    BY <2>2 DEF Cleanup
  <2>3. ASSUME NEW a \in Addresses, NewWindow(a) PROVE TypeOK'
    <3>1. requests' \in [Addresses -> Entries \cup {NoEntry}]
      BY <2>3 DEF NewWindow
    <3>2. passed' \in [Addresses -> [0..Window -> Nat]]
      BY <2>3 DEF NewWindow, Passes
    <3> QED BY <2>3, <3>1, <3>2 DEF NewWindow
  <2>4. ASSUME NEW a \in Addresses, Count(a) PROVE TypeOK'
    <3>1. requests' \in [Addresses -> Entries \cup {NoEntry}]
      BY <2>4, CountedEntry
    <3>2. passed' \in [Addresses -> [0..Window -> Nat]]
      BY <2>4 DEF Count, Passes
    <3> QED BY <2>4, <3>1, <3>2 DEF Count
  <2>5. ASSUME NEW a \in Addresses, Refuse(a) PROVE TypeOK'
    BY <2>5 DEF Refuse, vars
  <2>6. CASE UNCHANGED vars
    BY <2>6 DEF vars
  <2> QED BY <2>1, <2>2, <2>3, <2>4, <2>5, <2>6 DEF Next
<1> QED BY <1>1, <1>2, PTL DEF Spec

-----------------------------------------------------------------------------
(* The refinement, step by step: what the cleanup removes is a window the  *)
(* abstract limiter has closed already.                                    *)

LEMMA StartsClosed == Init => W!Init
BY DEF Init, W!Init, used, since, Live, Old, W!Closed

LEMMA TickIsTick ==
  ASSUME TypeOK, Tick PROVE W!Tick
<1> USE DEF TypeOK, Entries, Ages
<1>1. ASSUME NEW a \in Addresses
      PROVE  since'[a] = IF since[a] = W!Closed THEN W!Closed ELSE since[a] + 1
  <2>1. CASE Live(a)
    <3>1. requests'[a] = [requests[a] EXCEPT !.age = @ + 1]
      BY <2>1 DEF Tick
    <3>2. requests[a] \in Entries /\ requests[a].age \in 0..Window
      BY <2>1 DEF Live, Expired
    <3>3. requests'[a] \in [count : Nat, age : Nat] /\ requests'[a].age = requests[a].age + 1
      BY <3>1, <3>2
    <3>4. requests'[a] # NoEntry
      BY <3>3, NoEntryIsNone
    <3>5. since[a] = requests[a].age /\ since[a] # W!Closed
      BY <2>1, <3>2 DEF since, W!Closed
    <3>6. since'[a] = IF requests'[a].age > Window THEN Old ELSE requests'[a].age
      BY <3>4 DEF since, Live, Expired
    <3>7. since'[a] = requests[a].age + 1
      <4>1. since'[a] = requests'[a].age
        <5>1. requests[a].age \in 0..Window /\ requests'[a].age = requests[a].age + 1
          BY <3>2, <3>3
        <5>2. requests'[a].age > Window => requests'[a].age = Window + 1
          BY <5>1 DEF TypeOK
        <5> QED BY <3>6, <5>2 DEF Old
      <4> QED BY <3>3, <4>1
    <3> QED BY <3>5, <3>7
  <2>2. CASE ~Live(a)
    BY <2>2 DEF Tick, since, Live, Expired, Old, W!Closed
  <2> QED BY <2>1, <2>2
<1>2. ASSUME NEW a \in Addresses
      PROVE  used'[a] = IF since'[a] = W!Closed THEN 0 ELSE used[a]
  BY DEF Tick, used, since, Live, Expired, Old, W!Closed
<1>3. since' = [a \in Addresses |-> since'[a]] /\ used' = [a \in Addresses |-> used'[a]]
  BY DEF since, used
<1> QED BY <1>1, <1>2, <1>3 DEF W!Tick

LEMMA CleanupIsNothing ==
  ASSUME TypeOK, Cleanup PROVE UNCHANGED <<used, since>>
<1>1. \A a \in Addresses : Live(a)' = Live(a) /\ (Live(a) => requests'[a] = requests[a])
  BY DEF Cleanup, Live, Expired, TypeOK
<1> QED BY <1>1 DEF used, since

LEMMA NewWindowIsOpen ==
  ASSUME TypeOK, NEW a \in Addresses, NewWindow(a) PROVE W!Open(a)
<1>1. requests'[a] = [count |-> 1, age |-> 0] /\ Live(a)'
  <2>1. requests'[a] = [count |-> 1, age |-> 0]
    BY DEF NewWindow, TypeOK
  <2>2. requests'[a] # NoEntry /\ ~(requests'[a].age > Window)
    BY <2>1, NoEntryIsNone
  <2> QED BY <2>1, <2>2 DEF Live, Expired
<1>2. \A b \in Addresses \ {a} : requests'[b] = requests[b] /\ Live(b)' = Live(b)
  BY DEF NewWindow, Live, Expired, TypeOK
<1>3. since[a] = W!Closed
  BY DEF NewWindow, since, Old, W!Closed, Live
<1>4. used' = [used EXCEPT ![a] = 1]
  <2>1. used'[a] = 1 /\ \A b \in Addresses \ {a} : used'[b] = used[b]
    BY <1>1, <1>2 DEF used
  <2> QED BY <2>1 DEF used
<1>5. since' = [since EXCEPT ![a] = 0]
  <2>1. since'[a] = 0 /\ \A b \in Addresses \ {a} : since'[b] = since[b]
    BY <1>1, <1>2 DEF since
  <2> QED BY <2>1 DEF since
<1> QED BY <1>3, <1>4, <1>5 DEF W!Open

LEMMA CountIsPass ==
  ASSUME TypeOK, NEW a \in Addresses, Count(a) PROVE W!Pass(a)
<1> USE DEF TypeOK, Entries, Ages
<1>1. /\ Live(a) /\ Live(a)'
      /\ requests'[a].count = requests[a].count + 1
      /\ requests'[a].age = requests[a].age
  <2>1. /\ requests'[a].count = requests[a].count + 1
        /\ requests'[a].age = requests[a].age
    BY CountedEntry
  <2>2. requests'[a] # NoEntry
    <3>1. requests'[a] \in [count : Nat, age : Nat]
      BY CountedEntry
    <3> QED BY <3>1, NoEntryIsNone
  <2> QED BY <2>1, <2>2 DEF Count, Live, Expired
<1>2. \A b \in Addresses \ {a} : requests'[b] = requests[b] /\ Live(b)' = Live(b)
  BY DEF Count, Live, Expired
<1>3. since[a] # W!Closed /\ used[a] < Quota
  BY <1>1 DEF Count, since, used, Quota, Live, Expired, W!Closed
<1>4. used' = [used EXCEPT ![a] = used[a] + 1]
  BY <1>1, <1>2 DEF used
<1>5. since' = since
  BY <1>1, <1>2 DEF since
<1> QED BY <1>3, <1>4, <1>5 DEF W!Pass

(* Whatever the limit, the addresses and the times of the cleanups, the    *)
(* limiter implements the windows nobody cleans up: the first request of a *)
(* window passes, and max(1, Limit) in all.                                *)
THEOREM ImplementsWindows == Spec => WindowSpec
<1>1. ASSUME TypeOK, [Next]_vars PROVE [W!Next]_(W!vars)
  <2>1. CASE Tick
    BY <1>1, <2>1, TickIsTick DEF W!Next
  <2>2. CASE Cleanup
    BY <1>1, <2>2, CleanupIsNothing DEF W!vars
  <2>3. ASSUME NEW a \in Addresses, NewWindow(a) PROVE [W!Next]_(W!vars)
    BY <1>1, <2>3, NewWindowIsOpen DEF W!Next
  <2>4. ASSUME NEW a \in Addresses, Count(a) PROVE [W!Next]_(W!vars)
    BY <1>1, <2>4, CountIsPass DEF W!Next
  <2>5. ASSUME NEW a \in Addresses, Refuse(a) PROVE [W!Next]_(W!vars)
    BY <2>5 DEF Refuse, vars, W!vars, used, since, Live, Expired
  <2>6. CASE UNCHANGED vars
    BY <2>6 DEF vars, W!vars, used, since, Live, Expired
  <2> QED BY <1>1, <2>1, <2>2, <2>3, <2>4, <2>5, <2>6 DEF Next
<1> QED BY <1>1, StartsClosed, TypeCorrect, PTL DEF Spec, WindowSpec, W!Spec

-----------------------------------------------------------------------------
(* The inductive invariant of the burst: how many requests a stretch of n  *)
(* ticks saw, by where it begins.  After the opening request of the window *)
(* it sees the others of the window; up to it, all of them; before it, of  *)
(* the window that came first all but the one that opened it, which is     *)
(* more than Window ticks older than the next.  With no window open, n     *)
(* ticks see of the last window all but its opening request.               *)
Seen(entry, n) ==
  IF n < entry.age THEN entry.count - 1
  ELSE IF n = entry.age THEN entry.count
  ELSE entry.count + Quota - 1

Counted(a) ==
  IF Live(a)
  THEN /\ requests[a].count <= Quota
       /\ \A n \in 0..Window : passed[a][n] <= Seen(requests[a], n)
  ELSE \A n \in 0..Window : passed[a][n] <= IF n = 0 THEN 0 ELSE Quota - 1

(* Of every address the stretches are counted.                             *)
Stretches == \A a \in Addresses : Counted(a)

LEMMA QuotaPositive == Quota \in Nat /\ Quota >= 1 /\ (Limit > 0 => Quota = Limit)
BY DEF Quota

LEMMA TickCounts ==
  ASSUME TypeOK, Tick, NEW a \in Addresses, Counted(a)
  PROVE  Counted(a)'
<1> USE DEF Ages, Entries
<1>1. passed[a] \in [0..Window -> Nat]
  BY DEF TypeOK
<1>2. passed'[a][0] = 0 /\ \A n \in 1..Window : passed'[a][n] = passed[a][n - 1]
  BY DEF Tick
<1>3. CASE Live(a)
  <2>1. requests[a] \in Entries /\ requests[a].age \in 0..Window
    BY <1>3 DEF Live, Expired, TypeOK
  <2>2. requests'[a] = [requests[a] EXCEPT !.age = @ + 1]
    BY <1>3 DEF Tick
  <2>3. /\ requests'[a] \in [count : Nat, age : Nat]
        /\ requests'[a].age = requests[a].age + 1
        /\ requests'[a].count = requests[a].count
    BY <2>1, <2>2
  <2>4. /\ requests[a].count <= Quota
        /\ \A n \in 0..Window : passed[a][n] <= Seen(requests[a], n)
    BY <1>3 DEF Counted
  <2>5. Live(a)' <=> requests[a].age < Window
    BY <2>1, <2>3, NoEntryIsNone DEF Live, Expired
  <2>6. passed'[a][0] <= requests[a].count - 1
    BY <1>2, <2>1
  <2>7. ASSUME NEW n \in 1..Window PROVE passed'[a][n] <= Seen(requests[a], n - 1)
    <3>1. n - 1 \in 0..Window
      OBVIOUS
    <3> QED BY <1>2, <2>4, <3>1
  <2>8. CASE Live(a)'
    <3>1. requests'[a].count <= Quota
      BY <2>3, <2>4
    <3>2. ASSUME NEW n \in 0..Window PROVE passed'[a][n] <= Seen(requests'[a], n)
      <4>1. CASE n = 0
        BY <2>1, <2>3, <2>6, <4>1 DEF Seen
      <4>2. CASE n # 0
        <5>1. n \in 1..Window
          BY <4>2
        <5>2. Seen(requests'[a], n) = Seen(requests[a], n - 1)
          BY <2>1, <2>3, <5>1, QuotaPositive DEF Seen
        <5> QED BY <2>7, <5>1, <5>2
      <4> QED BY <4>1, <4>2
    <3> QED BY <2>8, <3>1, <3>2 DEF Counted, Seen, Quota
  <2>9. CASE ~Live(a)'
    <3>1. requests[a].age = Window
      BY <2>1, <2>5, <2>9
    <3>2. ASSUME NEW n \in 1..Window PROVE passed'[a][n] <= Quota - 1
      <4>1. passed'[a][n] <= requests[a].count - 1
        <5>1. n - 1 < requests[a].age
          BY <3>1
        <5>2. Seen(requests[a], n - 1) = requests[a].count - 1
          BY <5>1 DEF Seen
        <5> QED BY <2>7, <5>2
      <4>2. passed'[a][n] \in Nat
        <5>1. n - 1 \in 0..Window
          OBVIOUS
        <5> QED BY <1>1, <1>2, <5>1
      <4> QED BY <2>1, <2>4, <4>1, <4>2, QuotaPositive
    <3>3. \A n \in 0..Window : passed'[a][n] <= IF n = 0 THEN 0 ELSE Quota - 1
      BY <1>2, <3>2
    <3> QED BY <2>9, <3>3 DEF Counted, Quota
  <2> QED BY <2>8, <2>9
<1>4. CASE ~Live(a)
  <2>1. requests'[a] = requests[a]
    BY <1>4 DEF Tick
  <2>2. ~Live(a)'
    BY <1>4, <2>1 DEF Live, Expired
  <2>3. \A n \in 0..Window : passed[a][n] <= IF n = 0 THEN 0 ELSE Quota - 1
    BY <1>4 DEF Counted
  <2>4. ASSUME NEW n \in 0..Window
        PROVE  passed'[a][n] <= IF n = 0 THEN 0 ELSE Quota - 1
    <3>1. CASE n = 0
      BY <1>2, <3>1
    <3>2. CASE n # 0
      <4>1. n - 1 \in 0..Window /\ n \in 1..Window
        BY <3>2
      <4>2. passed'[a][n] = passed[a][n - 1] /\ passed[a][n - 1] \in Nat
        BY <1>1, <1>2, <4>1
      <4>3. passed[a][n - 1] <= Quota - 1
        BY <2>3, <4>1, <4>2, QuotaPositive
      <4> QED BY <3>2, <4>2, <4>3
    <3> QED BY <3>1, <3>2
  <2> QED BY <2>2, <2>4 DEF Counted, Quota
<1> QED BY <1>3, <1>4

(* A request that passes is seen by every stretch of its address, and by   *)
(* none of another.                                                        *)
LEMMA PassSeen ==
  ASSUME TypeOK, NEW a \in Addresses, Passes(a)
  PROVE  /\ \A n \in 0..Window : passed'[a][n] = passed[a][n] + 1
         /\ \A b \in Addresses \ {a} : passed'[b] = passed[b]
<1>1. passed' = [passed EXCEPT ![a] = [n \in 0..Window |-> passed[a][n] + 1]]
  BY DEF Passes
<1> QED BY <1>1 DEF TypeOK

LEMMA SameCounts ==
  ASSUME NEW a \in Addresses, Counted(a),
         requests'[a] = requests[a], passed'[a] = passed[a]
  PROVE  Counted(a)'
BY DEF Counted, Live, Expired, Seen, Quota

LEMMA NewWindowCounts ==
  ASSUME TypeOK, NEW a \in Addresses, NewWindow(a), Counted(a)
  PROVE  Counted(a)'
<1>1. requests'[a] = [count |-> 1, age |-> 0] /\ Live(a)'
  <2>1. requests'[a] = [count |-> 1, age |-> 0]
    BY DEF NewWindow, TypeOK
  <2>2. requests'[a] # NoEntry /\ ~(requests'[a].age > Window)
    BY <2>1, NoEntryIsNone
  <2> QED BY <2>1, <2>2 DEF Live, Expired
<1>2. \A n \in 0..Window : passed'[a][n] = passed[a][n] + 1
  BY PassSeen DEF NewWindow
<1>3. \A n \in 0..Window : passed[a][n] <= IF n = 0 THEN 0 ELSE Quota - 1
  BY DEF NewWindow, Counted
<1>4. \A n \in 0..Window : passed[a][n] \in Nat
  BY DEF TypeOK
<1>5. \A n \in 0..Window : passed'[a][n] <= Seen(requests'[a], n)
  BY <1>1, <1>2, <1>3, <1>4, QuotaPositive DEF Seen
<1> QED BY <1>1, <1>5, QuotaPositive DEF Counted, Seen, Quota

LEMMA CountCounts ==
  ASSUME TypeOK, NEW a \in Addresses, Count(a), Counted(a)
  PROVE  Counted(a)'
<1>1. /\ requests'[a].count = requests[a].count + 1
      /\ requests'[a].age = requests[a].age
      /\ requests[a].count \in Nat \ {0} /\ requests[a].age \in Nat
  BY CountedEntry DEF Entries, Ages
<1>2. Live(a)'
  BY <1>1, CountedEntry, NoEntryIsNone DEF Count, Live, Expired
<1>3. \A n \in 0..Window : passed'[a][n] = passed[a][n] + 1 /\ passed[a][n] \in Nat
  BY PassSeen DEF Count, TypeOK
<1>4. \A n \in 0..Window : passed[a][n] <= Seen(requests[a], n)
  BY DEF Count, Counted
<1>5. requests'[a].count <= Quota
  <2>1. requests[a].count < Limit
    BY DEF Count
  <2>2. Limit > 0 /\ Limit = Quota
    BY <1>1, <2>1, QuotaPositive
  <2> QED BY <1>1, <2>1, <2>2
<1>6. ASSUME NEW n \in 0..Window PROVE passed'[a][n] <= Seen(requests'[a], n)
  <2>1. Seen(requests'[a], n) = Seen(requests[a], n) + 1 /\ Seen(requests[a], n) \in Nat
    BY <1>1, QuotaPositive DEF Seen
  <2> QED BY <1>3, <1>4, <2>1
<1> QED BY <1>2, <1>5, <1>6 DEF Counted, Seen, Quota

LEMMA CleanupCounts ==
  ASSUME TypeOK, Cleanup, NEW a \in Addresses, Counted(a)
  PROVE  Counted(a)'
<1>1. Live(a)' = Live(a) /\ (Live(a) => requests'[a] = requests[a])
  BY DEF Cleanup, Live, Expired, TypeOK
<1>2. passed' = passed
  BY DEF Cleanup
<1> QED BY <1>1, <1>2 DEF Counted, Seen, Quota

(* However windows and cleanups fall, a stretch as long as a window sees   *)
(* less than two quotas of one address.                                    *)
THEOREM TwoQuotas == Spec => []BurstBounded
<1>1. Init => Stretches
  <2> SUFFICES ASSUME Init, NEW a \in Addresses PROVE Counted(a)
    BY DEF Stretches
  <2>1. ~Live(a) /\ \A n \in 0..Window : passed[a][n] = 0
    BY DEF Init, Live
  <2> QED BY <2>1, QuotaPositive DEF Counted
<1>2. TypeOK /\ Stretches /\ [Next]_vars => Stretches'
  <2> SUFFICES ASSUME TypeOK, Stretches, [Next]_vars, NEW b \in Addresses
               PROVE  Counted(b)'
    BY DEF Stretches
  <2>1. Counted(b)
    BY DEF Stretches
  <2>2. CASE Tick
    BY <2>1, <2>2, TickCounts
  <2>3. CASE Cleanup
    BY <2>1, <2>3, CleanupCounts
  <2>4. ASSUME NEW a \in Addresses, NewWindow(a) PROVE Counted(b)'
    <3>1. CASE a = b
      BY <2>1, <2>4, <3>1, NewWindowCounts
    <3>2. CASE a # b
      <4>1. requests'[b] = requests[b] /\ passed'[b] = passed[b]
        BY <2>4, <3>2, PassSeen DEF NewWindow, TypeOK
      <4> QED BY <2>1, <4>1, SameCounts
    <3> QED BY <3>1, <3>2
  <2>5. ASSUME NEW a \in Addresses, Count(a) PROVE Counted(b)'
    <3>1. CASE a = b
      BY <2>1, <2>5, <3>1, CountCounts
    <3>2. CASE a # b
      <4>1. requests'[b] = requests[b] /\ passed'[b] = passed[b]
        BY <2>5, <3>2, PassSeen DEF Count, TypeOK
      <4> QED BY <2>1, <4>1, SameCounts
    <3> QED BY <3>1, <3>2
  <2>6. ASSUME NEW a \in Addresses, Refuse(a) PROVE Counted(b)'
    BY <2>1, <2>6, SameCounts DEF Refuse, vars
  <2>7. CASE UNCHANGED vars
    BY <2>1, <2>7, SameCounts DEF vars
  <2> QED BY <2>2, <2>3, <2>4, <2>5, <2>6, <2>7 DEF Next
<1>3. TypeOK /\ Stretches => BurstBounded
  <2> SUFFICES ASSUME TypeOK, Stretches, NEW a \in Addresses
               PROVE  passed[a][Window] < 2 * Quota
    BY DEF BurstBounded
  <2>1. Counted(a) /\ Window \in 0..Window /\ passed[a][Window] \in Nat
    BY DEF Stretches, TypeOK
  <2>2. CASE ~Live(a)
    BY <2>1, <2>2, QuotaPositive DEF Counted
  <2>3. CASE Live(a)
    <3>1. requests[a].count \in Nat /\ requests[a].age \in Nat
      BY <2>3 DEF Live, TypeOK, Entries, Ages
    <3>2. requests[a].count <= Quota /\ passed[a][Window] <= Seen(requests[a], Window)
      BY <2>1, <2>3 DEF Counted
    <3> QED BY <2>1, <3>1, <3>2, QuotaPositive DEF Seen
  <2> QED BY <2>2, <2>3
<1> QED BY <1>1, <1>2, <1>3, TypeCorrect, PTL DEF Spec
=============================================================================

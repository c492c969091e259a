------------------------------ MODULE RateLimit ------------------------------
(***************************************************************************)
(* internal/middleware/ratelimit.go: a counter per address, opened by its  *)
(* first request and good until resetTime, and a goroutine that deletes    *)
(* what is past it.  main.go does not install it.                          *)
(*                                                                         *)
(* Time is counted in ticks.  Of an entry the age is kept instead of       *)
(* resetTime, which is Window after its creation, so now.After(resetTime)  *)
(* is age > Window, strictly; older than that, ages are alike.             *)
(***************************************************************************)
EXTENDS Naturals

CONSTANTS
  Addresses,  \* c.RealIP()
  Window,     \* the length of a window, in ticks
  Limit,      \* requests per window, as configured: 0 is accepted
  NoEntry     \* the map has no entry for the address

ASSUME WindowPositive == Window \in Nat \ {0}   \* or NewTicker panics
ASSUME LimitNat == Limit \in Nat
ASSUME NoEntryIsNone == NoEntry \notin [count : Nat, age : Nat]

VARIABLES
  requests,   \* the map of the limiter
  phase,      \* ticks since the ticker last fired
  due,        \* the ticker's channel (of capacity 1) holds a tick
  passed      \* history: passed[a][n] requests passed at most n ticks ago

vars == <<requests, phase, due, passed>>

Ages == 0..Window + 1
Old == Window + 1

Expired(entry) == entry.age > Window
Live(a) == requests[a] # NoEntry /\ ~Expired(requests[a])

Init ==
  /\ requests = [a \in Addresses |-> NoEntry]
  /\ phase = 0 /\ due = FALSE
  /\ passed = [a \in Addresses |-> [n \in 0..Window |-> 0]]

Passes(a) == passed' = [passed EXCEPT ![a] = [n \in 0..Window |-> @[n] + 1]]

-----------------------------------------------------------------------------
(* isAllowed, under the lock: what happens to a request of this address    *)

(* A new window starts with this request, whatever the limit.              *)
NewWindow(a) ==
  /\ ~Live(a)
  /\ requests' = [requests EXCEPT ![a] = [count |-> 1, age |-> 0]]
  /\ Passes(a)
  /\ UNCHANGED <<phase, due>>

(* Wrong on purpose: one request too many passes.                          *)
CountOneMore(a) ==
  /\ Live(a) /\ requests[a].count <= Limit
  /\ requests' = [requests EXCEPT ![a].count = @ + 1]
  /\ Passes(a)
  /\ UNCHANGED <<phase, due>>

Count(a) ==
  /\ Live(a) /\ requests[a].count < Limit
  /\ requests' = [requests EXCEPT ![a].count = @ + 1]
  /\ Passes(a)
  /\ UNCHANGED <<phase, due>>

(* StatusTooManyRequests, and the window is not prolonged.                 *)
Refuse(a) ==
  /\ Live(a) /\ requests[a].count >= Limit
  /\ UNCHANGED vars

-----------------------------------------------------------------------------
(* The cleanup goroutine                                                   *)

(* Wrong on purpose: the entry goes with its last tick.                    *)
CleanupTooEarly ==
  /\ due /\ due' = FALSE
  /\ requests' = [a \in Addresses |->
                    IF requests[a] # NoEntry /\ requests[a].age >= Window
                    THEN NoEntry ELSE requests[a]]
  /\ UNCHANGED <<phase, passed>>

(* Wrong on purpose: the expired entries are the ones that are kept.       *)
CleanupReversed ==
  /\ due /\ due' = FALSE
  /\ requests' = [a \in Addresses |-> IF Live(a) THEN NoEntry ELSE requests[a]]
  /\ UNCHANGED <<phase, passed>>

(* Under the lock, some time after the tick.                               *)
Cleanup ==
  /\ due /\ due' = FALSE
  /\ requests' = [a \in Addresses |-> IF Live(a) THEN requests[a] ELSE NoEntry]
  /\ UNCHANGED <<phase, passed>>

(* The clock.  The ticker fires every Window, and drops a tick when the    *)
(* last one has not been received.                                         *)
Tick ==
  /\ requests' = [a \in Addresses |->
                    IF Live(a) THEN [requests[a] EXCEPT !.age = @ + 1] ELSE requests[a]]
  /\ phase' = (phase + 1) % Window
  /\ due' = (due \/ phase' = 0)
  /\ passed' = [a \in Addresses |->
                  [n \in 0..Window |-> IF n = 0 THEN 0 ELSE passed[a][n - 1]]]

Next ==
  \/ Tick \/ Cleanup
  \/ \E a \in Addresses : NewWindow(a) \/ Count(a) \/ Refuse(a)

(* Time passes, and the goroutine gets the lock.                           *)
Spec == Init /\ [][Next]_vars /\ WF_vars(Tick) /\ WF_vars(Cleanup)

-----------------------------------------------------------------------------
Entries == [count : Nat \ {0}, age : Ages]

(* Every variable holds what its declaration says.                         *)
TypeOK ==
  /\ requests \in [Addresses -> Entries \cup {NoEntry}]
  /\ phase \in 0..Window - 1 /\ due \in BOOLEAN
  /\ passed \in [Addresses -> [0..Window -> Nat]]

(* What really passes in a window: the first request does in any case.     *)
Quota == IF Limit = 0 THEN 1 ELSE Limit

(* However windows and cleanups fall, a stretch of Window ticks (both ends *)
(* included) always sees less than two quotas of one address: it meets two *)
(* windows at most, and not the request that opened the first of them.     *)
BurstBounded ==
  \A a \in Addresses : passed[a][Window] < 2 * Quota

(* The cleanup cannot be noticed by any client: the limiter implements the *)
(* windows that nobody cleans up, with the quota above.                    *)
used == [a \in Addresses |-> IF Live(a) THEN requests[a].count ELSE 0]
since == [a \in Addresses |-> IF Live(a) THEN requests[a].age ELSE Old]

W == INSTANCE Windows
WindowSpec == W!Spec

(* The map does not keep an address that has stopped calling: an entry     *)
(* past its window is deleted, or reused by a new request.                 *)
OldOnesGo ==
  \A a \in Addresses :
    (requests[a] # NoEntry /\ ~Live(a)) ~> (requests[a] = NoEntry \/ Live(a))
=============================================================================

----------------------------- MODULE LobbyProofs -----------------------------
(***************************************************************************)
(* The safety properties of Lobby for any number of sessions, connections  *)
(* and requests.                                                           *)
(***************************************************************************)
EXTENDS Lobby, WaitingQueueProofs

-----------------------------------------------------------------------------
(* What a step does to the queue and to what the connections were told.    *)

(* A newcomer's entry is an entry.                                         *)
LEMMA EntryType ==
  ASSUME NEW s \in Sessions, NEW c \in Conns
  PROVE  Entry(s, c) \in QueueEntries
BY DEF Entry, QueueEntries

LEMMA AddType ==
  ASSUME NEW q \in Seq(QueueEntries), NEW s \in Sessions, NEW c \in Conns
  PROVE  Add(q, s, c) \in Seq(QueueEntries)
<1> QED BY EntryType, AppendProperties DEF Add

(* Everybody hears a position and a total.                                 *)
LEMMA BroadcastType ==
  ASSUME NEW q \in Seq(QueueEntries)
  PROVE  BroadcastPositions(q, Conns) \in [Conns -> Updates]
<1>1. ASSUME NEW c \in Conns, \E i \in DOMAIN q : q[i].conn = c
      PROVE  Update(CHOOSE i \in DOMAIN q : q[i].conn = c, Len(q)) \in Updates
  <2>1. (CHOOSE i \in DOMAIN q : q[i].conn = c) \in DOMAIN q
    BY <1>1
  <2>2. DOMAIN q = 1..Len(q) /\ Len(q) \in Nat
    BY LenProperties
  <2> QED BY <2>1, <2>2 DEF Update, Updates
<1>2. NoUpdate \in Updates
  BY DEF NoUpdate, Update, Updates
<1> QED BY <1>1, <1>2 DEF BroadcastPositions

-----------------------------------------------------------------------------
(* Type correctness                                                        *)

LEMMA TypeInit == Init => TypeOK
<1> SUFFICES ASSUME Init PROVE TypeOK
  OBVIOUS
<1>1. queue \in Seq(QueueEntries)
  BY EmptySeq DEF Init
<1>2. told \in [Conns -> Updates]
  BY DEF Init, NoUpdate, Update, Updates
<1> QED BY <1>1, <1>2, DistinctNulls
  DEF Init, TypeOK, Statuses, Waiting, ConnPlaces, ReqPlaces

(* One step per action: what it writes has the declared type, and the      *)
(* session of a connection or request comes and goes with its place.       *)
LEMMA TypeConnStep ==
  ASSUME TypeOK, NEW c \in Conns, ConnStep(c)
  PROVE  TypeOK'
<1>1. CASE UpgradeOk(c)
  BY <1>1 DEF UpgradeOk, TypeOK, ConnAt, ConnTo, connVars, reqVars, ConnPlaces
<1>2. CASE UpgradeFails(c)
  BY <1>2 DEF UpgradeFails, TypeOK, ConnAt, ConnTo, connVars, reqVars, ConnPlaces
<1>3. CASE Attach(c)
  <2>1. userConn' \in [Sessions -> Conns \cup {NoConn}]
    BY <1>3 DEF TypeOK, Attach
  <2> QED BY <1>3, <2>1 DEF Attach, TypeOK, ConnAt, ConnTo, connVars, reqVars, ConnPlaces
<1>4. CASE Enqueue(c)
  <2>1. owner[c] \in Sessions
    BY <1>4 DEF TypeOK, ConnAt, Enqueue
  <2>2. queue' \in Seq(QueueEntries)
    BY <1>4, <2>1, AddType DEF TypeOK, Enqueue
  <2> QED BY <1>4, <2>2 DEF Enqueue, TypeOK, ConnAt, ConnTo, connVars, reqVars, ConnPlaces
<1>5. CASE Announce(c)
  <2>1. told' \in [Conns -> Updates]
    BY <1>5, BroadcastType DEF TypeOK, Announce, Broadcast
  <2> QED BY <1>5, <2>1 DEF Announce, TypeOK, ConnAt, ConnTo, connVars, reqVars, ConnPlaces
<1>6. CASE ReadError(c)
  BY <1>6 DEF ReadError, TypeOK, ConnAt, ConnTo, connVars, reqVars, ConnPlaces
<1>7. CASE CleanupRemove(c)
  <2>1. queue' \in Seq(QueueEntries)
    BY <1>7, LeaveType DEF TypeOK, CleanupRemove
  <2> QED BY <1>7, <2>1 DEF CleanupRemove, TypeOK, ConnAt, ConnTo, connVars, reqVars, ConnPlaces
<1>8. CASE CleanupBroadcast(c)
  <2>1. told' \in [Conns -> Updates]
    BY <1>8, BroadcastType DEF TypeOK, CleanupBroadcast, Broadcast
  <2> QED BY <1>8, <2>1 DEF CleanupBroadcast, TypeOK, ConnAt, ConnTo, connVars, reqVars, ConnPlaces
<1>9. CASE CleanupClose(c)
  BY <1>9 DEF CleanupClose, TypeOK, ConnAt, ConnTo, connVars, reqVars, ConnPlaces
<1> QED BY <1>1, <1>2, <1>3, <1>4, <1>5, <1>6, <1>7, <1>8, <1>9 DEF ConnStep

LEMMA TypeReqStep ==
  ASSUME TypeOK, NEW r \in Reqs, ReqStep(r)
  PROVE  TypeOK'
<1>1. CASE StartPromote(r)
  BY <1>1 DEF StartPromote, SetStatus, Statuses, TypeOK, ReqAt, ReqTo, ReqDone, connVars, ReqPlaces
<1>2. CASE StartRemove(r)
  <2>1. queue' \in Seq(QueueEntries)
    BY <1>2, LeaveType DEF TypeOK, StartRemove
  <2> QED BY <1>2, <2>1 DEF StartRemove, TypeOK, ReqAt, ReqTo, ReqDone, connVars, ReqPlaces
<1>3. CASE StartBroadcast(r)
  <2>1. told' \in [Conns -> Updates]
    BY <1>3, BroadcastType DEF TypeOK, StartBroadcast, Broadcast
  <2> QED BY <1>3, <2>1 DEF StartBroadcast, TypeOK, ReqAt, ReqTo, ReqDone, connVars, ReqPlaces
<1>4. CASE ResultClear(r)
  BY <1>4 DEF ResultClear, SetStatus, Statuses, TypeOK, ReqAt, ReqTo, ReqDone, connVars, ReqPlaces
<1>5. CASE ResultOver(r)
  BY <1>5 DEF ResultOver, SetStatus, Statuses, TypeOK, ReqAt, ReqTo, ReqDone, connVars, ReqPlaces
<1>6. CASE FailTell(r)
  BY <1>6 DEF FailTell, NilCheck, TypeOK, ReqAt, ReqTo, ReqDone, connVars, ReqPlaces
<1>7. CASE FailWrite(r)
  BY <1>7 DEF FailWrite, NilCheck, TypeOK, ReqAt, ReqTo, ReqDone, connVars, ReqPlaces
<1>8. CASE FailReset(r)
  BY <1>8 DEF FailReset, SetStatus, Statuses, TypeOK, ReqAt, ReqTo, ReqDone, connVars, ReqPlaces
<1>9. CASE FailDetach(r)
  BY <1>9 DEF FailDetach, NilCheck, TypeOK, ReqAt, ReqTo, ReqDone, connVars, ReqPlaces
<1>10. CASE FailCapture(r)
  BY <1>10 DEF FailCapture, TypeOK, ReqAt, ReqTo, ReqDone, connVars, ReqPlaces
<1>11. CASE FailForget(r)
  BY <1>11 DEF FailForget, TypeOK, ReqAt, ReqTo, ReqDone, connVars, ReqPlaces
<1>12. CASE FailHangup(r)
  BY <1>12 DEF FailHangup, TypeOK, ReqAt, ReqTo, ReqDone, connVars, ReqPlaces
<1> QED BY <1>1, <1>2, <1>3, <1>4, <1>5, <1>6, <1>7, <1>8, <1>9, <1>10, <1>11, <1>12 DEF ReqStep

LEMMA TypeClientStep ==
  ASSUME TypeOK, ClientStep
  PROVE  TypeOK'
<1>1. ASSUME NEW c \in Conns, NEW s \in Sessions, ConnectFresh(c, s) PROVE TypeOK'
  BY <1>1, DistinctNulls DEF ConnectFresh, ConnAt, TypeOK, reqVars, ConnPlaces, Statuses
<1>2. ASSUME NEW c \in Conns, NEW s \in Sessions, ConnectAgain(c, s) PROVE TypeOK'
  BY <1>2, DistinctNulls DEF ConnectAgain, ConnAt, TypeOK, reqVars, ConnPlaces
<1>3. ASSUME NEW c \in Conns, ClientLeaves(c) PROVE TypeOK'
  BY <1>3 DEF ClientLeaves, TypeOK, connVars, reqVars
<1>4. ASSUME NEW c \in Conns, ReadDeadline(c) PROVE TypeOK'
  BY <1>4 DEF ReadDeadline, ConnAt, ConnTo, TypeOK, reqVars, ConnPlaces
<1>5. ASSUME NEW r \in Reqs, NEW s \in Sessions, NEW call,
             NEW place \in ReqPlaces \ {"idle", "forget", "hangup"},
             BeginRequest(r, s, call, place)
      PROVE  TypeOK'
  BY <1>5, DistinctNulls DEF BeginRequest, ReqAt, TypeOK, connVars
<1>6. ASSUME NEW r \in Reqs, NEW s \in Sessions,
             StartCheck(r, s) \/ ResultCheck(r, s) \/ FailSubmit(r, s) \/ FailAttempts(r, s)
      PROVE  TypeOK'
  BY <1>5, <1>6 DEF StartCheck, ResultCheck, FailSubmit, FailAttempts, ReqPlaces
<1>7. ASSUME NEW s \in Sessions, CaptchaSolved(s) PROVE TypeOK'
  BY <1>7 DEF CaptchaSolved, TypeOK, connVars, reqVars, Statuses
<1> QED BY <1>1, <1>2, <1>3, <1>4, <1>6, <1>7 DEF ClientStep

LEMMA TypeNext == TypeOK /\ [Next]_vars => TypeOK'
<1>1. ASSUME TypeOK, UNCHANGED vars PROVE TypeOK'
  BY <1>1 DEF TypeOK, vars
<1> QED BY <1>1, TypeConnStep, TypeReqStep, TypeClientStep DEF Next

(* Every variable of the server keeps its type, however many goroutines    *)
(* interleave: no handler acts for a request without a session, and no     *)
(* connection is held captured outside the failure path's last two steps.  *)
THEOREM TypeCorrect == Spec => []TypeOK
<1> QED BY TypeInit, TypeNext, PTL DEF Spec

-----------------------------------------------------------------------------
(* The three things a step can do to the line                              *)

NotYetQueued(c) == cpc[c] \in {"new", "upgrade", "attach", "enqueue"}

(* The line stands; a broadcast tells where, or nothing new is said and a  *)
(* broadcast that is owed remains owed.                                    *)
KeepsQueue ==
  /\ UNCHANGED queue
  /\ \A c \in Conns : NotYetQueued(c)' => NotYetQueued(c)
  /\ told' = BroadcastPositions(queue, Conns) \/ (UNCHANGED told /\ (BroadcastOwed => BroadcastOwed'))

(* Somebody is taken out, and whoever did it owes the broadcast.           *)
TakesOut ==
  /\ \E s \in Sessions : queue' = Leave(queue, s)
  /\ \A c \in Conns : NotYetQueued(c)' => NotYetQueued(c)
  /\ BroadcastOwed'

LEMMA ConnQueueStep ==
  ASSUME TypeOK, NEW c \in Conns, ConnStep(c)
  PROVE  KeepsQueue \/ TakesOut \/ Enqueue(c)
<1>0. cpc \in [Conns -> ConnPlaces] /\ rpc \in [Reqs -> ReqPlaces]
  BY DEF TypeOK
<1>1. CASE UpgradeOk(c)
  BY <1>0, <1>1 DEF UpgradeOk, ConnAt, ConnTo, reqVars, KeepsQueue, NotYetQueued, BroadcastOwed
<1>2. CASE UpgradeFails(c)
  BY <1>0, <1>2 DEF UpgradeFails, ConnAt, ConnTo, reqVars, KeepsQueue, NotYetQueued, BroadcastOwed
<1>3. CASE Attach(c)
  BY <1>0, <1>3 DEF Attach, ConnAt, ConnTo, reqVars, KeepsQueue, NotYetQueued, BroadcastOwed
<1>4. CASE Announce(c)
  BY <1>0, <1>4 DEF Announce, Broadcast, ConnAt, ConnTo, reqVars, KeepsQueue, NotYetQueued, BroadcastOwed
<1>5. CASE ReadError(c)
  BY <1>0, <1>5 DEF ReadError, ConnAt, ConnTo, reqVars, KeepsQueue, NotYetQueued, BroadcastOwed
<1>6. CASE CleanupRemove(c)
  <2>1. owner[c] \in Sessions
    BY <1>6 DEF TypeOK, CleanupRemove, ConnAt
  <2>2. cpc' = [cpc EXCEPT ![c] = "reannounce"] /\ cpc[c] = "leave"
    BY <1>6 DEF CleanupRemove, ConnTo, ConnAt
  <2>3. BroadcastOwed' /\ \A d \in Conns : NotYetQueued(d)' => NotYetQueued(d)
    BY <1>0, <2>2 DEF BroadcastOwed, NotYetQueued
  <2> QED BY <1>6, <2>1, <2>3 DEF CleanupRemove, TakesOut
<1>7. CASE CleanupBroadcast(c)
  BY <1>0, <1>7 DEF CleanupBroadcast, Broadcast, ConnAt, ConnTo, reqVars, KeepsQueue, NotYetQueued, BroadcastOwed
<1>8. CASE CleanupClose(c)
  BY <1>0, <1>8 DEF CleanupClose, ConnAt, ConnTo, reqVars, KeepsQueue, NotYetQueued, BroadcastOwed
<1> QED BY <1>1, <1>2, <1>3, <1>4, <1>5, <1>6, <1>7, <1>8 DEF ConnStep

LEMMA ReqQueueStep ==
  ASSUME TypeOK, NEW r \in Reqs, ReqStep(r)
  PROVE  KeepsQueue \/ TakesOut
<1>0. cpc \in [Conns -> ConnPlaces] /\ rpc \in [Reqs -> ReqPlaces]
  BY DEF TypeOK
<1>1. CASE StartRemove(r)
  <2>1. rsess[r] \in Sessions
    BY <1>1 DEF TypeOK, StartRemove, ReqAt
  <2>2. rpc' = [rpc EXCEPT ![r] = "announce"] /\ UNCHANGED cpc
    BY <1>1 DEF StartRemove, ReqTo, connVars
  <2>3. BroadcastOwed' /\ \A d \in Conns : NotYetQueued(d)' => NotYetQueued(d)
    BY <1>0, <2>2 DEF BroadcastOwed, NotYetQueued
  <2> QED BY <1>1, <2>1, <2>3 DEF StartRemove, TakesOut
<1>2. CASE StartBroadcast(r)
  BY <1>0, <1>2 DEF StartBroadcast, Broadcast, ReqAt, connVars, KeepsQueue, NotYetQueued
(* Every other step of a request leaves the line and its updates alone.    *)
<1>3. ASSUME UNCHANGED <<queue, told, cpc>>, rpc[r] # "announce",
             NEW place \in ReqPlaces, rpc' = [rpc EXCEPT ![r] = place]
      PROVE  KeepsQueue
  BY <1>0, <1>3 DEF KeepsQueue, NotYetQueued, BroadcastOwed
<1>4. CASE StartPromote(r)
  BY <1>3, <1>4 DEF StartPromote, ReqAt, ReqTo, ReqDone, ReqPlaces, connVars
<1>5. CASE ResultClear(r)
  BY <1>3, <1>5 DEF ResultClear, ReqAt, ReqTo, ReqDone, ReqPlaces, connVars
<1>6. CASE ResultOver(r)
  BY <1>3, <1>6 DEF ResultOver, ReqAt, ReqTo, ReqDone, ReqPlaces, connVars
<1>7. CASE FailTell(r)
  BY <1>3, <1>7 DEF FailTell, NilCheck, ReqAt, ReqTo, ReqDone, ReqPlaces, connVars
<1>8. CASE FailWrite(r)
  BY <1>3, <1>8 DEF FailWrite, NilCheck, ReqAt, ReqTo, ReqDone, ReqPlaces, connVars
<1>9. CASE FailReset(r)
  BY <1>3, <1>9 DEF FailReset, ReqAt, ReqTo, ReqDone, ReqPlaces, connVars
<1>10. CASE FailDetach(r)
  BY <1>3, <1>10 DEF FailDetach, NilCheck, ReqAt, ReqTo, ReqDone, ReqPlaces, connVars
<1>11. CASE FailCapture(r)
  BY <1>3, <1>11 DEF FailCapture, ReqAt, ReqTo, ReqDone, ReqPlaces, connVars
<1>12. CASE FailForget(r)
  BY <1>3, <1>12 DEF FailForget, ReqAt, ReqTo, ReqDone, ReqPlaces, connVars
<1>13. CASE FailHangup(r)
  BY <1>3, <1>13 DEF FailHangup, ReqAt, ReqTo, ReqDone, ReqPlaces, connVars
<1> QED BY <1>1, <1>2, <1>4, <1>5, <1>6, <1>7, <1>8, <1>9, <1>10, <1>11, <1>12, <1>13 DEF ReqStep

LEMMA ClientQueueStep ==
  ASSUME TypeOK, ClientStep
  PROVE  KeepsQueue
<1>0. cpc \in [Conns -> ConnPlaces] /\ rpc \in [Reqs -> ReqPlaces]
  BY DEF TypeOK
<1>1. ASSUME NEW c \in Conns, NEW s \in Sessions,
             ConnectFresh(c, s) \/ ConnectAgain(c, s)
      PROVE  KeepsQueue
  BY <1>0, <1>1 DEF ConnectFresh, ConnectAgain, ConnAt, reqVars, KeepsQueue, NotYetQueued, BroadcastOwed
<1>2. ASSUME NEW c \in Conns, ClientLeaves(c) \/ ReadDeadline(c) PROVE KeepsQueue
  BY <1>0, <1>2 DEF ClientLeaves, ReadDeadline, ConnAt, ConnTo, connVars, reqVars,
                    KeepsQueue, NotYetQueued, BroadcastOwed
<1>3. ASSUME NEW r \in Reqs, NEW s \in Sessions, NEW call, NEW place,
             BeginRequest(r, s, call, place)
      PROVE  KeepsQueue
  BY <1>0, <1>3 DEF BeginRequest, ReqAt, connVars, KeepsQueue, NotYetQueued, BroadcastOwed
<1>4. ASSUME NEW r \in Reqs, NEW s \in Sessions,
             StartCheck(r, s) \/ ResultCheck(r, s) \/ FailSubmit(r, s) \/ FailAttempts(r, s)
      PROVE  KeepsQueue
  BY <1>3, <1>4 DEF StartCheck, ResultCheck, FailSubmit, FailAttempts
<1>5. ASSUME NEW s \in Sessions, CaptchaSolved(s) PROVE KeepsQueue
  BY <1>5 DEF CaptchaSolved, connVars, reqVars, KeepsQueue, NotYetQueued, BroadcastOwed
<1> QED BY <1>1, <1>2, <1>4, <1>5 DEF ClientStep

LEMMA QueueSteps ==
  TypeOK /\ [Next]_vars => KeepsQueue \/ TakesOut \/ \E c \in Conns : Enqueue(c)
<1>1. ASSUME UNCHANGED vars PROVE KeepsQueue
  BY <1>1 DEF vars, KeepsQueue, NotYetQueued, BroadcastOwed
<1> QED BY <1>1, ConnQueueStep, ReqQueueStep, ClientQueueStep DEF Next

-----------------------------------------------------------------------------
(* Once in the line                                                        *)

LEMMA OnceNext == TypeOK /\ QueuedOnce /\ [Next]_vars => QueuedOnce'
<1> SUFFICES ASSUME TypeOK, QueuedOnce, [Next]_vars PROVE QueuedOnce'
  OBVIOUS
<1>0. queue \in Seq(QueueEntries) /\ NoTwice(queue)
  BY DEF TypeOK, QueuedOnce, NoTwice
<1>1. CASE KeepsQueue
  BY <1>1 DEF KeepsQueue, QueuedOnce, NotYetQueued, Queued
<1>2. CASE TakesOut
  <2>1. PICK s \in Sessions : queue' = Leave(queue, s)
    BY <1>2 DEF TakesOut
  <2>2. NoTwice(queue') /\ \A i \in DOMAIN queue' : \E j \in DOMAIN queue : queue'[i] = queue[j]
    BY <1>0, <2>1, LeaveKeepsApart
  <2> QED BY <1>2, <2>2 DEF TakesOut, QueuedOnce, NotYetQueued, Queued, NoTwice
<1>3. ASSUME NEW c \in Conns, Enqueue(c) PROVE QueuedOnce'
  <2>1. cpc[c] = "enqueue" /\ owner[c] \in Sessions /\ ~Queued(c)
    BY <1>3 DEF Enqueue, ConnAt, TypeOK, QueuedOnce
  <2>2. queue' = Add(queue, owner[c], c) /\ cpc' = [cpc EXCEPT ![c] = "announce"]
    BY <1>3 DEF Enqueue, ConnTo
  <2>3. /\ NoTwice(queue')
        /\ \A i \in DOMAIN queue' :
             queue'[i] = Entry(owner[c], c) \/ \E j \in DOMAIN queue : queue'[i] = queue[j]
    BY <1>0, <2>1, <2>2, AddKeepsApart, EntryType DEF Queued
  <2>4. ASSUME NEW d \in Conns, NotYetQueued(d)' PROVE ~Queued(d)'
    <3>1. d # c /\ NotYetQueued(d)
      BY <2>2, <2>4 DEF NotYetQueued, TypeOK
    <3>2. ~Queued(d)
      BY <3>1 DEF QueuedOnce, NotYetQueued
    <3> QED BY <2>3, <3>1, <3>2 DEF Queued, Entry
  <2> QED BY <2>3, <2>4 DEF QueuedOnce, NoTwice, NotYetQueued
<1> QED BY <1>1, <1>2, <1>3, QueueSteps

(* A connection never stands in the line twice, and never before its       *)
(* Connect has put it there.                                               *)
THEOREM OncePerConnection == Spec => []QueuedOnce
<1>1. Init => QueuedOnce
  BY DEF Init, QueuedOnce, Queued
<1>2. TypeOK /\ TypeOK' /\ QueuedOnce /\ [Next]_vars => QueuedOnce'
  BY OnceNext
<1> QED BY <1>1, <1>2, TypeCorrect, PTL DEF Spec

-----------------------------------------------------------------------------
(* Fresh positions                                                         *)

LEMMA FreshNext ==
  TypeOK /\ QueuedOnce /\ PositionsFresh /\ [Next]_vars => PositionsFresh'
<1> SUFFICES ASSUME TypeOK, QueuedOnce, PositionsFresh, [Next]_vars PROVE PositionsFresh'
  OBVIOUS
<1>1. CASE KeepsQueue
  <2>1. CASE told' = BroadcastPositions(queue, Conns)
    <3>1. queue \in Seq(QueueEntries) /\ NoTwice(queue)
      BY DEF TypeOK, QueuedOnce, NoTwice
    <3>2. ASSUME NEW i \in DOMAIN queue PROVE told'[queue[i].conn] = Update(i, Len(queue))
      <4>1. queue[i].conn \in Conns
        <5>1. queue[i] \in QueueEntries
          BY <3>1, ElementOfSeq, LenProperties
        <5> QED BY <5>1 DEF QueueEntries
      <4> QED BY <2>1, <3>1, <4>1, BroadcastTellsTheTruth
    <3> QED BY <1>1, <3>2 DEF KeepsQueue, PositionsFresh, ToldTheTruth
  <2>2. CASE UNCHANGED told /\ (BroadcastOwed => BroadcastOwed')
    BY <1>1, <2>2 DEF KeepsQueue, PositionsFresh, ToldTheTruth
  <2> QED BY <1>1, <2>1, <2>2 DEF KeepsQueue
<1>2. CASE TakesOut
  BY <1>2 DEF TakesOut, PositionsFresh
<1>3. ASSUME NEW c \in Conns, Enqueue(c) PROVE PositionsFresh'
  <2>1. cpc'[c] = "announce"
    BY <1>3 DEF Enqueue, ConnTo, TypeOK
  <2> QED BY <2>1 DEF PositionsFresh, BroadcastOwed
<1> QED BY <1>1, <1>2, <1>3, QueueSteps

(* Whenever no goroutine is between its change of the line and its         *)
(* broadcast, every connection in the line was last told the position and  *)
(* the total it really has: for any number of players joining, leaving,    *)
(* reconnecting and being promoted at the same time.                       *)
THEOREM PositionsAreFresh == Spec => []PositionsFresh
<1>1. Init => PositionsFresh
  BY DEF Init, PositionsFresh, ToldTheTruth
<1>2. TypeOK /\ QueuedOnce /\ PositionsFresh /\ [Next]_vars => PositionsFresh'
  BY FreshNext
<1> QED BY <1>1, <1>2, TypeCorrect, OncePerConnection, PTL DEF Spec

-----------------------------------------------------------------------------
(* Whose a connection is                                                   *)

(* A connection keeps the session that its Connect found for it.           *)
LEMMA OwnersStay ==
  ASSUME TypeOK, [Next]_vars, NEW d \in Conns, owner[d] # NoSession
  PROVE  owner'[d] = owner[d]
<1>1. ASSUME NEW c \in Conns, NEW s \in Sessions, ConnectFresh(c, s) \/ ConnectAgain(c, s)
      PROVE  owner'[d] = owner[d]
  <2>1. cpc[c] = "new" /\ owner' = [owner EXCEPT ![c] = s]
    BY <1>1 DEF ConnectFresh, ConnectAgain, ConnAt
  <2>2. owner[c] = NoSession
    BY <2>1 DEF TypeOK
  <2> QED BY <2>1, <2>2 DEF TypeOK
<1>2. ASSUME NEW c \in Conns, ClientLeaves(c) \/ ReadDeadline(c) PROVE owner' = owner
  BY <1>2 DEF ClientLeaves, ReadDeadline, ConnTo, connVars
<1>3. ASSUME NEW r \in Reqs, NEW s \in Sessions,
             StartCheck(r, s) \/ ResultCheck(r, s) \/ FailSubmit(r, s) \/ FailAttempts(r, s)
      PROVE  owner' = owner
  BY <1>3 DEF StartCheck, ResultCheck, FailSubmit, FailAttempts, BeginRequest, connVars
<1>4. ASSUME NEW s \in Sessions, CaptchaSolved(s) PROVE owner' = owner
  BY <1>4 DEF CaptchaSolved, connVars
<1>5. ASSUME NEW c \in Conns, ConnStep(c) PROVE owner' = owner
  BY <1>5 DEF ConnStep, UpgradeOk, UpgradeFails, Attach, Enqueue, Announce, ReadError,
              CleanupRemove, CleanupBroadcast, CleanupClose, ConnTo
<1>6. ASSUME NEW r \in Reqs, ReqStep(r) PROVE owner' = owner
  BY <1>6 DEF ReqStep, StartPromote, StartRemove, StartBroadcast, ResultClear, ResultOver,
              FailTell, FailWrite, FailReset, FailDetach, FailCapture, FailForget,
              FailHangup, NilCheck, connVars
<1>7. CASE UNCHANGED vars
  BY <1>7 DEF vars
<1> QED BY <1>1, <1>2, <1>3, <1>4, <1>5, <1>6, <1>7 DEF Next, ClientStep

(* What User.Conn may become: what it was, a connection of its own user,   *)
(* or nil, and that by one handler only.                                   *)
LEMMA UserConnSteps ==
  ASSUME TypeOK, [Next]_vars
  PROVE  \/ UNCHANGED userConn
         \/ \E c \in Conns : /\ Attach(c) /\ owner[c] \in Sessions
                             /\ userConn' = [userConn EXCEPT ![owner[c]] = c]
         \/ \E r \in Reqs : /\ FailForget(r) /\ rsess[r] \in Sessions
                            /\ userConn' = [userConn EXCEPT ![rsess[r]] = NoConn]
<1>1. CASE ClientStep
  BY <1>1 DEF ClientStep, ConnectFresh, ConnectAgain, ClientLeaves, ReadDeadline, StartCheck,
              ResultCheck, FailSubmit, FailAttempts, BeginRequest, CaptchaSolved
<1>2. ASSUME NEW c \in Conns, ConnStep(c), ~Attach(c) PROVE UNCHANGED userConn
  BY <1>2 DEF ConnStep, UpgradeOk, UpgradeFails, Enqueue, Announce, ReadError,
              CleanupRemove, CleanupBroadcast, CleanupClose
<1>3. ASSUME NEW c \in Conns, Attach(c)
      PROVE  owner[c] \in Sessions /\ userConn' = [userConn EXCEPT ![owner[c]] = c]
  BY <1>3 DEF Attach, ConnAt, TypeOK
<1>4. ASSUME NEW r \in Reqs, ReqStep(r), ~FailForget(r) PROVE UNCHANGED userConn
  BY <1>4 DEF ReqStep, StartPromote, StartRemove, StartBroadcast, ResultClear, ResultOver,
              FailTell, FailWrite, FailReset, FailDetach, FailCapture, FailHangup, NilCheck
<1>5. ASSUME NEW r \in Reqs, FailForget(r)
      PROVE  rsess[r] \in Sessions /\ userConn' = [userConn EXCEPT ![rsess[r]] = NoConn]
  BY <1>5 DEF FailForget, ReqAt, TypeOK
<1>6. CASE UNCHANGED vars
  BY <1>6 DEF vars
<1> QED BY <1>1, <1>2, <1>3, <1>4, <1>5, <1>6 DEF Next

(* What a request holds captured: nothing, what it held, or what User.Conn *)
(* of its session is right now.                                            *)
LEMMA CapturedSteps ==
  ASSUME TypeOK, [Next]_vars, NEW q \in Reqs
  PROVE  \/ rconn'[q] = NoConn
         \/ rconn'[q] = rconn[q] /\ rsess'[q] = rsess[q]
         \/ FailCapture(q) /\ rconn'[q] = userConn[rsess[q]] /\ rsess'[q] = rsess[q]
<1> USE DEF TypeOK
<1>1. ASSUME NEW c \in Conns, ConnStep(c) PROVE UNCHANGED <<rconn, rsess>>
  BY <1>1 DEF ConnStep, UpgradeOk, UpgradeFails, Attach, Enqueue, Announce, ReadError,
              CleanupRemove, CleanupBroadcast, CleanupClose, reqVars
<1>2. ASSUME NEW r \in Reqs, NEW s \in Sessions,
             StartCheck(r, s) \/ ResultCheck(r, s) \/ FailSubmit(r, s) \/ FailAttempts(r, s)
      PROVE  rconn'[q] = NoConn \/ (rconn'[q] = rconn[q] /\ rsess'[q] = rsess[q])
  <2>1. rpc[r] = "idle" /\ rsess' = [rsess EXCEPT ![r] = s] /\ rconn' = rconn
    BY <1>2 DEF StartCheck, ResultCheck, FailSubmit, FailAttempts, BeginRequest, ReqAt
  <2>2. CASE q = r
    BY <2>1, <2>2
  <2>3. CASE q # r
    BY <2>1, <2>3
  <2> QED BY <2>2, <2>3
<1>3. CASE ClientStep
  BY <1>2, <1>3 DEF ClientStep, ConnectFresh, ConnectAgain, ClientLeaves, ReadDeadline,
              CaptchaSolved, reqVars
<1>4. ASSUME NEW r \in Reqs, FailCapture(r)
      PROVE  /\ rsess'[q] = rsess[q]
             /\ rconn'[q] = rconn[q] \/ (q = r /\ rconn'[q] = userConn[rsess[q]])
  BY <1>4 DEF FailCapture
<1>5. ASSUME NEW r \in Reqs, ReqStep(r), ~FailCapture(r)
      PROVE  rconn'[q] = NoConn \/ (rconn'[q] = rconn[q] /\ rsess'[q] = rsess[q])
  BY <1>5 DEF ReqStep, StartPromote, StartRemove, StartBroadcast, ResultClear, ResultOver,
              FailTell, FailWrite, FailReset, FailDetach, FailForget, FailHangup, NilCheck,
              ReqTo, ReqDone
<1>6. CASE UNCHANGED vars
  BY <1>6 DEF vars
<1> QED BY <1>1, <1>3, <1>4, <1>5, <1>6 DEF Next

EntriesOwned == \A i \in DOMAIN queue : queue[i].id = owner[queue[i].conn]

LEMMA EntriesOwnedNext ==
  TypeOK /\ QueuedOnce /\ EntriesOwned /\ [Next]_vars => EntriesOwned'
<1> SUFFICES ASSUME TypeOK, QueuedOnce, EntriesOwned, [Next]_vars PROVE EntriesOwned'
  OBVIOUS
<1>0. queue \in Seq(QueueEntries) /\ NoTwice(queue)
  BY DEF TypeOK, QueuedOnce, NoTwice
(* The entries that were there are as good as they were.                   *)
<1>1. ASSUME NEW i \in DOMAIN queue
      PROVE  queue[i].id = owner'[queue[i].conn]
  <2>1. queue[i] \in QueueEntries
    BY <1>0, ElementOfSeq, LenProperties
  <2>2. queue[i].conn \in Conns /\ owner[queue[i].conn] # NoSession
    BY <2>1, DistinctNulls DEF QueueEntries, EntriesOwned
  <2> QED BY <2>2, OwnersStay DEF EntriesOwned
<1>2. CASE UNCHANGED queue
  BY <1>1, <1>2 DEF EntriesOwned
<1>3. ASSUME NEW s \in Sessions, queue' = Leave(queue, s) PROVE EntriesOwned'
  <2>1. \A i \in DOMAIN queue' : \E j \in DOMAIN queue : queue'[i] = queue[j]
    BY <1>0, <1>3, LeaveKeepsApart
  <2> QED BY <1>1, <2>1 DEF EntriesOwned
<1>4. ASSUME NEW c \in Conns, Enqueue(c) PROVE EntriesOwned'
  <2>1. owner[c] \in Sessions /\ ~Queued(c) /\ queue' = Add(queue, owner[c], c) /\ owner' = owner
    BY <1>4 DEF Enqueue, ConnAt, ConnTo, TypeOK, QueuedOnce
  <2>2. \A i \in DOMAIN queue' :
          queue'[i] = Entry(owner[c], c) \/ \E j \in DOMAIN queue : queue'[i] = queue[j]
    BY <1>0, <2>1, AddKeepsApart, EntryType DEF Queued
  <2> QED BY <1>1, <2>1, <2>2 DEF EntriesOwned, Entry
<1> QED BY <1>2, <1>3, <1>4, QueueSteps DEF KeepsQueue, TakesOut

LEMMA OwnNext ==
  TypeOK /\ QueuedOnce /\ OwnConnection /\ [Next]_vars => OwnConnection'
<1> SUFFICES ASSUME TypeOK, QueuedOnce, OwnConnection, [Next]_vars PROVE OwnConnection'
  OBVIOUS
<1>1. EntriesOwned'
  BY EntriesOwnedNext DEF OwnConnection, EntriesOwned
<1>2. ASSUME NEW s \in Sessions PROVE (userConn[s] = NoConn \/ owner[userConn[s]] = s)'
  <2>1. ASSUME userConn[s] # NoConn PROVE owner'[userConn[s]] = s
    <3>1. userConn[s] \in Conns /\ owner[userConn[s]] = s
      BY <2>1 DEF TypeOK, OwnConnection
    <3> QED BY <3>1, OwnersStay, DistinctNulls
  <2>2. ASSUME NEW c \in Conns, owner[c] \in Sessions,
               userConn' = [userConn EXCEPT ![owner[c]] = c]
        PROVE  (userConn[s] = NoConn \/ owner[userConn[s]] = s)'
    <3>1. owner'[c] = owner[c]
      BY <2>2, OwnersStay, DistinctNulls
    <3> QED BY <2>1, <2>2, <3>1 DEF TypeOK
  <2>3. ASSUME NEW r \in Reqs, userConn' = [userConn EXCEPT ![rsess[r]] = NoConn]
        PROVE  (userConn[s] = NoConn \/ owner[userConn[s]] = s)'
    BY <2>1, <2>3 DEF TypeOK
  <2> QED BY <2>1, <2>2, <2>3, UserConnSteps
<1>3. ASSUME NEW r \in Reqs PROVE (rconn[r] = NoConn \/ owner[rconn[r]] = rsess[r])'
  <2>1. ASSUME NEW c \in Conns, NEW s \in Sessions, owner[c] = s PROVE owner'[c] = s
    BY <2>1, OwnersStay, DistinctNulls
  <2>2. CASE rconn'[r] = rconn[r] /\ rsess'[r] = rsess[r] /\ rconn[r] # NoConn
    <3>1. rconn[r] \in Conns /\ owner[rconn[r]] = rsess[r] /\ rpc[r] \in {"forget", "hangup"}
      BY <2>2 DEF TypeOK, OwnConnection
    <3>2. rsess[r] \in Sessions
      BY <3>1 DEF TypeOK
    <3> QED BY <2>1, <2>2, <3>1, <3>2
  <2>3. CASE FailCapture(r) /\ rconn'[r] = userConn[rsess[r]] /\ rsess'[r] = rsess[r]
    <3>1. rsess[r] \in Sessions
      BY <2>3 DEF FailCapture, ReqAt, TypeOK
    <3>2. userConn[rsess[r]] = NoConn \/ (userConn[rsess[r]] \in Conns /\ owner[userConn[rsess[r]]] = rsess[r])
      BY <3>1 DEF TypeOK, OwnConnection
    <3> QED BY <2>1, <2>3, <3>1, <3>2
  <2> QED BY <2>2, <2>3, CapturedSteps
<1> QED BY <1>1, <1>2, <1>3 DEF OwnConnection, EntriesOwned

(* Nobody is ever served through, promoted with, or ejected by closing,    *)
(* somebody else's connection: queue entries, User.Conn and what the       *)
(* failure path captured belong to the session they are used for.          *)
THEOREM ConnectionsAreOwn == Spec => []OwnConnection
<1>1. Init => OwnConnection
  BY DEF Init, OwnConnection
<1>2. TypeOK /\ QueuedOnce /\ OwnConnection /\ [Next]_vars => OwnConnection'
  BY OwnNext
<1> QED BY <1>1, <1>2, TypeCorrect, OncePerConnection, PTL DEF Spec

-----------------------------------------------------------------------------
(* The failure path does not end the process                               *)

(* A session has one request in progress at most, others have theirs.      *)
OneRequestEach ==
  \A r, q \in Reqs : rsess[r] = rsess[q] /\ rsess[r] # NoSession => r = q

(* Between the second nil check and the Close there is a connection.       *)
HoldsConnection ==
  \A r \in Reqs :
    /\ rpc[r] = "capture" => userConn[rsess[r]] # NoConn
    /\ rpc[r] \in {"forget", "hangup"} => rconn[r] # NoConn

LEMMA UpSteps ==
  ASSUME [Next]_vars
  PROVE  UNCHANGED up \/ \E r \in Reqs : ReqAt(r, "hangup") /\ (up' = up \/ rconn[r] = NoConn)
<1>1. CASE ClientStep
  BY <1>1 DEF ClientStep, ConnectFresh, ConnectAgain, ClientLeaves, ReadDeadline, StartCheck,
              ResultCheck, FailSubmit, FailAttempts, BeginRequest, CaptchaSolved
<1>2. ASSUME NEW c \in Conns, ConnStep(c) PROVE UNCHANGED up
  BY <1>2 DEF ConnStep, UpgradeOk, UpgradeFails, Attach, Enqueue, Announce, ReadError,
              CleanupRemove, CleanupBroadcast, CleanupClose
<1>3. ASSUME NEW r \in Reqs, ReqStep(r), ~FailHangup(r) PROVE UNCHANGED up
  BY <1>3 DEF ReqStep, StartPromote, StartRemove, StartBroadcast, ResultClear, ResultOver,
              FailTell, FailWrite, FailReset, FailDetach, FailCapture, FailForget, NilCheck
<1>4. ASSUME NEW r \in Reqs, FailHangup(r)
      PROVE  ReqAt(r, "hangup") /\ (up' = up \/ rconn[r] = NoConn)
  BY <1>4 DEF FailHangup
<1>5. CASE UNCHANGED vars
  BY <1>5 DEF vars
<1> QED BY <1>1, <1>2, <1>3, <1>4, <1>5 DEF Next

(* A request comes to these places from one place each.                    *)
LEMMA FailPlaces ==
  ASSUME TypeOK, [Next]_vars, NEW q \in Reqs
  PROVE  /\ rpc'[q] = "capture" =>
              /\ rsess'[q] = rsess[q]
              /\ rpc[q] = "capture" \/ (rpc[q] = "detach" /\ UNCHANGED userConn
                                        /\ userConn[rsess[q]] # NoConn)
         /\ rpc'[q] = "forget" =>
              \/ rpc[q] = "forget" /\ rconn'[q] = rconn[q]
              \/ rpc[q] = "capture" /\ rconn'[q] = userConn[rsess[q]]
         /\ rpc'[q] = "hangup" =>
              rpc[q] \in {"forget", "hangup"} /\ rconn'[q] = rconn[q]
<1> DEFINE Goal ==
       /\ rpc'[q] = "capture" =>
            /\ rsess'[q] = rsess[q]
            /\ rpc[q] = "capture" \/ (rpc[q] = "detach" /\ UNCHANGED userConn
                                      /\ userConn[rsess[q]] # NoConn)
       /\ rpc'[q] = "forget" =>
            \/ rpc[q] = "forget" /\ rconn'[q] = rconn[q]
            \/ rpc[q] = "capture" /\ rconn'[q] = userConn[rsess[q]]
       /\ rpc'[q] = "hangup" =>
            rpc[q] \in {"forget", "hangup"} /\ rconn'[q] = rconn[q]
<1> USE DEF TypeOK
<1>1. ASSUME NEW r \in Reqs, NEW s, NEW call,
             NEW place \in ReqPlaces \ {"capture", "forget", "hangup"},
             BeginRequest(r, s, call, place)
      PROVE  Goal
  BY <1>1 DEF BeginRequest, ReqAt
<1>2. CASE ClientStep
  <2>1. ASSUME NEW r \in Reqs, NEW s \in Sessions,
               StartCheck(r, s) \/ ResultCheck(r, s) \/ FailSubmit(r, s) \/ FailAttempts(r, s)
        PROVE  Goal
    BY <1>1, <2>1 DEF StartCheck, ResultCheck, FailSubmit, FailAttempts, ReqPlaces
  <2>2. CASE UNCHANGED <<rpc, rsess, rconn>>
    BY <2>2
  <2> QED BY <1>2, <2>1, <2>2 DEF ClientStep, ConnectFresh, ConnectAgain, ClientLeaves,
                                  ReadDeadline, CaptchaSolved, reqVars
<1>3. ASSUME NEW c \in Conns, ConnStep(c) PROVE Goal
  BY <1>3 DEF ConnStep, UpgradeOk, UpgradeFails, Attach, Enqueue, Announce, ReadError,
              CleanupRemove, CleanupBroadcast, CleanupClose, reqVars
<1>4. ASSUME NEW r \in Reqs, FailDetach(r) PROVE Goal
  BY <1>4 DEF FailDetach, NilCheck, ReqAt, ReqTo, ReqDone
<1>5. ASSUME NEW r \in Reqs, FailCapture(r) \/ FailForget(r) PROVE Goal
  BY <1>5 DEF FailCapture, FailForget, ReqAt, ReqTo
<1>6. ASSUME NEW r \in Reqs, FailHangup(r) PROVE Goal
  BY <1>6 DEF FailHangup, ReqAt, ReqDone
<1>7. ASSUME NEW r \in Reqs,
             StartPromote(r) \/ StartRemove(r) \/ StartBroadcast(r) \/ ResultClear(r) \/ ResultOver(r)
      PROVE  Goal
  BY <1>7 DEF StartPromote, StartRemove, StartBroadcast, ResultClear, ResultOver,
              ReqAt, ReqTo, ReqDone
<1>8. ASSUME NEW r \in Reqs, FailTell(r) \/ FailWrite(r) \/ FailReset(r) PROVE Goal
  BY <1>8 DEF FailTell, FailWrite, FailReset, NilCheck, ReqAt, ReqTo, ReqDone
<1>9. CASE UNCHANGED vars
  BY <1>9 DEF vars
<1> QED BY <1>2, <1>3, <1>4, <1>5, <1>6, <1>7, <1>8, <1>9 DEF Next, ReqStep

LEMMA UpNext ==
  TypeOK /\ OneRequestEach /\ HoldsConnection /\ NeverCrashes /\ [Next]_vars
    => HoldsConnection' /\ NeverCrashes'
<1> SUFFICES ASSUME TypeOK, OneRequestEach, HoldsConnection, NeverCrashes, [Next]_vars
             PROVE  HoldsConnection' /\ NeverCrashes'
  OBVIOUS
<1>1. NeverCrashes'
  BY UpSteps DEF NeverCrashes, HoldsConnection, ReqAt
<1>2. ASSUME NEW q \in Reqs, rpc'[q] = "capture" PROVE userConn'[rsess'[q]] # NoConn
  <2>1. rsess'[q] = rsess[q] /\ rpc[q] \in {"capture", "detach"} /\ userConn[rsess[q]] # NoConn
    BY <1>2, FailPlaces DEF HoldsConnection
  <2>2. rsess[q] \in Sessions
    BY <2>1 DEF TypeOK
  <2>3. ASSUME NEW c \in Conns, userConn' = [userConn EXCEPT ![owner[c]] = c]
        PROVE  userConn'[rsess[q]] # NoConn
    BY <2>1, <2>2, <2>3, DistinctNulls DEF TypeOK
  <2>4. ASSUME NEW r \in Reqs, FailForget(r), rsess[r] \in Sessions,
               userConn' = [userConn EXCEPT ![rsess[r]] = NoConn]
        PROVE  userConn'[rsess[q]] # NoConn
    <3>1. rpc[r] = "forget"
      BY <2>4 DEF FailForget, ReqAt
    <3>2. rsess[r] # rsess[q]
      BY <2>1, <2>2, <3>1, DistinctNulls DEF OneRequestEach
    <3> QED BY <2>1, <2>2, <2>4, <3>2 DEF TypeOK
  <2> QED BY <2>1, <2>3, <2>4, UserConnSteps
<1>3. ASSUME NEW q \in Reqs, rpc'[q] \in {"forget", "hangup"} PROVE rconn'[q] # NoConn
  BY <1>3, FailPlaces DEF HoldsConnection
<1> QED BY <1>1, <1>2, <1>3 DEF HoldsConnection

(* As long as no session has two requests in progress at the same time,    *)
(* and whatever the other sessions do meanwhile, no goroutine of the       *)
(* failure path closes a nil connection: the process stays up.  Run        *)
(* lobby_crash shows that the hypothesis is needed.                        *)
THEOREM StaysUp == Spec /\ []OneRequestEach => []NeverCrashes
<1>1. Init => HoldsConnection /\ NeverCrashes
  BY DEF Init, HoldsConnection, NeverCrashes
<1>2. TypeOK /\ OneRequestEach /\ HoldsConnection /\ NeverCrashes /\ [Next]_vars
        => HoldsConnection' /\ NeverCrashes'
  BY UpNext
<1> QED BY <1>1, <1>2, TypeCorrect, PTL DEF Spec

-----------------------------------------------------------------------------
(* No entry outlives the connections that could remove it                  *)

LiveAt(c) == cpc[c] \in {"announce", "serve", "leave"}

(* A connection is being served between its Enqueue and its CleanupRemove. *)
LEMMA ServiceSteps ==
  ASSUME TypeOK, [Next]_vars
  PROVE  \/ \A d \in Conns : LiveAt(d)' = LiveAt(d)
         \/ \E c \in Conns : Enqueue(c) \/ CleanupRemove(c)
<1> USE DEF TypeOK, LiveAt
<1>1. ASSUME NEW c \in Conns, NEW s \in Sessions, ConnectFresh(c, s) \/ ConnectAgain(c, s)
      PROVE  \A d \in Conns : LiveAt(d)' = LiveAt(d)
  BY <1>1 DEF ConnectFresh, ConnectAgain, ConnAt
<1>2. ASSUME NEW c \in Conns, ClientLeaves(c) \/ ReadDeadline(c)
      PROVE  \A d \in Conns : LiveAt(d)' = LiveAt(d)
  BY <1>2 DEF ClientLeaves, ReadDeadline, ConnAt, ConnTo, connVars
<1>3. ASSUME NEW r \in Reqs, NEW s \in Sessions,
             StartCheck(r, s) \/ ResultCheck(r, s) \/ FailSubmit(r, s) \/ FailAttempts(r, s)
      PROVE  cpc' = cpc
  BY <1>3 DEF StartCheck, ResultCheck, FailSubmit, FailAttempts, BeginRequest, connVars
<1>4. ASSUME NEW s \in Sessions, CaptchaSolved(s) PROVE cpc' = cpc
  BY <1>4 DEF CaptchaSolved, connVars
<1>5. ASSUME NEW c \in Conns, UpgradeOk(c) \/ UpgradeFails(c) \/ Attach(c)
      PROVE  \A d \in Conns : LiveAt(d)' = LiveAt(d)
  BY <1>5 DEF UpgradeOk, UpgradeFails, Attach, ConnAt, ConnTo
<1>6. ASSUME NEW c \in Conns, Announce(c) \/ ReadError(c)
      PROVE  \A d \in Conns : LiveAt(d)' = LiveAt(d)
  BY <1>6 DEF Announce, ReadError, ConnAt, ConnTo
<1>7. ASSUME NEW c \in Conns, CleanupBroadcast(c) \/ CleanupClose(c)
      PROVE  \A d \in Conns : LiveAt(d)' = LiveAt(d)
  BY <1>7 DEF CleanupBroadcast, CleanupClose, ConnAt, ConnTo
<1>8. ASSUME NEW r \in Reqs, ReqStep(r) PROVE cpc' = cpc
  BY <1>8 DEF ReqStep, StartPromote, StartRemove, StartBroadcast, ResultClear, ResultOver,
              FailTell, FailWrite, FailReset, FailDetach, FailCapture, FailForget,
              FailHangup, NilCheck, connVars
<1>9. CASE UNCHANGED vars
  BY <1>9 DEF vars
<1> QED BY <1>1, <1>2, <1>3, <1>4, <1>5, <1>6, <1>7, <1>8, <1>9 DEF Next, ClientStep, ConnStep

(* Outside Enqueue nobody gets into the line, and who has an owner keeps   *)
(* it, so a session's places can only become fewer.                        *)
LEMMA PlacesShrink ==
  ASSUME TypeOK, QueuedOnce, [Next]_vars, NEW s \in Sessions,
         \A c \in Conns : ~Enqueue(c)
  PROVE  PlacesOf(s)' \subseteq PlacesOf(s)
<1>0. queue \in Seq(QueueEntries) /\ NoTwice(queue)
  BY DEF TypeOK, QueuedOnce, NoTwice
<1>1. \A i \in DOMAIN queue' : \E j \in DOMAIN queue : queue'[i] = queue[j]
  BY <1>0, LeaveKeepsApart, QueueSteps DEF KeepsQueue, TakesOut
<1>2. ASSUME NEW c \in Conns, Queued(c)', owner'[c] = s PROVE Queued(c) /\ owner[c] = s
  <2>1. Queued(c)
    BY <1>1, <1>2 DEF Queued
  <2>2. owner[c] # NoSession
    BY <2>1 DEF QueuedOnce, TypeOK
  <2> QED BY <1>2, <2>1, <2>2, OwnersStay
<1> QED BY <1>2 DEF PlacesOf

(* Somebody served stays served, outside the cleanup.                      *)
LEMMA LiveConnsStay ==
  ASSUME TypeOK, [Next]_vars, NEW s \in Sessions,
         \A c \in Conns : ~CleanupRemove(c)
  PROVE  LiveConnsOf(s) \subseteq LiveConnsOf(s)'
<1>1. ASSUME NEW d \in Conns, LiveAt(d) PROVE LiveAt(d)'
  <2>1. ASSUME NEW c \in Conns, Enqueue(c) PROVE LiveAt(d)'
    BY <1>1, <2>1 DEF Enqueue, ConnAt, ConnTo, LiveAt, TypeOK
  <2> QED BY <1>1, <2>1, ServiceSteps
<1>2. \A d \in Conns : owner[d] = s => owner'[d] = s
  BY OwnersStay, DistinctNulls
<1> QED BY <1>1, <1>2 DEF LiveConnsOf, LiveAt

LEMMA FiniteParts ==
  ASSUME NEW s
  PROVE  /\ IsFiniteSet(PlacesOf(s)) /\ Cardinality(PlacesOf(s)) \in Nat
         /\ IsFiniteSet(LiveConnsOf(s)) /\ Cardinality(LiveConnsOf(s)) \in Nat
         /\ IsFiniteSet(PlacesOf(s)') /\ Cardinality(PlacesOf(s)') \in Nat
         /\ IsFiniteSet(LiveConnsOf(s)') /\ Cardinality(LiveConnsOf(s)') \in Nat
<1>1. /\ PlacesOf(s) \subseteq Conns /\ LiveConnsOf(s) \subseteq Conns
      /\ PlacesOf(s)' \subseteq Conns /\ LiveConnsOf(s)' \subseteq Conns
  BY DEF PlacesOf, LiveConnsOf
<1> QED BY <1>1, FiniteConns, FS_Subset, FS_CardinalityType

(* Enqueue adds one place and one connection that is served.               *)
LEMMA GhostsEnqueue ==
  ASSUME TypeOK, QueuedOnce, NoGhosts, [Next]_vars, NEW c \in Conns, Enqueue(c),
         NEW s \in Sessions
  PROVE  Cardinality(PlacesOf(s))' <= Cardinality(LiveConnsOf(s))'
<1>0. queue \in Seq(QueueEntries) /\ NoTwice(queue)
  BY DEF TypeOK, QueuedOnce, NoTwice
<1>1. /\ cpc[c] = "enqueue" /\ cpc' = [cpc EXCEPT ![c] = "announce"] /\ owner' = owner
      /\ owner[c] \in Sessions /\ queue' = Add(queue, owner[c], c) /\ ~Queued(c)
  BY DEF Enqueue, ConnAt, ConnTo, TypeOK, QueuedOnce
<1>2. ASSUME NEW d \in Conns, Queued(d)', d # c PROVE Queued(d)
  <2>1. \A i \in DOMAIN queue' :
          queue'[i] = Entry(owner[c], c) \/ \E j \in DOMAIN queue : queue'[i] = queue[j]
    BY <1>0, <1>1, AddKeepsApart, EntryType DEF Queued
  <2> QED BY <1>2, <2>1 DEF Queued, Entry
<1>3. ASSUME NEW d \in Conns, d # c PROVE LiveAt(d)' = LiveAt(d)
  BY <1>1, <1>3 DEF LiveAt, TypeOK
<1>4. LiveAt(c)' /\ ~LiveAt(c)
  BY <1>1 DEF LiveAt, TypeOK
<1>5. CASE owner[c] = s
  <2>1. PlacesOf(s)' \subseteq PlacesOf(s) \cup {c} /\ c \notin PlacesOf(s)
    BY <1>1, <1>2 DEF PlacesOf
  <2>2. LiveConnsOf(s)' = LiveConnsOf(s) \cup {c} /\ c \notin LiveConnsOf(s)
    BY <1>1, <1>3, <1>4, <1>5 DEF LiveConnsOf, LiveAt
  <2>3. Cardinality(PlacesOf(s)') <= Cardinality(PlacesOf(s)) + 1
    <3>1. /\ IsFiniteSet(PlacesOf(s) \cup {c})
          /\ Cardinality(PlacesOf(s) \cup {c}) = Cardinality(PlacesOf(s)) + 1
      BY <2>1, FiniteParts, FS_AddElement
    <3> QED BY <2>1, <3>1, FS_Subset
  <2>4. Cardinality(LiveConnsOf(s)') = Cardinality(LiveConnsOf(s)) + 1
    BY <2>2, FiniteParts, FS_AddElement
  <2> QED BY <2>3, <2>4, FiniteParts DEF NoGhosts
<1>6. CASE owner[c] # s
  <2>1. PlacesOf(s)' \subseteq PlacesOf(s)
    BY <1>1, <1>2, <1>6 DEF PlacesOf
  <2>2. LiveConnsOf(s)' = LiveConnsOf(s)
    BY <1>1, <1>3, <1>6 DEF LiveConnsOf, LiveAt
  <2>3. Cardinality(PlacesOf(s)') <= Cardinality(PlacesOf(s))
    BY <2>1, FiniteParts, FS_Subset
  <2> QED BY <2>2, <2>3, FiniteParts DEF NoGhosts
<1> QED BY <1>5, <1>6

(* A cleanup ends the service of one connection and, if the session has    *)
(* places left, gives one of them up: its own or another's.                *)
LEMMA GhostsCleanup ==
  ASSUME TypeOK, QueuedOnce, OwnConnection, NoGhosts, [Next]_vars,
         NEW c \in Conns, CleanupRemove(c), NEW s \in Sessions
  PROVE  Cardinality(PlacesOf(s))' <= Cardinality(LiveConnsOf(s))'
<1>0. queue \in Seq(QueueEntries) /\ NoTwice(queue)
  BY DEF TypeOK, QueuedOnce, NoTwice
<1>1. /\ cpc[c] = "leave" /\ cpc' = [cpc EXCEPT ![c] = "reannounce"] /\ owner' = owner
      /\ owner[c] \in Sessions /\ queue' = Leave(queue, owner[c])
  BY DEF CleanupRemove, ConnAt, ConnTo, TypeOK
<1>2. \A d \in Conns : ~Enqueue(d)
  BY <1>1 DEF Enqueue, ConnAt, ConnTo, TypeOK
<1>3. PlacesOf(s)' \subseteq PlacesOf(s)
  BY <1>2, PlacesShrink
<1>4. ASSUME NEW d \in Conns, d # c PROVE LiveAt(d)' = LiveAt(d)
  BY <1>1, <1>4 DEF LiveAt, TypeOK
<1>5. LiveAt(c) /\ ~LiveAt(c)'
  BY <1>1 DEF LiveAt, TypeOK
<1>6. CASE owner[c] # s
  <2>1. LiveConnsOf(s)' = LiveConnsOf(s)
    BY <1>1, <1>4, <1>6 DEF LiveConnsOf, LiveAt
  <2>2. Cardinality(PlacesOf(s)') <= Cardinality(PlacesOf(s))
    BY <1>3, FiniteParts, FS_Subset
  <2> QED BY <2>1, <2>2, FiniteParts DEF NoGhosts
<1>7. CASE owner[c] = s /\ PlacesOf(s) = {}
  <2>1. Cardinality(PlacesOf(s)') = 0
    BY <1>3, <1>7, FS_EmptySet
  <2> QED BY <2>1, FiniteParts
<1>8. CASE owner[c] = s /\ PlacesOf(s) # {}
  <2>1. \E i \in DOMAIN queue : queue[i].id = s
    BY <1>8 DEF PlacesOf, Queued, OwnConnection
  <2>2. PICK k \in DOMAIN queue : /\ queue[k].id = s
                                  /\ \A i \in DOMAIN queue' : queue'[i].conn # queue[k].conn
    BY <1>0, <1>1, <1>8, <2>1, LeaveTakesOne
  <2> DEFINE e == queue[k].conn
  <2>3. e \in PlacesOf(s) /\ e \notin PlacesOf(s)'
    <3>1. queue[k] \in QueueEntries
      BY <1>0, ElementOfSeq, LenProperties
    <3>2. e \in Conns /\ owner[e] = s /\ Queued(e)
      BY <2>2, <3>1 DEF QueueEntries, OwnConnection, Queued
    <3> QED BY <2>2, <3>2 DEF PlacesOf, Queued
  <2>4. Cardinality(PlacesOf(s)') <= Cardinality(PlacesOf(s)) - 1
    <3>1. /\ IsFiniteSet(PlacesOf(s) \ {e})
          /\ Cardinality(PlacesOf(s) \ {e}) = Cardinality(PlacesOf(s)) - 1
      BY <2>3, FiniteParts, FS_RemoveElement
    <3>2. PlacesOf(s)' \subseteq PlacesOf(s) \ {e}
      BY <1>3, <2>3
    <3> QED BY <3>1, <3>2, FS_Subset
  <2>5. Cardinality(LiveConnsOf(s)') = Cardinality(LiveConnsOf(s)) - 1
    <3>1. LiveConnsOf(s)' = LiveConnsOf(s) \ {c} /\ c \in LiveConnsOf(s)
      BY <1>1, <1>4, <1>5, <1>8 DEF LiveConnsOf, LiveAt
    <3> QED BY <3>1, FiniteParts, FS_RemoveElement
  <2> QED BY <2>4, <2>5, FiniteParts DEF NoGhosts
<1> QED BY <1>6, <1>7, <1>8

LEMMA GhostsNext ==
  TypeOK /\ QueuedOnce /\ OwnConnection /\ NoGhosts /\ [Next]_vars => NoGhosts'
<1> SUFFICES ASSUME TypeOK, QueuedOnce, OwnConnection, NoGhosts, [Next]_vars, NEW s \in Sessions
             PROVE  Cardinality(PlacesOf(s))' <= Cardinality(LiveConnsOf(s))'
  BY DEF NoGhosts
<1>1. CASE \E c \in Conns : Enqueue(c)
  BY <1>1, GhostsEnqueue
<1>2. CASE \E c \in Conns : CleanupRemove(c)
  BY <1>2, GhostsCleanup
<1>3. CASE \A c \in Conns : ~Enqueue(c) /\ ~CleanupRemove(c)
  <2>1. PlacesOf(s)' \subseteq PlacesOf(s) /\ LiveConnsOf(s) \subseteq LiveConnsOf(s)'
    BY <1>3, PlacesShrink, LiveConnsStay
  <2>2. /\ Cardinality(PlacesOf(s)') <= Cardinality(PlacesOf(s))
        /\ Cardinality(LiveConnsOf(s)) <= Cardinality(LiveConnsOf(s)')
    BY <2>1, FiniteParts, FS_Subset
  <2> QED BY <2>2, FiniteParts DEF NoGhosts
<1> QED BY <1>1, <1>2, <1>3

(* A session never has more places in the line than connections that will  *)
(* still run a cleanup, although a cleanup and a promotion may take the    *)
(* entry of another tab: nothing stays in the line for ever.               *)
THEOREM NothingHaunts == Spec => []NoGhosts
<1>1. Init => NoGhosts
  <2> SUFFICES ASSUME Init, NEW s \in Sessions
               PROVE  Cardinality(PlacesOf(s)) <= Cardinality(LiveConnsOf(s))
    BY DEF NoGhosts
  <2>1. PlacesOf(s) = {}
    BY DEF Init, PlacesOf, Queued
  <2> QED BY <2>1, FiniteParts, FS_EmptySet
<1>2. TypeOK /\ QueuedOnce /\ OwnConnection /\ NoGhosts /\ [Next]_vars => NoGhosts'
  BY GhostsNext
<1> QED BY <1>1, <1>2, TypeCorrect, OncePerConnection, ConnectionsAreOwn, PTL DEF Spec

-----------------------------------------------------------------------------
(* The queue implements the waiting line                                   *)

ConnsIn(q) == [i \in DOMAIN q |-> q[i].conn]

LEMMA IntervalsEqual ==
  ASSUME NEW m \in Nat, NEW n \in Nat, 1..m = 1..n
  PROVE  m = n
<1>1. (m = 0 \/ m \in 1..n) /\ (n = 0 \/ n \in 1..m)
  <2>1. (m = 0 \/ m \in 1..m) /\ (n = 0 \/ n \in 1..n)
    OBVIOUS
  <2> QED BY <2>1
<1> QED BY <1>1

LEMMA ConnsInType ==
  ASSUME NEW q \in Seq(QueueEntries)
  PROVE  /\ ConnsIn(q) \in Seq(Conns)
         /\ Len(ConnsIn(q)) = Len(q) /\ Len(q) \in Nat
         /\ \A i \in 1..Len(q) : ConnsIn(q)[i] = q[i].conn
<1>1. /\ DOMAIN q = 1..Len(q) /\ Len(q) \in Nat
      /\ \A i \in 1..Len(q) : q[i] \in QueueEntries
  BY LenProperties, ElementOfSeq
<1>2. ConnsIn(q) \in [1..Len(q) -> Conns]
  BY <1>1 DEF ConnsIn, QueueEntries
<1>3. ConnsIn(q) \in Seq(Conns)
  BY <1>1, <1>2, SeqDef
<1>4. Len(ConnsIn(q)) = Len(q)
  <2>1. DOMAIN ConnsIn(q) = 1..Len(ConnsIn(q)) /\ Len(ConnsIn(q)) \in Nat
    BY <1>3, LenProperties
  <2>2. DOMAIN ConnsIn(q) = 1..Len(q)
    BY <1>2
  <2> QED BY <1>1, <2>1, <2>2, IntervalsEqual
<1> QED BY <1>1, <1>3, <1>4 DEF ConnsIn

(* Who leaves the queue leaves the line of connections at the same place.  *)
LEMMA ConnsInRemoveAt ==
  ASSUME NEW q \in Seq(QueueEntries), NEW k \in 1..Len(q)
  PROVE  ConnsIn(RemoveAt(q, k)) = RemoveAt(ConnsIn(q), k)
<1> DEFINE l == RemoveAt(q, k)
           m == RemoveAt(ConnsIn(q), k)
           n == Len(q) - 1
           from(i) == IF i < k THEN i ELSE i + 1
<1>1. /\ l \in Seq(QueueEntries) /\ Len(l) = n
      /\ \A i \in 1..n : l[i] = q[from(i)]
  BY RemoveAtProperties, Zenon
<1>2. /\ ConnsIn(q) \in Seq(Conns) /\ Len(ConnsIn(q)) = Len(q) /\ Len(q) \in Nat
      /\ \A i \in 1..Len(q) : ConnsIn(q)[i] = q[i].conn
  BY ConnsInType
<1>3. /\ m \in Seq(Conns) /\ Len(m) = n
      /\ \A i \in 1..n : m[i] = ConnsIn(q)[from(i)]
  <2>1. k \in 1..Len(ConnsIn(q))
    BY <1>2
  <2>2. /\ m \in Seq(Conns) /\ Len(m) = Len(ConnsIn(q)) - 1
        /\ \A i \in 1..(Len(ConnsIn(q)) - 1) : m[i] = ConnsIn(q)[from(i)]
    BY <1>2, <2>1, RemoveAtProperties, Zenon
  <2> QED BY <1>2, <2>2
<1>4. /\ ConnsIn(l) \in Seq(Conns) /\ Len(ConnsIn(l)) = n
      /\ \A i \in 1..n : ConnsIn(l)[i] = l[i].conn
  <2> HIDE DEF l
  <2> QED BY <1>1, ConnsInType
<1> HIDE DEF l, m
<1>5. ASSUME NEW i \in 1..n PROVE ConnsIn(l)[i] = m[i]
  <2>1. from(i) \in 1..Len(q)
    BY <1>2
  <2> QED BY <1>1, <1>2, <1>3, <1>4, <2>1
<1>6. ConnsIn(l) = m
  BY <1>3, <1>4, <1>5, SeqEqual
<1> QED BY <1>6 DEF l, m

(* Who joins the queue joins the line of connections at its tail.          *)
LEMMA ConnsInAdd ==
  ASSUME NEW q \in Seq(QueueEntries), NEW s \in Sessions, NEW c \in Conns
  PROVE  ConnsIn(Add(q, s, c)) = Append(ConnsIn(q), c)
<1>1. Entry(s, c) \in QueueEntries /\ Entry(s, c).conn = c
  BY DEF Entry, QueueEntries
<1> DEFINE a == Append(q, Entry(s, c))
           b == Append(ConnsIn(q), c)
<1>2. /\ a \in Seq(QueueEntries) /\ Len(a) = Len(q) + 1
      /\ \A i \in 1..Len(q) : a[i] = q[i]
      /\ a[Len(q) + 1] = Entry(s, c)
  BY <1>1, AppendProperties
<1>3. /\ ConnsIn(q) \in Seq(Conns) /\ Len(ConnsIn(q)) = Len(q) /\ Len(q) \in Nat
      /\ \A i \in 1..Len(q) : ConnsIn(q)[i] = q[i].conn
  BY ConnsInType
<1>4. /\ b \in Seq(Conns) /\ Len(b) = Len(q) + 1
      /\ \A i \in 1..Len(q) : b[i] = ConnsIn(q)[i]
      /\ b[Len(q) + 1] = c
  BY <1>3, AppendProperties
<1> HIDE DEF a, b
<1>5. /\ ConnsIn(a) \in Seq(Conns) /\ Len(ConnsIn(a)) = Len(q) + 1
      /\ \A i \in 1..(Len(q) + 1) : ConnsIn(a)[i] = a[i].conn
  BY <1>2, ConnsInType
<1>6. ASSUME NEW i \in 1..(Len(q) + 1) PROVE ConnsIn(a)[i] = b[i]
  <2>1. CASE i \in 1..Len(q)
    BY <1>2, <1>3, <1>4, <1>5, <2>1
  <2>2. CASE i = Len(q) + 1
    BY <1>1, <1>2, <1>4, <1>5, <2>2
  <2> QED BY <1>3, <2>1, <2>2
<1>7. ConnsIn(a) = b
  BY <1>4, <1>5, <1>6, SeqEqual
<1> QED BY <1>7 DEF Add, a, b

(* A connection has a socket exactly after its upgrade, and what User.Conn *)
(* and the failure path hold has been upgraded.                            *)
Upgraded ==
  /\ \A c \in Conns :
       /\ cpc[c] \in {"new", "upgrade"} => sock[c] = "none"
       /\ cpc[c] \notin {"new", "upgrade", "done"} => sock[c] # "none"
  /\ \A s \in Sessions : userConn[s] = NoConn \/ sock[userConn[s]] # "none"
  /\ \A r \in Reqs : rconn[r] = NoConn \/ sock[rconn[r]] # "none"

Stays(d) == cpc'[d] = cpc[d] /\ sock'[d] = sock[d]
Moves(d, from, to) == cpc[d] = from /\ cpc'[d] = to /\ sock'[d] = sock[d]
Served == {"announce", "serve", "leave", "reannounce", "hangup"}

(* The moves of a connection and of its socket.                            *)
Progress(d) ==
  \/ Stays(d)
  \/ Moves(d, "new", "upgrade") \/ Moves(d, "upgrade", "done") \/ Moves(d, "attach", "enqueue")
  \/ cpc[d] = "upgrade" /\ cpc'[d] = "attach" /\ sock'[d] # "none"
  \/ Enqueue(d) /\ Moves(d, "enqueue", "announce")
  \/ cpc[d] \in Served /\ cpc'[d] \in Served \cup {"done"} /\ sock'[d] # "none"
  \/ cpc'[d] = cpc[d] /\ sock[d] # "none" /\ sock'[d] # "none"

LEMMA ProgressSteps ==
  ASSUME TypeOK, Upgraded, [Next]_vars, NEW d \in Conns
  PROVE  Progress(d)
<1> USE DEF TypeOK, Upgraded, Progress, Stays, Moves, Served
<1>1. ASSUME NEW c \in Conns, NEW s \in Sessions, ConnectFresh(c, s) \/ ConnectAgain(c, s)
      PROVE  Progress(d)
  BY <1>1 DEF ConnectFresh, ConnectAgain, ConnAt
<1>2. ASSUME NEW c \in Conns, ClientLeaves(c) \/ ReadDeadline(c) PROVE Progress(d)
  BY <1>2 DEF ClientLeaves, ReadDeadline, ConnAt, ConnTo, connVars
<1>3. ASSUME NEW r \in Reqs, NEW s \in Sessions,
             StartCheck(r, s) \/ ResultCheck(r, s) \/ FailSubmit(r, s) \/ FailAttempts(r, s)
      PROVE  Stays(d)
  BY <1>3 DEF StartCheck, ResultCheck, FailSubmit, FailAttempts, BeginRequest, connVars
<1>4. ASSUME NEW s \in Sessions, CaptchaSolved(s) PROVE Stays(d)
  BY <1>4 DEF CaptchaSolved, connVars
<1>5. ASSUME NEW c \in Conns, UpgradeOk(c) \/ UpgradeFails(c) \/ Attach(c) PROVE Progress(d)
  BY <1>5 DEF UpgradeOk, UpgradeFails, Attach, ConnAt, ConnTo
<1>6. ASSUME NEW c \in Conns, Enqueue(c) PROVE Progress(d)
  <2>1. cpc[c] = "enqueue" /\ cpc' = [cpc EXCEPT ![c] = "announce"] /\ sock' = sock
    BY <1>6 DEF Enqueue, ConnAt, ConnTo
  <2>2. CASE d = c
    BY <1>6, <2>1, <2>2
  <2>3. CASE d # c
    BY <2>1, <2>3
  <2> QED BY <2>2, <2>3
<1>7. ASSUME NEW c \in Conns, Announce(c) \/ ReadError(c) \/ CleanupRemove(c)
      PROVE  Progress(d)
  BY <1>7 DEF Announce, ReadError, CleanupRemove, ConnAt, ConnTo
<1>8. ASSUME NEW c \in Conns, CleanupBroadcast(c) \/ CleanupClose(c) PROVE Progress(d)
  BY <1>8 DEF CleanupBroadcast, CleanupClose, ConnAt, ConnTo
<1>9. ASSUME NEW r \in Reqs, ReqStep(r), ~FailHangup(r) PROVE Stays(d)
  BY <1>9 DEF ReqStep, StartPromote, StartRemove, StartBroadcast, ResultClear, ResultOver,
              FailTell, FailWrite, FailReset, FailDetach, FailCapture, FailForget,
              NilCheck, connVars
<1>10. ASSUME NEW r \in Reqs, FailHangup(r) PROVE Progress(d)
  BY <1>10 DEF FailHangup, connVars
<1>11. CASE UNCHANGED vars
  BY <1>11 DEF vars
<1> QED BY <1>1, <1>2, <1>3, <1>4, <1>5, <1>6, <1>7, <1>8, <1>9, <1>10, <1>11
        DEF Next, ClientStep, ConnStep

LEMMA UpgradedNext == TypeOK /\ Upgraded /\ [Next]_vars => Upgraded'
<1> SUFFICES ASSUME TypeOK, Upgraded, [Next]_vars PROVE Upgraded'
  OBVIOUS
<1>1. ASSUME NEW d \in Conns
      PROVE  /\ sock[d] # "none" => sock'[d] # "none"
             /\ cpc'[d] \in {"new", "upgrade"} => sock'[d] = "none"
             /\ cpc'[d] \notin {"new", "upgrade", "done"} => sock'[d] # "none"
  BY ProgressSteps DEF Upgraded, Progress, Stays, Moves, Served
<1>2. ASSUME NEW s \in Sessions PROVE (userConn[s] = NoConn \/ sock[userConn[s]] # "none")'
  <2>1. ASSUME userConn[s] # NoConn PROVE sock'[userConn[s]] # "none"
    BY <1>1, <2>1 DEF Upgraded, TypeOK
  <2>2. ASSUME NEW c \in Conns, Attach(c), userConn' = [userConn EXCEPT ![owner[c]] = c]
        PROVE  (userConn[s] = NoConn \/ sock[userConn[s]] # "none")'
    <3>1. sock'[c] # "none"
      BY <1>1, <2>2 DEF Attach, ConnAt, Upgraded
    <3> QED BY <2>1, <2>2, <3>1 DEF TypeOK
  <2>3. ASSUME NEW r \in Reqs, userConn' = [userConn EXCEPT ![rsess[r]] = NoConn]
        PROVE  (userConn[s] = NoConn \/ sock[userConn[s]] # "none")'
    BY <2>1, <2>3 DEF TypeOK
  <2> QED BY <2>1, <2>2, <2>3, UserConnSteps
<1>3. ASSUME NEW r \in Reqs PROVE (rconn[r] = NoConn \/ sock[rconn[r]] # "none")'
  <2>1. CASE rconn'[r] = rconn[r]
    BY <1>1, <2>1 DEF Upgraded, TypeOK
  <2>2. CASE FailCapture(r) /\ rconn'[r] = userConn[rsess[r]]
    <3>1. rsess[r] \in Sessions
      BY <2>2 DEF FailCapture, ReqAt, TypeOK
    <3> QED BY <1>1, <2>2, <3>1 DEF Upgraded, TypeOK
  <2> QED BY <2>1, <2>2, CapturedSteps
<1> QED BY <1>1, <1>2, <1>3 DEF Upgraded

LEMMA SeenSteps ==
  ASSUME TypeOK, Upgraded, [Next]_vars
  PROVE  /\ (\A c \in Conns : ~Enqueue(c)) => seen' = seen
         /\ \A c \in Conns : Enqueue(c) => c \notin seen /\ seen' = seen \cup {c}
<1>1. ASSUME NEW d \in Conns, ~Enqueue(d) PROVE (d \in seen)' <=> d \in seen
  BY <1>1, ProgressSteps DEF seen, Progress, Stays, Moves, Served, Upgraded
<1>2. ASSUME NEW c \in Conns, Enqueue(c) PROVE c \notin seen /\ seen' = seen \cup {c}
  <2>1. cpc[c] = "enqueue" /\ cpc' = [cpc EXCEPT ![c] = "announce"] /\ sock' = sock
    BY <1>2 DEF Enqueue, ConnAt, ConnTo
  <2>2. sock[c] # "none"
    BY <2>1 DEF Upgraded
  <2>3. \A d \in Conns \ {c} : (d \in seen)' <=> d \in seen
    BY <2>1 DEF seen, TypeOK
  <2> QED BY <2>1, <2>2, <2>3 DEF seen, TypeOK
<1>3. seen \subseteq Conns /\ seen' \subseteq Conns
  BY DEF seen
<1> QED BY <1>1, <1>2, <1>3

LEMMA LineSteps ==
  ASSUME TypeOK, QueuedOnce, Upgraded, [Next]_vars
  PROVE  [Line!Next]_(Line!vars)
<1>0. queue \in Seq(QueueEntries) /\ line = ConnsIn(queue) /\ line' = ConnsIn(queue')
  BY DEF TypeOK, line, ConnsIn
<1>1. ASSUME NEW c \in Conns, Enqueue(c) PROVE Line!Join(c)
  <2>1. owner[c] \in Sessions /\ queue' = Add(queue, owner[c], c)
    BY <1>1 DEF Enqueue, ConnAt, TypeOK
  <2>2. line' = Append(line, c)
    BY <1>0, <2>1, ConnsInAdd
  <2> QED BY <1>1, <2>2, SeenSteps DEF Line!Join
<1>2. ASSUME \A c \in Conns : ~Enqueue(c), NEW s, queue' = Leave(queue, s)
      PROVE  [Line!Next]_(Line!vars)
  <2>1. seen' = seen
    BY <1>2, SeenSteps
  <2>2. CASE queue' = queue
    BY <1>0, <2>1, <2>2 DEF Line!vars
  <2>3. ASSUME NEW k \in 1..Len(queue), queue' = RemoveAt(queue, k)
        PROVE  Line!Next
    <3>1. line' = RemoveAt(line, k)
      BY <1>0, <2>3, ConnsInRemoveAt
    <3>2. k \in DOMAIN line
      BY <1>0, LenProperties DEF ConnsIn
    <3> QED BY <2>1, <3>1, <3>2 DEF Line!Next, Line!DropOut, Line!RemoveAt, RemoveAt
  <2> QED BY <1>0, <1>2, <2>2, <2>3, LeaveProperties
<1>3. ASSUME \A c \in Conns : ~Enqueue(c), queue' = queue
      PROVE  [Line!Next]_(Line!vars)
  BY <1>0, <1>3, SeenSteps DEF Line!vars
<1> QED BY <1>1, <1>2, <1>3, QueueSteps DEF KeepsQueue, TakesOut, Line!Next

(* For any number of players, tabs and requests the queue is a waiting     *)
(* line: each connection joins once, at the tail, one leaves at a time,    *)
(* and who stays is never overtaken.                                       *)
THEOREM ImplementsLine == Spec => LineSpec
<1>1. Init => Line!Init
  BY DEF Init, Line!Init, line, seen
<1>2. Init => Upgraded
  BY DEF Init, Upgraded
<1>3. TypeOK /\ Upgraded /\ [Next]_vars => Upgraded'
  BY UpgradedNext
<1>4. TypeOK /\ QueuedOnce /\ Upgraded /\ [Next]_vars => [Line!Next]_(Line!vars)
  BY LineSteps
<1> QED BY <1>1, <1>2, <1>3, <1>4, TypeCorrect, OncePerConnection, PTL
        DEF Spec, LineSpec, Line!Spec
=============================================================================

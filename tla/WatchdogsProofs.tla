---------------------------- MODULE WatchdogsProofs ----------------------------
(***************************************************************************)
(* Proofs about the goroutines that act on a user by the clock, for any    *)
(* number of countdowns, watches and connections.                          *)
(***************************************************************************)
EXTENDS Watchdogs, TLAPS

USE NilIsNobody, JobsDiffer

(* Every step of a job moves that job, and to a place there is.            *)
LEMMA GoToType ==
  ASSUME TypeOK, NEW j \in Jobs, NEW place \in Places, GoTo(j, place)
  PROVE  pc' \in [Jobs -> Places]
BY DEF TypeOK, GoTo

LEMMA StepType ==
  ASSUME TypeOK, NEW j \in Jobs, NEW here, NEW place \in Places, Step(j, here, place)
  PROVE  TypeOK'
<1>1. pc' \in [Jobs -> Places]
  BY GoToType DEF Step
<1> QED BY <1>1 DEF Step, TypeOK, userVars, timeoutVars, monitorVars

LEMMA UseType ==
  ASSUME TypeOK, NEW j \in Jobs, NEW place \in Places, Use(j, place)
  PROVE  pc' \in [Jobs -> Places] /\ up' \in BOOLEAN
<1>1. pc' \in [Jobs -> Places]
  BY GoToType DEF Use, Places
<1>2. up' \in BOOLEAN
  BY Zenon DEF Use
<1> QED BY <1>1, <1>2

LEMMA TypeInit == Init => TypeOK
<1> SUFFICES ASSUME Init PROVE TypeOK
  OBVIOUS
<1>1. pc \in [Jobs -> Places] /\ held \in [Jobs -> Conns \cup {NoConn}]
  BY DEF Init, Places
<1>2. sock \in [Conns -> {"none", "open", "closed"}]
  BY DEF Init
<1>3. running \in BOOLEAN /\ canceled \in BOOLEAN /\ up \in BOOLEAN
  BY Zenon DEF Init
<1> QED BY <1>1, <1>2, <1>3 DEF Init, TypeOK

(* The user, and the calls that start and end jobs.                        *)
LEMMA CallType ==
  ASSUME TypeOK, Call \/ Elapse
  PROVE  TypeOK'
<1>1. ASSUME NEW c \in Conns, Connect(c) PROVE TypeOK'
  BY <1>1 DEF Connect, TypeOK, timeoutVars, monitorVars
<1>2. CASE GenerateRegisterToken
  BY <1>2 DEF GenerateRegisterToken, TypeOK, timeoutVars, monitorVars
<1>3. CASE Elapse
  BY <1>3 DEF Elapse, TypeOK, timeoutVars, monitorVars
<1>4. ASSUME NEW t \in Timers, Start(t) PROVE TypeOK'
  <2>1. pc' \in [Jobs -> Places]
    BY <1>4, GoToType DEF Start, Places, Jobs
  <2> QED BY <1>4, <2>1 DEF Start, TypeOK, userVars, monitorVars
<1>5. CASE Cancel
  <2>1. pc' \in [Jobs -> Places]
    BY <1>5 DEF Cancel, GoTo, TypeOK, Places
  <2> QED BY <1>5, <2>1 DEF Cancel, TypeOK, userVars, monitorVars
<1>6. ASSUME NEW w \in Watchers, Watch(w) PROVE TypeOK'
  <2>1. pc' \in [Jobs -> Places]
    BY <1>6, GoToType DEF Watch, Places, Jobs
  <2> QED BY <1>6, <2>1 DEF Watch, TypeOK, userVars, timeoutVars
<1>7. CASE Unwatch
  BY <1>7 DEF Unwatch, TypeOK, userVars, timeoutVars
<1> QED BY <1>1, <1>2, <1>3, <1>4, <1>5, <1>6, <1>7 DEF Call, Stop

LEMMA TimerType ==
  ASSUME TypeOK, NEW t \in Timers, TimerStep(t)
  PROVE  TypeOK'
<1>0. t \in Jobs
  BY DEF Jobs
<1>1. CASE Fire(t)
  BY <1>0, <1>1, StepType DEF Fire, Places
<1>2. CASE TimeoutCheck(t)
  <2>1. pc' \in [Jobs -> Places]
    BY <1>0, <1>2, GoToType DEF TimeoutCheck, Places
  <2>2. running' \in BOOLEAN
    BY <1>2 DEF TimeoutCheck, TypeOK
  <2> QED BY <1>2, <2>1, <2>2 DEF TimeoutCheck, TypeOK, userVars, monitorVars
<1>3. CASE Tell(t)
  BY <1>0, <1>3, StepType DEF Tell, Places
<1>4. CASE Write(t)
  <2>1. pc' \in [Jobs -> Places] /\ up' \in BOOLEAN
    BY <1>0, <1>4, UseType DEF Write, Places
  <2> QED BY <1>4, <2>1 DEF Write, TypeOK, userVars, timeoutVars, monitorVars
<1>5. CASE Reset(t)
  <2>1. pc' \in [Jobs -> Places]
    BY <1>0, <1>5, GoToType DEF Reset, Places
  <2> QED BY <1>5, <2>1 DEF Reset, TypeOK, timeoutVars, monitorVars
<1>6. CASE Detach(t)
  BY <1>0, <1>6, StepType DEF Detach, Places
<1>7. CASE Capture(t)
  <2>1. pc' \in [Jobs -> Places]
    BY <1>0, <1>7, GoToType DEF Capture, Places
  <2> QED BY <1>0, <1>7, <2>1 DEF Capture, TypeOK, userVars, timeoutVars, monitorVars
<1>8. CASE Forget(t)
  <2>1. pc' \in [Jobs -> Places]
    BY <1>0, <1>8, GoToType DEF Forget, Places
  <2> QED BY <1>8, <2>1 DEF Forget, TypeOK, timeoutVars, monitorVars
<1>9. CASE HangUp(t)
  <2>1. pc' \in [Jobs -> Places]
    BY <1>0, <1>9, GoToType DEF HangUp, Places
  <2>2. up' \in BOOLEAN
    BY <1>9, Zenon DEF HangUp
  <2>3. sock' \in [Conns -> {"none", "open", "closed"}]
    BY <1>9 DEF HangUp, TypeOK
  <2> QED BY <1>9, <2>1, <2>2, <2>3 DEF HangUp, TypeOK, timeoutVars, monitorVars
<1> QED BY <1>1, <1>2, <1>3, <1>4, <1>5, <1>6, <1>7, <1>8, <1>9 DEF TimerStep

LEMMA WatcherType ==
  ASSUME TypeOK, NEW w \in Watchers, WatcherStep(w)
  PROVE  TypeOK'
<1>0. w \in Jobs
  BY DEF Jobs
<1>1. CASE StopSeen(w)
  BY <1>0, <1>1, StepType DEF StopSeen, Places
<1>2. CASE Tick(w)
  BY <1>0, <1>2, StepType DEF Tick, Places
<1>3. CASE Notify(w)
  BY <1>0, <1>3, StepType DEF Notify, Places
<1>4. CASE Warn(w)
  <2>1. pc' \in [Jobs -> Places] /\ up' \in BOOLEAN
    BY <1>0, <1>4, UseType DEF Warn, Places
  <2> QED BY <1>4, <2>1 DEF Warn, TypeOK, userVars, timeoutVars, monitorVars
<1>5. CASE CloseConn(w)
  <2>1. pc' \in [Jobs -> Places] /\ up' \in BOOLEAN
    BY <1>0, <1>5, UseType DEF CloseConn, Places
  <2>2. sock' \in [Conns -> {"none", "open", "closed"}]
    BY <1>5 DEF CloseConn, TypeOK
  <2> QED BY <1>5, <2>1, <2>2 DEF CloseConn, TypeOK, timeoutVars, monitorVars
<1>6. CASE Clear(w)
  <2>1. pc' \in [Jobs -> Places]
    BY <1>0, <1>6, GoToType DEF Clear, Places
  <2> QED BY <1>6, <2>1 DEF Clear, TypeOK, timeoutVars, monitorVars
<1>7. CASE Drop(w)
  <2>1. pc' \in [Jobs -> Places]
    BY <1>0, <1>7, GoToType DEF Drop, Places
  <2> QED BY <1>7, <2>1 DEF Drop, TypeOK, timeoutVars, monitorVars
<1> QED BY <1>1, <1>2, <1>3, <1>4, <1>5, <1>6, <1>7 DEF WatcherStep

LEMMA TypeNext == TypeOK /\ [Next]_vars => TypeOK'
<1> SUFFICES ASSUME TypeOK, [Next]_vars PROVE TypeOK'
  OBVIOUS
<1>1. CASE UNCHANGED vars
  BY <1>1 DEF vars, userVars, timeoutVars, monitorVars, TypeOK
<1> QED BY <1>1, CallType, TimerType, WatcherType DEF Next

(* The type invariant of the watchdogs.                                    *)
THEOREM TypeCorrect == Spec => []TypeOK
<1> QED BY TypeInit, TypeNext, PTL DEF Spec

-----------------------------------------------------------------------------
(* A timeout that runs has not been cancelled since: an expiry that gives  *)
(* up because of a cancellation leaves the flag, which then is not set.    *)
Uncanceled == running => ~canceled

(* Watchers, and what anybody but a timeout does, leave the timers alone.  *)
LEMMA WatcherLeavesTimers ==
  ASSUME TypeOK, NEW w \in Watchers, Watch(w) \/ WatcherStep(w)
  PROVE  UNCHANGED timeoutVars /\ \A t \in Timers : pc'[t] = pc[t]
<1>1. UNCHANGED timeoutVars
  BY DEF Watch, WatcherStep, StopSeen, Tick, Notify, Warn, CloseConn, Clear, Drop, Step, timeoutVars
<1>2. PICK after : pc' = [pc EXCEPT ![w] = after]
  BY DEF Watch, WatcherStep, StopSeen, Tick, Notify, Warn, CloseConn, Clear, Drop, Step, Use, GoTo
<1> QED BY <1>1, <1>2 DEF TypeOK, Jobs

LEMMA RunningNext ==
  TypeOK /\ Uncanceled /\ RunningHasTimer /\ [Next]_vars => Uncanceled' /\ RunningHasTimer'
<1> SUFFICES ASSUME TypeOK, Uncanceled, RunningHasTimer, [Next]_vars
             PROVE  Uncanceled' /\ RunningHasTimer'
  OBVIOUS
<1> USE DEF Uncanceled, RunningHasTimer
<1>1. ASSUME UNCHANGED timeoutVars, \A t \in Timers : pc'[t] = pc[t]
      PROVE  Uncanceled' /\ RunningHasTimer'
  BY <1>1 DEF timeoutVars
<1>2. ASSUME NEW c \in Conns, Connect(c) PROVE Uncanceled' /\ RunningHasTimer'
  BY <1>1, <1>2 DEF Connect
<1>3. CASE GenerateRegisterToken \/ Elapse \/ Unwatch \/ UNCHANGED vars
  BY <1>1, <1>3 DEF GenerateRegisterToken, Elapse, Unwatch, vars
<1>4. ASSUME NEW t \in Timers, Start(t) PROVE Uncanceled' /\ RunningHasTimer'
  <2>1. running' /\ ~canceled' /\ pc'[t] = "armed"
    BY <1>4 DEF Start, GoTo, TypeOK, Jobs
  <2> QED BY <2>1
<1>5. CASE Cancel
  BY <1>5 DEF Cancel
<1>6. ASSUME NEW w \in Watchers, Watch(w) \/ WatcherStep(w)
      PROVE  Uncanceled' /\ RunningHasTimer'
  BY <1>1, <1>6, WatcherLeavesTimers
<1>7. ASSUME NEW t \in Timers, Fire(t) PROVE Uncanceled' /\ RunningHasTimer'
  <2>1. UNCHANGED timeoutVars /\ pc' = [pc EXCEPT ![t] = "fired"]
    BY <1>7 DEF Fire, Step, GoTo
  <2> QED BY <2>1 DEF timeoutVars, TypeOK, Jobs
<1>8. ASSUME NEW t \in Timers, TimeoutCheck(t) PROVE Uncanceled' /\ RunningHasTimer'
  BY <1>8 DEF TimeoutCheck
<1>9. ASSUME NEW t \in Timers,
             Tell(t) \/ Write(t) \/ Reset(t) \/ Detach(t) \/ Capture(t) \/ Forget(t) \/ HangUp(t)
      PROVE  Uncanceled' /\ RunningHasTimer'
  <2>1. UNCHANGED timeoutVars
    BY <1>9 DEF Tell, Write, Reset, Detach, Capture, Forget, HangUp, Step, timeoutVars
  <2>2. PICK after : pc' = [pc EXCEPT ![t] = after]
    BY <1>9 DEF Tell, Write, Reset, Detach, Capture, Forget, HangUp, Step, Use, GoTo
  <2>3. pc[t] \notin {"armed", "fired"}
    BY <1>9 DEF Tell, Write, Reset, Detach, Capture, Forget, HangUp, Step, At
  <2> QED BY <2>1, <2>2, <2>3 DEF timeoutVars, TypeOK, Jobs
<1> QED BY <1>2, <1>3, <1>4, <1>5, <1>6, <1>7, <1>8, <1>9 DEF Next, Call, Stop, TimerStep

(* Whenever IsRunning says so, an expiry is still to come.                 *)
THEOREM RunningIsArmed == Spec => []RunningHasTimer
<1>1. Init => Uncanceled /\ RunningHasTimer
  BY DEF Init, Uncanceled, RunningHasTimer
<1> QED BY <1>1, TypeInit, TypeNext, RunningNext, PTL DEF Spec

-----------------------------------------------------------------------------
(* The channels in the map and the closed ones are those of Watches that   *)
(* have been called; a new Watch therefore brings an open one.             *)
Begun == \A w \in Watchers : pc[w] = "unused" => watcher # w /\ w \notin stopped

(* A timeout moves no watcher.                                             *)
LEMMA TimerLeavesWatchers ==
  ASSUME TypeOK, NEW t \in Timers, Start(t) \/ TimerStep(t)
  PROVE  UNCHANGED monitorVars /\ \A w \in Watchers : pc'[w] = pc[w]
<1>1. UNCHANGED monitorVars
  BY DEF Start, TimerStep, Fire, TimeoutCheck, Tell, Write, Reset, Detach, Capture, Forget, HangUp,
         Step, monitorVars
<1>2. PICK after : pc' = [pc EXCEPT ![t] = after]
  BY DEF Start, TimerStep, Fire, TimeoutCheck, Tell, Write, Reset, Detach, Capture, Forget, HangUp,
         Step, Use, GoTo
<1> QED BY <1>1, <1>2 DEF TypeOK, Jobs

LEMMA ChannelsNext ==
  TypeOK /\ Begun /\ ClosedOnce /\ [Next]_vars => Begun' /\ ClosedOnce'
<1> SUFFICES ASSUME TypeOK, Begun, ClosedOnce, [Next]_vars PROVE Begun' /\ ClosedOnce'
  OBVIOUS
<1> USE DEF Begun, ClosedOnce
<1>1. ASSUME UNCHANGED monitorVars, \A w \in Watchers : pc'[w] = pc[w]
      PROVE  Begun' /\ ClosedOnce'
  BY <1>1 DEF monitorVars
<1>2. ASSUME NEW c \in Conns, Connect(c) PROVE Begun' /\ ClosedOnce'
  BY <1>1, <1>2 DEF Connect
<1>3. CASE GenerateRegisterToken \/ Elapse \/ UNCHANGED vars
  BY <1>1, <1>3 DEF GenerateRegisterToken, Elapse, vars
<1>4. ASSUME NEW t \in Timers, Start(t) \/ TimerStep(t) PROVE Begun' /\ ClosedOnce'
  BY <1>1, <1>4, TimerLeavesWatchers
<1>5. CASE Cancel
  <2>1. \A w \in Watchers : pc'[w] = pc[w]
    <3>1. timer \in Timers => timer \notin Watchers
      OBVIOUS
    <3>2. timer # NoTimer => timer \in Timers
      BY DEF TypeOK
    <3> QED BY <1>5, <3>1, <3>2 DEF Cancel, GoTo, TypeOK, Jobs
  <2> QED BY <1>1, <1>5, <2>1 DEF Cancel
<1>6. ASSUME NEW w \in Watchers, Watch(w) PROVE Begun' /\ ClosedOnce'
  <2>1. pc[w] = "unused" /\ pc' = [pc EXCEPT ![w] = "watching"]
    BY <1>6 DEF Watch, At, GoTo
  <2>2. watcher' = w /\ stopped' = stopped
    BY <1>6 DEF Watch
  <2> QED BY <2>1, <2>2 DEF TypeOK, Jobs
<1>7. CASE Unwatch
  BY <1>7 DEF Unwatch, TypeOK
<1>8. ASSUME NEW w \in Watchers, WatcherStep(w) PROVE Begun' /\ ClosedOnce'
  <2>1. UNCHANGED monitorVars
    BY <1>8 DEF WatcherStep, StopSeen, Tick, Notify, Warn, CloseConn, Clear, Drop, Step, monitorVars
  <2>2. PICK after : pc' = [pc EXCEPT ![w] = after] /\ after # "unused"
    BY <1>8 DEF WatcherStep, StopSeen, Tick, Notify, Warn, CloseConn, Clear, Drop, Step, Use, GoTo
  <2> QED BY <2>1, <2>2 DEF monitorVars, TypeOK, Jobs
<1> QED BY <1>2, <1>3, <1>4, <1>5, <1>6, <1>7, <1>8 DEF Next, Call, Stop

(* Unwatch and Stop find open channels only, whoever has watched, stopped  *)
(* or expired before: close never panics.                                  *)
THEOREM ChannelsClosedOnce == Spec => []ClosedOnce
<1>1. Init => Begun /\ ClosedOnce
  BY DEF Init, Begun, ClosedOnce
<1> QED BY <1>1, TypeInit, TypeNext, ChannelsNext, PTL DEF Spec

-----------------------------------------------------------------------------
(* A timeout about to clear User.Conn has captured it, unless it is nil or *)
(* excused by now ...                                                      *)
Captured ==
  \A t \in Timers :
    pc[t] = "forget" => conn = held[t] \/ conn = NoConn \/ conn \in excused

(* ... a watcher about to has closed it, with the same exceptions ...      *)
Hung ==
  \A w \in Watchers :
    pc[w] \in {"clear", "drop"} => sock[conn] = "closed" \/ conn = NoConn \/ conn \in excused

(* ... and before its capture a timeout holds no connection that it could  *)
(* let go of.                                                              *)
EmptyHanded ==
  \A t \in Timers : pc[t] \notin {"forget", "hangup", "done"} => held[t] = NoConn

Kept == Captured /\ Hung /\ EmptyHanded /\ NoneLost

(* A step that touches no connection keeps all of it, provided that nobody *)
(* arrives where User.Conn is about to be cleared, or forgets to hang up.  *)
LEMMA StillKept ==
  ASSUME TypeOK, Kept, UNCHANGED <<conn, sock, excused, held>>,
         \A t \in Timers : \/ pc'[t] = pc[t]
                           \/ pc'[t] # "forget" /\ pc[t] \notin {"forget", "hangup", "done"},
         \A w \in Watchers : \/ pc'[w] = pc[w]
                             \/ pc'[w] \notin {"clear", "drop"}
                             \/ pc[w] \in {"clear", "drop"}
                             \/ conn = NoConn
  PROVE  Kept'
BY DEF Kept, Captured, Hung, EmptyHanded, NoneLost

LEMMA ConnectKeeps ==
  ASSUME TypeOK, Kept, NEW c \in Conns, Connect(c)
  PROVE  Kept'
<1>1. /\ conn' = c /\ UNCHANGED <<pc, held>>
      /\ sock' = [sock EXCEPT ![c] = "open"]
      /\ excused \subseteq excused' /\ (conn # NoConn => conn \in excused')
      /\ AboutToClear => c \in excused'
  BY DEF Connect
<1>2. Captured' /\ Hung'
  BY <1>1 DEF Captured, Hung, AboutToClear, Jobs
<1>3. EmptyHanded'
  BY <1>1 DEF Kept, EmptyHanded
<1>4. NoneLost'
  BY <1>1 DEF Kept, NoneLost, TypeOK
<1> QED BY <1>2, <1>3, <1>4 DEF Kept

LEMMA TimerKeeps ==
  ASSUME TypeOK, Kept, NEW t \in Timers, Start(t) \/ TimerStep(t)
  PROVE  Kept'
<1>1. \A w \in Watchers : pc'[w] = pc[w]
  BY TimerLeavesWatchers
<1>2. CASE Start(t) \/ Fire(t) \/ TimeoutCheck(t) \/ Tell(t) \/ Write(t) \/ Reset(t) \/ Detach(t)
  <2>1. UNCHANGED <<conn, sock, excused, held>>
    BY <1>2 DEF Start, Fire, TimeoutCheck, Tell, Write, Reset, Detach, Step, userVars
  <2>2. PICK after : pc' = [pc EXCEPT ![t] = after] /\ after # "forget"
    BY <1>2 DEF Start, Fire, TimeoutCheck, Tell, Write, Reset, Detach, Step, Use, GoTo
  <2>3. pc[t] \notin {"forget", "hangup", "done"}
    BY <1>2 DEF Start, Fire, TimeoutCheck, Tell, Write, Reset, Detach, Step, At
  <2>4. \A u \in Timers : \/ pc'[u] = pc[u]
                          \/ pc'[u] # "forget" /\ pc[u] \notin {"forget", "hangup", "done"}
    <3> TAKE u \in Timers
    <3>1. CASE u = t
      BY <3>1, <2>2, <2>3 DEF TypeOK, Jobs
    <3>2. CASE u # t
      BY <3>2, <2>2 DEF TypeOK, Jobs
    <3> QED BY <3>1, <3>2
  <2> QED BY <1>1, <2>1, <2>4, StillKept
<1>3. CASE Capture(t)
  <2>1. pc[t] = "capture" /\ pc' = [pc EXCEPT ![t] = "forget"]
    BY <1>3 DEF Capture, At, GoTo
  <2>2. UNCHANGED <<conn, sock, excused>> /\ held' = [held EXCEPT ![t] = conn]
    BY <1>3 DEF Capture, userVars
  <2>3. held[t] = NoConn
    BY <2>1 DEF Kept, EmptyHanded
  <2>4. Captured' /\ EmptyHanded'
    BY <2>1, <2>2 DEF Kept, Captured, EmptyHanded, TypeOK, Jobs
  <2>5. Hung'
    BY <1>1, <2>2 DEF Kept, Hung
  <2>6. NoneLost'
    BY <2>2, <2>3 DEF Kept, NoneLost, TypeOK, Jobs
  <2> QED BY <2>4, <2>5, <2>6 DEF Kept
<1>4. CASE Forget(t)
  <2>1. pc[t] = "forget" /\ pc' = [pc EXCEPT ![t] = "hangup"]
    BY <1>4 DEF Forget, At, GoTo
  <2>2. UNCHANGED <<sock, excused, held>> /\ conn' = NoConn
    BY <1>4 DEF Forget
  <2>3. Captured' /\ Hung'
    BY <2>2 DEF Captured, Hung
  <2>4. EmptyHanded'
    BY <2>1, <2>2 DEF Kept, EmptyHanded, TypeOK, Jobs
  <2>5. NoneLost'
    BY <2>1, <2>2 DEF Kept, NoneLost, Captured
  <2> QED BY <2>3, <2>4, <2>5 DEF Kept
<1>5. CASE HangUp(t)
  <2>1. pc[t] = "hangup" /\ pc' = [pc EXCEPT ![t] = "done"]
    BY <1>5 DEF HangUp, At, GoTo
  <2>2. UNCHANGED <<conn, excused, held>>
    BY <1>5 DEF HangUp
  <2>3. \A c \in Conns : sock'[c] = sock[c] \/ sock'[c] = "closed"
    BY <1>5 DEF HangUp
  <2>4. Captured' /\ EmptyHanded'
    BY <2>1, <2>2 DEF Kept, Captured, EmptyHanded, TypeOK, Jobs
  <2>5. Hung'
    BY <1>1, <2>2, <2>3 DEF Kept, Hung, TypeOK
  <2>6. NoneLost'
    BY <2>2, <2>3 DEF Kept, NoneLost
  <2> QED BY <2>4, <2>5, <2>6 DEF Kept
<1> QED BY <1>2, <1>3, <1>4, <1>5 DEF TimerStep

LEMMA WatcherKeeps ==
  ASSUME TypeOK, Kept, NEW w \in Watchers, Watch(w) \/ WatcherStep(w)
  PROVE  Kept'
<1>1. \A t \in Timers : pc'[t] = pc[t]
  BY WatcherLeavesTimers
<1>2. CASE Watch(w) \/ StopSeen(w) \/ Tick(w) \/ Notify(w) \/ Warn(w) \/ Clear(w)
  <2>1. UNCHANGED <<conn, sock, excused, held>>
    BY <1>2 DEF Watch, StopSeen, Tick, Notify, Warn, Clear, Step, userVars
  <2>2. PICK after : /\ pc' = [pc EXCEPT ![w] = after]
                     /\ after \in {"clear", "drop"} => pc[w] = "clear" \/ conn = NoConn
    BY <1>2 DEF Watch, StopSeen, Tick, Notify, Warn, Clear, Step, Use, At, GoTo
  <2>3. \A u \in Watchers : \/ pc'[u] = pc[u]
                            \/ pc'[u] \notin {"clear", "drop"}
                            \/ pc[u] \in {"clear", "drop"}
                            \/ conn = NoConn
    BY <2>2 DEF TypeOK, Jobs
  <2>4. \A t \in Timers : \/ pc'[t] = pc[t]
                          \/ pc'[t] # "forget" /\ pc[t] \notin {"forget", "hangup", "done"}
    BY <1>1
  <2> QED BY <2>1, <2>3, <2>4, StillKept
<1>3. CASE CloseConn(w)
  <2>1. UNCHANGED <<conn, excused, held>>
    BY <1>3 DEF CloseConn
  <2>2. /\ \A c \in Conns : sock'[c] = sock[c] \/ sock'[c] = "closed"
        /\ conn # NoConn => sock'[conn] = "closed"
    BY <1>3 DEF CloseConn, TypeOK
  <2>3. Captured' /\ EmptyHanded'
    BY <1>1, <2>1 DEF Kept, Captured, EmptyHanded
  <2>4. Hung'
    BY <2>1, <2>2 DEF Hung
  <2>5. NoneLost'
    BY <2>1, <2>2 DEF Kept, NoneLost
  <2> QED BY <2>3, <2>4, <2>5 DEF Kept
<1>4. CASE Drop(w)
  <2>1. pc[w] = "drop" /\ conn' = NoConn /\ UNCHANGED <<sock, excused, held>>
    BY <1>4 DEF Drop, At
  <2>2. Captured' /\ Hung'
    BY <2>1 DEF Captured, Hung
  <2>3. EmptyHanded'
    BY <1>1, <2>1 DEF Kept, EmptyHanded
  <2>4. NoneLost'
    BY <2>1 DEF Kept, NoneLost, Hung
  <2> QED BY <2>2, <2>3, <2>4 DEF Kept
<1> QED BY <1>2, <1>3, <1>4 DEF WatcherStep

LEMMA CancelKeeps ==
  ASSUME TypeOK, Kept, Cancel
  PROVE  Kept'
<1>1. UNCHANGED <<conn, sock, excused, held>>
  BY DEF Cancel, userVars
<1>2. timer # NoTimer => timer \in Timers
  BY DEF TypeOK
<1>3. \/ timer \in Timers /\ pc[timer] = "armed" /\ pc' = [pc EXCEPT ![timer] = "done"]
      \/ UNCHANGED pc
  BY <1>2 DEF Cancel, GoTo
<1>4. \A t \in Timers : \/ pc'[t] = pc[t]
                        \/ pc'[t] # "forget" /\ pc[t] \notin {"forget", "hangup", "done"}
  <2> TAKE t \in Timers
  <2>1. CASE timer = t /\ pc[timer] = "armed" /\ pc' = [pc EXCEPT ![timer] = "done"]
    BY <2>1 DEF TypeOK, Jobs
  <2>2. CASE timer # t /\ timer \in Timers /\ pc' = [pc EXCEPT ![timer] = "done"]
    BY <2>2 DEF TypeOK, Jobs
  <2> QED BY <1>3, <2>1, <2>2
<1>5. \A w \in Watchers : pc'[w] = pc[w]
  BY <1>3 DEF TypeOK, Jobs
<1> QED BY <1>1, <1>4, <1>5, StillKept

LEMMA KeptNext == TypeOK /\ Kept /\ [Next]_vars => Kept'
<1> SUFFICES ASSUME TypeOK, Kept, [Next]_vars PROVE Kept'
  OBVIOUS
<1>1. CASE GenerateRegisterToken \/ Elapse \/ Unwatch \/ UNCHANGED vars
  <2>1. UNCHANGED <<conn, sock, excused, held, pc>>
    BY <1>1 DEF GenerateRegisterToken, Elapse, Unwatch, vars, userVars
  <2>2. /\ \A t \in Timers : pc'[t] = pc[t]
        /\ \A w \in Watchers : pc'[w] = pc[w]
    BY <2>1
  <2> QED BY <2>1, <2>2, StillKept
<1> QED BY <1>1, ConnectKeeps, TimerKeeps, WatcherKeeps, CancelKeeps DEF Next, Call, Stop

(* No job loses a connection that is not excused: whatever clears          *)
(* User.Conn has captured or closed what was there when it looked.         *)
THEOREM NoConnectionLost == Spec => []NoneLost
<1>1. Init => Kept
  BY DEF Init, Kept, Captured, Hung, EmptyHanded, NoneLost, Jobs
<1>2. Kept => NoneLost
  BY DEF Kept
<1> QED BY <1>1, <1>2, TypeInit, TypeNext, KeptNext, PTL DEF Spec
=============================================================================

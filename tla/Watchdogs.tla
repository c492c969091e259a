------------------------------ MODULE Watchdogs ------------------------------
(***************************************************************************)
(* The goroutines that act on a user by the clock: the stage timeout       *)
(* (internal/game: DinoTimeout, and CaptchaTimeout, its copy) and the      *)
(* token monitor (internal/token).  main.go does not wire them yet; this   *)
(* is what they do to a user, and to each other, when they run together.   *)
(*                                                                         *)
(* A job is a goroutine: the expiry of one Start, or the watcher of one    *)
(* Watch.  One action is one access to shared state.  Of model.User the    *)
(* jobs read Conn and RegisterTokenExp and nothing else.                   *)
(***************************************************************************)
CONSTANTS
  Timers,     \* one element per call of DinoTimeout.Start
  Watchers,   \* one element per call of TokenMonitor.Watch, and its channel
  Conns,      \* the WebSocket connections the user gets
  NoConn, NoTimer, NoWatcher

ASSUME NilIsNobody ==
  NoConn \notin Conns /\ NoTimer \notin Timers /\ NoWatcher \notin Watchers
ASSUME JobsDiffer == Timers \cap Watchers = {}

Jobs == Timers \cup Watchers

VARIABLES
  conn,       \* User.Conn
  exp,        \* User.RegisterTokenExp: "zero", "live" (to come) or "past"
  sock,       \* "none", "open" or "closed"
  running, canceled, timer,
              \* the fields of DinoTimeout
  watcher,    \* TokenMonitor.watchers of this user
  stopped,    \* stop channels that were closed
  pc,         \* where each job stands
  held,       \* the connection a job captured
  excused,    \* history: the connections that a reconnect replaced, or that
              \* came when a job was about to clear User.Conn
  up          \* FALSE once a panic in a bare goroutine has ended the process

userVars == <<conn, exp, sock, excused>>
timeoutVars == <<running, canceled, timer>>
monitorVars == <<watcher, stopped>>
vars == <<userVars, timeoutVars, monitorVars, pc, held, up>>

Places == {"unused", "armed", "fired", "tell", "write", "reset", "detach",
           "capture", "forget", "hangup", "watching", "notify", "warn",
           "close", "clear", "drop", "done"}

Init ==
  /\ conn = NoConn /\ exp = "zero" /\ sock = [c \in Conns |-> "none"]
  /\ running = FALSE /\ canceled = FALSE /\ timer = NoTimer
  /\ watcher = NoWatcher /\ stopped = {}
  /\ pc = [j \in Jobs |-> "unused"]
  /\ held = [j \in Jobs |-> NoConn]
  /\ up = TRUE /\ excused = {}

At(j, place) == up /\ pc[j] = place
GoTo(j, place) == pc' = [pc EXCEPT ![j] = place]

(* A step of a job that reads, and changes nothing but where it stands.    *)
Step(j, here, next) ==
  /\ At(j, here)
  /\ GoTo(j, next)
  /\ UNCHANGED <<userVars, timeoutVars, monitorVars, held, up>>

(* A use of User.Conn, which another job may have set to nil since it was  *)
(* checked: then the goroutine panics, and nothing recovers it.            *)
Use(j, next) ==
  /\ GoTo(j, IF conn = NoConn THEN "done" ELSE next)
  /\ up' = (conn # NoConn)

-----------------------------------------------------------------------------
(* The user                                                                *)

AboutToClear == \E j \in Jobs : pc[j] \in {"forget", "clear", "drop"}

(* WebSocketHandler.Connect: user.Conn = conn, whatever it was.            *)
Connect(c) ==
  /\ up /\ sock[c] = "none"
  /\ sock' = [sock EXCEPT ![c] = "open"]
  /\ conn' = c
  /\ excused' = excused \cup ({conn} \ {NoConn}) \cup (IF AboutToClear THEN {c} ELSE {})
  /\ UNCHANGED <<exp, timeoutVars, monitorVars, pc, held, up>>

GenerateRegisterToken ==
  /\ up /\ exp' = "live"
  /\ UNCHANGED <<conn, sock, excused, timeoutVars, monitorVars, pc, held, up>>

(* TokenExpiry has passed since then.                                      *)
Elapse ==
  /\ up /\ exp = "live"
  /\ exp' = "past"
  /\ UNCHANGED <<conn, sock, excused, timeoutVars, monitorVars, pc, held, up>>

(* Wrong on purpose: only a token that was never issued counts.            *)
NeverIssued == exp = "zero"

IsTokenExpired == exp \in {"zero", "past"}

-----------------------------------------------------------------------------
(* DinoTimeout: every method holds its mutex for the whole body            *)

(* A timer that a former Start left behind is neither stopped nor told.    *)
Start(t) ==
  /\ At(t, "unused")
  /\ running' = TRUE /\ canceled' = FALSE /\ timer' = t
  /\ GoTo(t, "armed")
  /\ UNCHANGED <<userVars, monitorVars, held, up>>

(* Wrong on purpose: the flag is left to the handler, which may never run. *)
CancelKeepsRunning ==
  /\ up /\ canceled' = TRUE
  /\ IF timer # NoTimer /\ pc[timer] = "armed" THEN GoTo(timer, "done") ELSE UNCHANGED pc
  /\ UNCHANGED <<userVars, running, timer, monitorVars, held, up>>

(* Timer.Stop prevents an expiry that has not begun, of the latest Start.  *)
Cancel ==
  /\ up /\ canceled' = TRUE /\ running' = FALSE
  /\ IF timer # NoTimer /\ pc[timer] = "armed" THEN GoTo(timer, "done") ELSE UNCHANGED pc
  /\ UNCHANGED <<userVars, timer, monitorVars, held, up>>

(* The runtime starts handleTimeout in a goroutine of its own.             *)
Fire(t) == Step(t, "armed", "fired")

(* Under the mutex; what follows is outside it, so a Cancel that comes     *)
(* later does not prevent the rest, and a Start after a Cancel lets the    *)
(* expiry of the former Start pass.                                        *)
TimeoutCheck(t) ==
  /\ At(t, "fired")
  /\ IF canceled
     THEN GoTo(t, "done") /\ UNCHANGED running
     ELSE GoTo(t, "tell") /\ running' = FALSE
  /\ UNCHANGED <<userVars, canceled, timer, monitorVars, held, up>>

-----------------------------------------------------------------------------
(* handleTimeout from there on                                             *)

Tell(t) == Step(t, "tell", IF conn = NoConn THEN "reset" ELSE "write")

Write(t) ==
  /\ At(t, "write")
  /\ Use(t, "reset")
  /\ UNCHANGED <<userVars, timeoutVars, monitorVars, held>>

(* ResetToWaiting; only the expiry of the token is ever read here.         *)
Reset(t) ==
  /\ At(t, "reset")
  /\ exp' = "zero"
  /\ GoTo(t, "detach")
  /\ UNCHANGED <<conn, sock, excused, timeoutVars, monitorVars, held, up>>

Detach(t) == Step(t, "detach", IF conn = NoConn THEN "done" ELSE "capture")

(* Wrong on purpose: User.Conn is cleared before anybody has captured it.  *)
CaptureNothing(t) ==
  /\ At(t, "capture")
  /\ GoTo(t, "forget")
  /\ UNCHANGED <<userVars, timeoutVars, monitorVars, held, up>>

Capture(t) ==
  /\ At(t, "capture")
  /\ held' = [held EXCEPT ![t] = conn]
  /\ GoTo(t, "forget")
  /\ UNCHANGED <<userVars, timeoutVars, monitorVars, up>>

Forget(t) ==
  /\ At(t, "forget")
  /\ conn' = NoConn
  /\ GoTo(t, "hangup")
  /\ UNCHANGED <<exp, sock, excused, timeoutVars, monitorVars, held, up>>

(* Wrong on purpose: closes what User.Conn is by now, if anything.         *)
HangUpCurrent(t) ==
  /\ At(t, "hangup")
  /\ sock' = [c \in Conns |-> IF c = conn THEN "closed" ELSE sock[c]]
  /\ GoTo(t, "done")
  /\ UNCHANGED <<conn, exp, excused, timeoutVars, monitorVars, held, up>>

(* go func() { conn.Close() }(): a goroutine that nothing recovers.        *)
HangUp(t) ==
  /\ At(t, "hangup")
  /\ up' = (held[t] # NoConn)
  /\ sock' = [c \in Conns |-> IF c = held[t] THEN "closed" ELSE sock[c]]
  /\ GoTo(t, "done")
  /\ UNCHANGED <<conn, exp, excused, timeoutVars, monitorVars, held>>

-----------------------------------------------------------------------------
(* TokenMonitor, of one user                                               *)

(* The channel of a former Watch is overwritten and cannot be closed again.*)
Watch(w) ==
  /\ At(w, "unused")
  /\ watcher' = w
  /\ GoTo(w, "watching")
  /\ UNCHANGED <<userVars, timeoutVars, stopped, held, up>>

(* Wrong on purpose: the closed channel stays in the map.                  *)
UnwatchKeepsEntry ==
  /\ up /\ watcher # NoWatcher
  /\ stopped' = stopped \cup {watcher}
  /\ UNCHANGED <<userVars, timeoutVars, watcher, pc, held, up>>

(* Also for a watcher that has expired: handleExpiration leaves the map.   *)
Unwatch ==
  /\ up /\ watcher # NoWatcher
  /\ stopped' = stopped \cup {watcher}
  /\ watcher' = NoWatcher
  /\ UNCHANGED <<userVars, timeoutVars, pc, held, up>>

(* Stop closes every channel of the map and empties it: of one user, the   *)
(* same change.                                                            *)
Stop == Unwatch

(* The select of watchUser; with the channel closed and a tick due, either *)
(* case may be taken.                                                      *)
StopSeen(w) == w \in stopped /\ Step(w, "watching", "done")
Tick(w) == IsTokenExpired /\ Step(w, "watching", "notify")

Notify(w) == Step(w, "notify", IF conn = NoConn THEN "clear" ELSE "warn")

Warn(w) ==
  /\ At(w, "warn")
  /\ Use(w, "close")
  /\ UNCHANGED <<userVars, timeoutVars, monitorVars, held>>

CloseConn(w) ==
  /\ At(w, "close")
  /\ Use(w, "clear")
  /\ sock' = [c \in Conns |-> IF c = conn THEN "closed" ELSE sock[c]]
  /\ UNCHANGED <<conn, exp, excused, timeoutVars, monitorVars, held>>

Clear(w) ==
  /\ At(w, "clear")
  /\ exp' = "zero"
  /\ GoTo(w, "drop")
  /\ UNCHANGED <<conn, sock, excused, timeoutVars, monitorVars, held, up>>

(* user.Conn = nil, whatever it is by now.                                 *)
Drop(w) ==
  /\ At(w, "drop")
  /\ conn' = NoConn
  /\ GoTo(w, "done")
  /\ UNCHANGED <<exp, sock, excused, timeoutVars, monitorVars, held, up>>

-----------------------------------------------------------------------------
Call ==
  \/ \E c \in Conns : Connect(c)
  \/ GenerateRegisterToken
  \/ \E t \in Timers : Start(t)
  \/ Cancel
  \/ \E w \in Watchers : Watch(w)
  \/ Unwatch \/ Stop

TimerStep(t) ==
  \/ Fire(t) \/ TimeoutCheck(t) \/ Tell(t) \/ Write(t) \/ Reset(t)
  \/ Detach(t) \/ Capture(t) \/ Forget(t) \/ HangUp(t)
WatcherStep(w) ==
  StopSeen(w) \/ Tick(w) \/ Notify(w) \/ Warn(w) \/ CloseConn(w) \/ Clear(w) \/ Drop(w)

Next ==
  \/ Call \/ Elapse
  \/ \E t \in Timers : TimerStep(t)
  \/ \E w \in Watchers : WatcherStep(w)

(* Timers fire, tickers tick and goroutines run; nobody has to call.       *)
Spec ==
  /\ Init /\ [][Next]_vars
  /\ \A t \in Timers : WF_vars(TimerStep(t))
  /\ \A w \in Watchers : WF_vars(WatcherStep(w))

-----------------------------------------------------------------------------
(* Every variable holds what its declaration says.                         *)
TypeOK ==
  /\ conn \in Conns \cup {NoConn}
  /\ exp \in {"zero", "live", "past"}
  /\ sock \in [Conns -> {"none", "open", "closed"}]
  /\ running \in BOOLEAN /\ canceled \in BOOLEAN /\ timer \in Timers \cup {NoTimer}
  /\ watcher \in Watchers \cup {NoWatcher} /\ stopped \subseteq Watchers
  /\ pc \in [Jobs -> Places] /\ held \in [Jobs -> Conns \cup {NoConn}]
  /\ up \in BOOLEAN /\ excused \subseteq Conns

(* IsRunning never stays TRUE without an expiry to come: however Start,    *)
(* Cancel and late expiries interleave, a running timeout has a timer that *)
(* is armed, or whose handler has not taken the mutex yet.                 *)
RunningHasTimer == running => \E t \in Timers : pc[t] \in {"armed", "fired"}

(* Unwatch and Stop never close a channel twice, which would panic: the    *)
(* channel in the map is open, also when its watcher has expired already.  *)
ClosedOnce == watcher # NoWatcher => watcher \notin stopped

(* The jobs lose no connection: an open one is the user's, or some job has *)
(* captured it and will close it.  The exceptions are those the code has:  *)
(* a reconnect replaces the former connection without closing it, and one  *)
(* that falls between a job's last look at User.Conn and its clearing      *)
(* (Forget, Drop) may be cleared away while open.                          *)
NoneLost ==
  \A c \in Conns \ excused :
    sock[c] = "open" => c = conn \/ \E t \in Timers : held[t] = c

(* While somebody watches, a token past its expiry is noticed and cleared, *)
(* unless the watch is ended, or the process.                              *)
ExpiryNoticed ==
  \A w \in Watchers :
    (pc[w] = "watching" /\ exp = "past") ~> (exp # "past" \/ w \in stopped \/ ~up)

(* A connection that a timeout has captured gets closed, also when the     *)
(* user is connected anew, or detached by another job, meanwhile.          *)
HeldIsClosed ==
  \A t \in Timers :
    held[t] # NoConn ~> ((held[t] # NoConn /\ sock[held[t]] = "closed") \/ ~up)
=============================================================================

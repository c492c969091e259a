-------------------------------- MODULE Lobby --------------------------------
(***************************************************************************)
(* The part of the server where goroutines meet: the WebSocket handler     *)
(* (internal/handler/websocket.go), the waiting queue, the Dino handler    *)
(* (dino.go) and the failure path that the CAPTCHA, OTP and register       *)
(* handlers share (captcha.go handleMaxAttempts and its copies).           *)
(*                                                                         *)
(* Every connection and every request runs in a goroutine of its own.  A   *)
(* connection is served by one goroutine chain, Connect and then           *)
(* handleMessages; a request slot runs one HTTP handler at a time,         *)
(* together with the goroutine the handler leaves behind.  One action is   *)
(* one access to state that goroutines share: model.User has no lock, so   *)
(* a check and the write it guards are two actions.                        *)
(***************************************************************************)
EXTENDS WaitingQueue, Users

CONSTANTS
  Sessions,   \* the session ids the store may create
  Conns,      \* one element per WebSocket connection ever attempted
  Reqs,       \* HTTP requests that can be in progress at the same time
  Calls,      \* bound: the HTTP calls that the clients of an instance make
  NoSession,
  NoConn      \* Go's nil in User.Conn

ASSUME DistinctNulls == NoSession \notin Sessions /\ NoConn \notin Conns
ASSUME FiniteConns == IsFiniteSet(Conns)
ASSUME KnownCalls == Calls \subseteq {"start", "result", "captcha", "submit", "attempts"}

(* The statuses that a production path assigns: no handler writes the      *)
(* legacy stage2_captcha.                                                  *)
Statuses == {Waiting, Stage1Dino, Registering}

VARIABLES
  sessions,   \* ids in the session store
  status,     \* User.Status
  userConn,   \* User.Conn
  queue,      \* WaitingQueue.users
  owner,      \* the session whose Connect serves the connection
  cpc,        \* where that connection's goroutine stands
  sock,       \* "none" before the upgrade, "open", "gone": the peer left,
              \* "closed": Close was called
  told,       \* what each connection heard from the latest broadcast
  rpc,        \* where a request's goroutine stands
  rsess,      \* the session a request acts for
  rconn,      \* the connection the failure path captured
  up          \* FALSE once a panic in a bare goroutine has ended the process

connVars == <<owner, cpc>>
reqVars == <<rpc, rsess, rconn>>
vars == <<sessions, status, userConn, queue, owner, cpc, sock, told, rpc,
          rsess, rconn, up>>

ConnPlaces == {"new", "upgrade", "attach", "enqueue", "announce", "serve",
               "leave", "reannounce", "hangup", "done"}
ReqPlaces == {"idle", "promote", "dequeue", "announce", "clear", "over",
              "tell", "write", "reset", "detach", "capture", "forget", "hangup"}

ConnAt(c, place) == up /\ cpc[c] = place
ReqAt(r, place) == up /\ rpc[r] = place

ConnTo(c, place) == cpc' = [cpc EXCEPT ![c] = place] /\ UNCHANGED owner
ReqTo(r, place) ==
  rpc' = [rpc EXCEPT ![r] = place] /\ UNCHANGED <<rsess, rconn>>

(* A request that is over forgets what it was about.                       *)
ReqDone(r) ==
  /\ rpc' = [rpc EXCEPT ![r] = "idle"]
  /\ rsess' = [rsess EXCEPT ![r] = NoSession]
  /\ rconn' = [rconn EXCEPT ![r] = NoConn]

(* BroadcastPositions holds the read lock until every write has returned,  *)
(* so the line it describes cannot change under it.                        *)
Broadcast == told' = BroadcastPositions(queue, Conns)

-----------------------------------------------------------------------------
(* Clients and WebSocketHandler.Connect                                    *)

Init ==
  /\ sessions = {}
  /\ status = [s \in Sessions |-> Waiting]
  /\ userConn = [s \in Sessions |-> NoConn]
  /\ queue = <<>>
  /\ owner = [c \in Conns |-> NoSession]
  /\ cpc = [c \in Conns |-> "new"]
  /\ sock = [c \in Conns |-> "none"]
  /\ told = [c \in Conns |-> NoUpdate]
  /\ rpc = [r \in Reqs |-> "idle"]
  /\ rsess = [r \in Reqs |-> NoSession]
  /\ rconn = [r \in Reqs |-> NoConn]
  /\ up = TRUE

(* A browser has the cookie of s: the response to a completed upgrade is   *)
(* the only place the server sends it.                                     *)
CookieHeld(s) == \E c \in Conns : owner[c] = s /\ sock[c] # "none"

(* GET /ws with no cookie, or with one the store does not know: Create.    *)
ConnectFresh(c, s) ==
  /\ ConnAt(c, "new")
  /\ s \notin sessions
  /\ sessions' = sessions \cup {s}
  /\ status' = [status EXCEPT ![s] = Waiting]
  /\ owner' = [owner EXCEPT ![c] = s]
  /\ cpc' = [cpc EXCEPT ![c] = "upgrade"]
  /\ UNCHANGED <<userConn, queue, sock, told, reqVars, up>>

(* GET /ws with the cookie of a stored session: a reload, a second tab, a  *)
(* client that lost its connection.                                        *)
ConnectAgain(c, s) ==
  /\ ConnAt(c, "new")
  /\ CookieHeld(s) /\ s \in sessions
  /\ owner' = [owner EXCEPT ![c] = s]
  /\ cpc' = [cpc EXCEPT ![c] = "upgrade"]
  /\ UNCHANGED <<sessions, status, userConn, queue, sock, told, reqVars, up>>

UpgradeOk(c) ==
  /\ ConnAt(c, "upgrade")
  /\ sock' = [sock EXCEPT ![c] = "open"]
  /\ ConnTo(c, "attach")
  /\ UNCHANGED <<sessions, status, userConn, queue, told, reqVars, up>>

(* The session that was just created stays in the store.                   *)
UpgradeFails(c) ==
  /\ ConnAt(c, "upgrade")
  /\ ConnTo(c, "done")
  /\ UNCHANGED <<sessions, status, userConn, queue, sock, told, reqVars, up>>

(* Wrong on purpose: the handler keeps the user in a field that concurrent *)
(* calls of Connect share.                                                 *)
AttachToAnybody(c) ==
  /\ ConnAt(c, "attach")
  /\ \E s \in sessions : userConn' = [userConn EXCEPT ![s] = c]
  /\ ConnTo(c, "enqueue")
  /\ UNCHANGED <<sessions, status, queue, sock, told, reqVars, up>>

(* Wrong on purpose: the user is queued here as well.                      *)
AttachAndQueue(c) ==
  /\ ConnAt(c, "attach")
  /\ userConn' = [userConn EXCEPT ![owner[c]] = c]
  /\ queue' = Add(queue, owner[c], c)
  /\ ConnTo(c, "enqueue")
  /\ UNCHANGED <<sessions, status, sock, told, reqVars, up>>

(* user.Conn = conn, whatever the user was connected through before.       *)
Attach(c) ==
  /\ ConnAt(c, "attach")
  /\ userConn' = [userConn EXCEPT ![owner[c]] = c]
  /\ ConnTo(c, "enqueue")
  /\ UNCHANGED <<sessions, status, queue, sock, told, reqVars, up>>

(* The status of the user is neither read nor reset.                       *)
Enqueue(c) ==
  /\ ConnAt(c, "enqueue")
  /\ queue' = Add(queue, owner[c], c)
  /\ ConnTo(c, "announce")
  /\ UNCHANGED <<sessions, status, userConn, sock, told, reqVars, up>>

(* The broadcast; the welcome message and the start of handleMessages that *)
(* follow it change nothing another goroutine reads.                       *)
Announce(c) ==
  /\ ConnAt(c, "announce")
  /\ Broadcast
  /\ ConnTo(c, "serve")
  /\ UNCHANGED <<sessions, status, userConn, queue, sock, reqVars, up>>

(* The tab is closed, the network fails: the server does not know yet.     *)
ClientLeaves(c) ==
  /\ up /\ sock[c] = "open"
  /\ sock' = [sock EXCEPT ![c] = "gone"]
  /\ UNCHANGED <<sessions, status, userConn, queue, connVars, told,
                 reqVars, up>>

-----------------------------------------------------------------------------
(* WebSocketHandler.handleMessages: the read loop and its deferred cleanup *)

(* ReadMessage fails on a socket that was closed or whose peer is gone, at *)
(* the latest when the 60 s read deadline passes.                          *)
ReadError(c) ==
  /\ ConnAt(c, "serve")
  /\ sock[c] # "open"
  /\ ConnTo(c, "leave")
  /\ UNCHANGED <<sessions, status, userConn, queue, sock, told, reqVars, up>>

(* The deadline passes although the peer is there: it sent no ping.        *)
ReadDeadline(c) ==
  /\ ConnAt(c, "serve")
  /\ sock[c] = "open"
  /\ ConnTo(c, "leave")
  /\ UNCHANGED <<sessions, status, userConn, queue, sock, told, reqVars, up>>

(* Wrong on purpose: the cleanup leaves the entry in the queue.            *)
CleanupKeepsEntry(c) ==
  /\ ConnAt(c, "leave")
  /\ queue' = ForgetToLeave(queue, owner[c])
  /\ ConnTo(c, "reannounce")
  /\ UNCHANGED <<sessions, status, userConn, sock, told, reqVars, up>>

(* Wrong on purpose: the cleanup does not tell the others.                 *)
CleanupInSilence(c) ==
  /\ ConnAt(c, "leave")
  /\ queue' = Leave(queue, owner[c])
  /\ ConnTo(c, "hangup")
  /\ UNCHANGED <<sessions, status, userConn, sock, told, reqVars, up>>

(* Removes by session id, so perhaps the entry of another connection.      *)
CleanupRemove(c) ==
  /\ ConnAt(c, "leave")
  /\ queue' = Leave(queue, owner[c])
  /\ ConnTo(c, "reannounce")
  /\ UNCHANGED <<sessions, status, userConn, sock, told, reqVars, up>>

CleanupBroadcast(c) ==
  /\ ConnAt(c, "reannounce")
  /\ Broadcast
  /\ ConnTo(c, "hangup")
  /\ UNCHANGED <<sessions, status, userConn, queue, sock, reqVars, up>>

(* User.Conn keeps pointing at the closed connection.                      *)
CleanupClose(c) ==
  /\ ConnAt(c, "hangup")
  /\ sock' = [sock EXCEPT ![c] = "closed"]
  /\ ConnTo(c, "done")
  /\ UNCHANGED <<sessions, status, userConn, queue, told, reqVars, up>>

-----------------------------------------------------------------------------
(* HTTP handlers                                                           *)

(* The session lookup and the status check that every handler starts with. *)
BeginRequest(r, s, call, place) ==
  /\ call \in Calls
  /\ ReqAt(r, "idle")
  /\ CookieHeld(s) /\ s \in sessions
  /\ rpc' = [rpc EXCEPT ![r] = place]
  /\ rsess' = [rsess EXCEPT ![r] = s]
  /\ UNCHANGED <<sessions, status, userConn, queue, connVars, sock, told, rconn, up>>

SetStatus(r, value) == status' = [status EXCEPT ![rsess[r]] = value]

(* DinoHandler.Start; in any other status it answers without acting, and   *)
(* the position in the queue is not looked at.                             *)
StartCheck(r, s) == status[s] = Waiting /\ BeginRequest(r, s, "start", "promote")

(* Wrong on purpose: the legacy stage is entered.                          *)
PromoteToLegacy(r) ==
  /\ ReqAt(r, "promote")
  /\ SetStatus(r, Stage2Captcha)
  /\ ReqTo(r, "dequeue")
  /\ UNCHANGED <<sessions, userConn, queue, connVars, sock, told, up>>

StartPromote(r) ==
  /\ ReqAt(r, "promote")
  /\ SetStatus(r, Stage1Dino)
  /\ ReqTo(r, "dequeue")
  /\ UNCHANGED <<sessions, userConn, queue, connVars, sock, told, up>>

StartRemove(r) ==
  /\ ReqAt(r, "dequeue")
  /\ queue' = Leave(queue, rsess[r])
  /\ ReqTo(r, "announce")
  /\ UNCHANGED <<sessions, status, userConn, connVars, sock, told, up>>

StartBroadcast(r) ==
  /\ ReqAt(r, "announce")
  /\ Broadcast
  /\ ReqDone(r)
  /\ UNCHANGED <<sessions, status, userConn, queue, connVars, sock, up>>

(* DinoHandler.Result, "clear" or anything else.                           *)
ResultCheck(r, s) ==
  /\ status[s] = Stage1Dino
  /\ \E place \in {"clear", "over"} : BeginRequest(r, s, "result", place)

ResultClear(r) ==
  /\ ReqAt(r, "clear")
  /\ SetStatus(r, Registering)
  /\ ReqDone(r)
  /\ UNCHANGED <<sessions, userConn, queue, connVars, sock, told, up>>

(* ResetToWaiting; the user is neither queued again nor disconnected.  The *)
(* failure message that follows changes nothing: should User.Conn become   *)
(* nil after its nil check, the panic ends this handler only (Recover).    *)
ResultOver(r) ==
  /\ ReqAt(r, "over")
  /\ SetStatus(r, Waiting)
  /\ ReqDone(r)
  /\ UNCHANGED <<sessions, userConn, queue, connVars, sock, told, up>>

(* CaptchaHandler.Verify with an accepted click; no status is checked.     *)
CaptchaSolved(s) ==
  /\ up /\ "captcha" \in Calls
  /\ CookieHeld(s) /\ s \in sessions
  /\ status' = [status EXCEPT ![s] = Registering]
  /\ UNCHANGED <<sessions, userConn, queue, connVars, sock, told, reqVars, up>>
-----------------------------------------------------------------------------
(* The failure path                                                        *)

(* RegisterHandler.Submit always fails; it requires registering.           *)
FailSubmit(r, s) == status[s] = Registering /\ BeginRequest(r, s, "submit", "tell")

(* The third wrong answer to CaptchaHandler.Verify or OTPHandler.Verify:   *)
(* neither checks the status.  The count of attempts is not kept here.     *)
FailAttempts(r, s) == BeginRequest(r, s, "attempts", "tell")

(* if user.Conn != nil, twice on the failure path: `then` is done when     *)
(* there is a connection, `else` when there is none.                       *)
NilCheck(r, here, then, else) ==
  /\ ReqAt(r, here)
  /\ IF userConn[rsess[r]] = NoConn THEN else ELSE then
  /\ UNCHANGED <<sessions, status, userConn, queue, connVars, sock, told, up>>

FailTell(r) == NilCheck(r, "tell", ReqTo(r, "write"), ReqTo(r, "reset"))

(* user.Conn.WriteJSON(failure) reads User.Conn again.  A nil there panics *)
(* in the handler's goroutine: the Recover middleware of main.go answers   *)
(* 500 and the rest of the handler, the reset included, does not run.      *)
FailWrite(r) == NilCheck(r, "write", ReqTo(r, "reset"), ReqDone(r))

FailReset(r) ==
  /\ ReqAt(r, "reset")
  /\ SetStatus(r, Waiting)
  /\ ReqTo(r, "detach")
  /\ UNCHANGED <<sessions, userConn, queue, connVars, sock, told, up>>

(* Wrong on purpose: the connection is captured without the nil check.     *)
DetachUnchecked(r) ==
  /\ ReqAt(r, "detach")
  /\ ReqTo(r, "capture")
  /\ UNCHANGED <<sessions, status, userConn, queue, connVars, sock, told, up>>

FailDetach(r) == NilCheck(r, "detach", ReqTo(r, "capture"), ReqDone(r))

(* conn := user.Conn                                                       *)
FailCapture(r) ==
  /\ ReqAt(r, "capture")
  /\ rconn' = [rconn EXCEPT ![r] = userConn[rsess[r]]]
  /\ rpc' = [rpc EXCEPT ![r] = "forget"]
  /\ UNCHANGED <<sessions, status, userConn, queue, connVars, sock, told, rsess, up>>

(* user.Conn = nil, and the handler answers                            *)
FailForget(r) ==
  /\ ReqAt(r, "forget")
  /\ userConn' = [userConn EXCEPT ![rsess[r]] = NoConn]
  /\ ReqTo(r, "hangup")
  /\ UNCHANGED <<sessions, status, queue, connVars, sock, told, up>>

(* Wrong on purpose: the goroutine that should close is not started.       *)
HangupForgotten(r) ==
  /\ ReqAt(r, "hangup")
  /\ ReqDone(r)
  /\ UNCHANGED <<sessions, status, userConn, queue, connVars, sock, told, up>>

(* go conn.Close(): on nil it panics where nothing recovers.               *)
FailHangup(r) ==
  /\ ReqAt(r, "hangup")
  /\ IF rconn[r] = NoConn
     THEN up' = FALSE /\ UNCHANGED sock
     ELSE sock' = [sock EXCEPT ![rconn[r]] = "closed"] /\ UNCHANGED up
  /\ ReqDone(r)
  /\ UNCHANGED <<sessions, status, userConn, queue, connVars, told>>
-----------------------------------------------------------------------------
ConnStep(c) ==
  \/ UpgradeOk(c) \/ UpgradeFails(c) \/ Attach(c) \/ Enqueue(c) \/ Announce(c)
  \/ ReadError(c) \/ CleanupRemove(c) \/ CleanupBroadcast(c) \/ CleanupClose(c)

ReqStep(r) ==
  \/ StartPromote(r) \/ StartRemove(r) \/ StartBroadcast(r)
  \/ ResultClear(r) \/ ResultOver(r)
  \/ FailTell(r) \/ FailWrite(r) \/ FailReset(r) \/ FailDetach(r)
  \/ FailCapture(r) \/ FailForget(r) \/ FailHangup(r)

(* What clients decide: when to connect, to leave, to call, to fall silent.*)
ClientStep ==
  \/ \E c \in Conns, s \in Sessions : ConnectFresh(c, s) \/ ConnectAgain(c, s)
  \/ \E c \in Conns : ClientLeaves(c) \/ ReadDeadline(c)
  \/ \E r \in Reqs, s \in Sessions :
        StartCheck(r, s) \/ ResultCheck(r, s) \/ FailSubmit(r, s) \/ FailAttempts(r, s)
  \/ \E s \in Sessions : CaptchaSolved(s)

Next ==
  \/ ClientStep
  \/ \E c \in Conns : ConnStep(c)
  \/ \E r \in Reqs : ReqStep(r)

Spec == Init /\ [][Next]_vars

(* Go's scheduler runs every goroutine that can run, and sync.RWMutex and  *)
(* sync.Mutex starve none; nothing is assumed of the clients.              *)
Fairness ==
  /\ \A c \in Conns : WF_vars(ConnStep(c))
  /\ \A r \in Reqs : WF_vars(ReqStep(r))

FairSpec == Spec /\ Fairness
-----------------------------------------------------------------------------
(* Properties                                                              *)

QueueEntries == [id : Sessions, conn : Conns]
Updates == [position : Nat, total : Nat]

(* Every variable holds what its declaration says; a connection has a      *)
(* session from Connect on, a request from its session lookup on, and a    *)
(* captured connection only between the capture and its Close.             *)
TypeOK ==
  /\ sessions \subseteq Sessions
  /\ status \in [Sessions -> Statuses]
  /\ userConn \in [Sessions -> Conns \cup {NoConn}]
  /\ queue \in Seq(QueueEntries)
  /\ owner \in [Conns -> Sessions \cup {NoSession}]
  /\ cpc \in [Conns -> ConnPlaces]
  /\ \A c \in Conns : cpc[c] = "new" <=> owner[c] = NoSession
  /\ sock \in [Conns -> {"none", "open", "gone", "closed"}]
  /\ told \in [Conns -> Updates]
  /\ rpc \in [Reqs -> ReqPlaces]
  /\ rsess \in [Reqs -> Sessions \cup {NoSession}]
  /\ \A r \in Reqs : rpc[r] = "idle" <=> rsess[r] = NoSession
  /\ rconn \in [Reqs -> Conns \cup {NoConn}]
  /\ \A r \in Reqs : rpc[r] \in {"forget", "hangup"} \/ rconn[r] = NoConn
  /\ up \in BOOLEAN

Queued(c) == \E i \in DOMAIN queue : queue[i].conn = c

(* A connection is in the queue once at most, and only after its Connect   *)
(* put it there: queue.Add is called once per connection.                  *)
QueuedOnce ==
  /\ \A i, j \in DOMAIN queue : queue[i].conn = queue[j].conn => i = j
  /\ \A c \in Conns :
       cpc[c] \in {"new", "upgrade", "attach", "enqueue"} => ~Queued(c)

(* Some goroutine has changed the queue and has its broadcast still to do. *)
BroadcastOwed ==
  \/ \E c \in Conns : cpc[c] \in {"announce", "reannounce"}
  \/ \E r \in Reqs : rpc[r] = "announce"

ToldTheTruth ==
  \A i \in DOMAIN queue : told[queue[i].conn] = Update(i, Len(queue))

(* Whatever goroutines joined, left or promoted meanwhile: everybody in    *)
(* the line was last told the position and the total they really have,     *)
(* unless a goroutine is between its change and its broadcast.             *)
PositionsFresh == ToldTheTruth \/ BroadcastOwed

(* Nobody is served through somebody else's connection: an entry names the *)
(* session that owns its connection, and what User.Conn and the failure    *)
(* path hold (and will close) is a connection of that same session.        *)
OwnConnection ==
  /\ \A i \in DOMAIN queue : queue[i].id = owner[queue[i].conn]
  /\ \A s \in Sessions : userConn[s] = NoConn \/ owner[userConn[s]] = s
  /\ \A r \in Reqs : rconn[r] = NoConn \/ owner[rconn[r]] = rsess[r]

PlacesOf(s) == {c \in Conns : owner[c] = s /\ Queued(c)}
LiveConnsOf(s) ==
  {c \in Conns : owner[c] = s /\ cpc[c] \in {"announce", "serve", "leave"}}

(* However cleanups, promotions and reconnects interleave, and although    *)
(* Remove may take the wrong entry of a session, a session never has more  *)
(* entries in the queue than connections still being served: the queue     *)
(* holds no entry that nothing will ever remove.                           *)
NoGhosts == \A s \in Sessions : Cardinality(PlacesOf(s)) <= Cardinality(LiveConnsOf(s))

(* No goroutine ends the process: User.Conn is not nil where the failure   *)
(* path closes the connection it captured.  (Holds when requests come one  *)
(* at a time; see the README for two.)                                     *)
NeverCrashes == up

(* The line as WaitingLine sees it, and the connections that ever joined.  *)
line == [i \in DOMAIN queue |-> queue[i].conn]
seen == {c \in Conns : sock[c] # "none" /\ cpc[c] \notin {"attach", "enqueue"}}

Line == INSTANCE WaitingLine WITH Tickets <- Conns

(* The queue is a waiting line of connections: joins are at the tail and   *)
(* once per connection, nobody who stays is overtaken.                     *)
LineSpec == Line!Spec

(* A waiting user who came back after a disconnection stays in the line:   *)
(* the late cleanup of the old connection, whose own place is given up     *)
(* already, takes nobody else's. (spec.md, reconnect policy.)              *)
NewestKeepsPlace ==
  [][\A c, d \in Conns :
       /\ cpc[c] = "serve" /\ Queued(c)
       /\ userConn[owner[c]] = c /\ status[owner[c]] = Waiting
       /\ owner[d] = owner[c] /\ sock[d] # "open" /\ ~Queued(d)
       /\ cpc[d] = "leave" /\ cpc'[d] = "reannounce"
       => Queued(c)']_vars

HungUp(s) == \A c \in Conns : owner[c] = s => sock[c] # "open"

(* A session without any open connection has no entry left in the end      *)
(* (unless it connects again, or the process is gone): the read error of   *)
(* every connection reaches its cleanup.                                   *)
EntriesLeave ==
  \A s \in Sessions : HungUp(s) ~> (PlacesOf(s) = {} \/ ~HungUp(s) \/ ~up)

(* The line is told the truth again after every change.                    *)
PositionsCatchUp == ~ToldTheTruth ~> (ToldTheTruth \/ ~up)

(* A connection captured by the failure path is closed and its goroutine   *)
(* cleans up, even when its Connect had not queued it yet.                 *)
EjectedCleansUp ==
  \A c \in Conns :
    (\E r \in Reqs : rpc[r] = "hangup" /\ rconn[r] = c) ~> (cpc[c] = "done" \/ ~up)
=============================================================================

-------------------------------- MODULE Turns --------------------------------
(***************************************************************************)
(* The turn of the first user in the line, given after a delay:            *)
(* DelayExecutor.ExecuteWithCallback (internal/delay) with                 *)
(* WebSocketHandler.PromoteFirstUser as its callback, on the session store *)
(* with expiry (internal/session) and the waiting queue.  main.go calls    *)
(* neither yet; their tests call them one at a time.  Here several calls   *)
(* share one executor, connections come and go, sessions expire, and       *)
(* stage.TransitionManager (internal/stage) moves users meanwhile.  One    *)
(* action is one critical section, or one access outside any.              *)
(***************************************************************************)
EXTENDS Users, WaitingQueue

CONSTANTS
  Sessions,   \* session ids
  Conns,      \* WebSocket connections; each is queued at most once
  Calls,      \* one element per call of ExecuteWithCallback, and its timer
  Moves,      \* one element per call of TransitionManager.Execute
  NoTimer, NoEntry, NoSession

ASSUME NilIsNobody ==
  NoTimer \notin Calls /\ NoSession \notin Sessions /\ NoEntry \notin [id : Sessions, conn : Conns]
ASSUME FiniteConns == IsFiniteSet(Conns)

VARIABLES
  store,      \* of each session: "none", "in" the map, or "out" of it again
  aged,       \* sessions created longer than the expiry ago
  status,     \* User.Status
  queue,      \* WaitingQueue.users
  conn,       \* where each connection stands
  owner,      \* whose each connection is
  heard,      \* the latest position each connection was sent
  told,       \* connections that were told it is their turn
  canceled, timer,
              \* the fields of DelayExecutor
  chan,       \* what is in the channel of each timer
  pc,         \* where each call stands
  waits,      \* the timer each call waits for
  first,      \* the entry each call has popped
  move,       \* where each transition stands, and of whom it is
  revoked,    \* history: calls cancelled before their delay was over,
              \* with no other call of the executor since
  promoted,   \* history: connections whose pop promoted their session
  overtaken   \* history: transitions whose user moved after the check

storeVars == <<store, aged>>
lineVars == <<queue, conn, owner, heard, told>>
userVars == <<status, promoted, overtaken>>
executorVars == <<canceled, timer, chan, waits, revoked>>
vars == <<storeVars, userVars, lineVars, executorVars, pc, first, move>>

Places == {"idle", "await", "waiting", "check", "pop", "lookup", "age",
           "expire", "promote", "tell", "broadcast", "done"}
InCallback == Places \ {"idle", "await", "waiting", "check", "done"}
NoMove == [at |-> "idle", of |-> NoSession, to |-> Waiting]

Init ==
  /\ store = [s \in Sessions |-> "none"] /\ aged = {}
  /\ status = [s \in Sessions |-> Waiting]
  /\ queue = <<>>
  /\ conn = [c \in Conns |-> "new"]
  /\ owner = [c \in Conns |-> NoSession]
  /\ heard = [c \in Conns |-> NoUpdate] /\ told = {}
  /\ canceled = FALSE /\ timer = NoTimer
  /\ chan = [e \in Calls |-> "none"]
  /\ pc = [e \in Calls |-> "idle"]
  /\ waits = [e \in Calls |-> NoTimer]
  /\ first = [e \in Calls |-> NoEntry]
  /\ move = [m \in Moves |-> NoMove]
  /\ revoked = {} /\ promoted = {} /\ overtaken = {}

At(e, place) == pc[e] = place
GoTo(e, place) == pc' = [pc EXCEPT ![e] = place]

Step(e, here, next) ==
  /\ At(e, here) /\ GoTo(e, next)
  /\ UNCHANGED <<storeVars, userVars, lineVars, executorVars, first, move>>

(* Every connection in the queue is sent its position.                     *)
Broadcast ==
  heard' = [c \in Conns |->
              LET update == BroadcastPositions(queue, Conns)[c]
              IN  IF update = NoUpdate THEN heard[c] ELSE update]

-----------------------------------------------------------------------------
(* SessionStore                                                            *)

(* Ids are random: none comes back.                                        *)
Create(s) ==
  /\ store[s] = "none"
  /\ store' = [store EXCEPT ![s] = "in"]
  /\ UNCHANGED <<aged, userVars, lineVars, executorVars, pc, first, move>>

Elapse(s) ==
  /\ store[s] # "none" /\ s \notin aged
  /\ aged' = aged \cup {s}
  /\ UNCHANGED <<store, userVars, lineVars, executorVars, pc, first, move>>

Removed(s) == store' = [store EXCEPT ![s] = "out"]

Delete(s) ==
  /\ store[s] = "in" /\ Removed(s)
  /\ UNCHANGED <<aged, userVars, lineVars, executorVars, pc, first, move>>

-----------------------------------------------------------------------------
(* The connections, as far as the queue sees them (their own races are in  *)
(* Lobby): Connect adds and broadcasts, the cleanup removes and broadcasts.*)

Enqueue(c, s) ==
  /\ conn[c] = "new" /\ store[s] # "none"
  /\ queue' = Add(queue, s, c)
  /\ conn' = [conn EXCEPT ![c] = "joined"] /\ owner' = [owner EXCEPT ![c] = s]
  /\ UNCHANGED <<storeVars, userVars, heard, told, executorVars, pc, first, move>>

(* The cleanup removes by session: it may take another connection's entry. *)
Depart(c) ==
  /\ conn[c] = "in"
  /\ queue' = Leave(queue, owner[c])
  /\ conn' = [conn EXCEPT ![c] = "left"]
  /\ UNCHANGED <<storeVars, userVars, owner, heard, told, executorVars, pc, first, move>>

Announce(c) ==
  /\ conn[c] \in {"joined", "left"}
  /\ conn' = [conn EXCEPT ![c] = IF conn[c] = "joined" THEN "in" ELSE "gone"]
  /\ Broadcast
  /\ UNCHANGED <<storeVars, userVars, queue, owner, told, executorVars, pc, first, move>>

-----------------------------------------------------------------------------
(* DelayExecutor                                                           *)

(* Every call begins by taking back a cancellation, whomever it was for.   *)
Uncancel == canceled' = FALSE /\ revoked' = {}

(* Execute, whose delay is a sleep that Cancel does not touch.             *)
Execute ==
  /\ canceled /\ Uncancel
  /\ UNCHANGED <<storeVars, userVars, lineVars, timer, chan, waits, pc, first, move>>

ExecuteWithCallback(e) ==
  /\ At(e, "idle") /\ GoTo(e, "await")
  /\ Uncancel
  /\ timer' = e
  /\ chan' = [chan EXCEPT ![e] = "armed"]
  /\ UNCHANGED <<storeVars, userVars, lineVars, waits, first, move>>

(* <-e.timer.C reads the field outside the mutex: the timer may be that of *)
(* a call that came later.                                                 *)
Await(e) ==
  /\ At(e, "await") /\ GoTo(e, "waiting")
  /\ waits' = [waits EXCEPT ![e] = timer]
  /\ UNCHANGED <<storeVars, userVars, lineVars, canceled, timer, chan, revoked, first, move>>

Fire(e) ==
  /\ chan[e] = "armed"
  /\ chan' = [chan EXCEPT ![e] = "fired"]
  /\ UNCHANGED <<storeVars, userVars, lineVars, canceled, timer, waits, revoked, pc, first, move>>

(* Wrong on purpose: the value of the latest timer is taken.               *)
WakeOnLatest(e) ==
  /\ At(e, "waiting") /\ chan[timer] = "fired"
  /\ chan' = [chan EXCEPT ![timer] = "taken"]
  /\ GoTo(e, "check")
  /\ UNCHANGED <<storeVars, userVars, lineVars, canceled, timer, waits, revoked, first, move>>

(* One value, for one of those who wait.                                   *)
Wake(e) ==
  /\ At(e, "waiting") /\ chan[waits[e]] = "fired"
  /\ chan' = [chan EXCEPT ![waits[e]] = "taken"]
  /\ GoTo(e, "check")
  /\ UNCHANGED <<storeVars, userVars, lineVars, canceled, timer, waits, revoked, first, move>>

(* Wrong on purpose: that the timer was stopped in time is relied upon.    *)
CheckNothing(e) == Step(e, "check", "pop")

Check(e) == Step(e, "check", IF canceled THEN "done" ELSE "pop")

Pending(e) == pc[e] \in {"await", "waiting"}

(* Stop leaves no value in the channel (Go 1.23), fired or not: who waits  *)
(* for this timer waits for ever.                                          *)
Cancel ==
  /\ canceled' = TRUE
  /\ chan' = [e \in Calls |->
                IF e = timer /\ chan[e] \in {"armed", "fired"} THEN "stopped" ELSE chan[e]]
  /\ revoked' = revoked \cup {e \in Calls : Pending(e)}
  /\ UNCHANGED <<storeVars, userVars, lineVars, timer, waits, pc, first, move>>

-----------------------------------------------------------------------------
(* PromoteFirstUser                                                        *)

(* Wrong on purpose: the first entry is read, and removed by its id later. *)
PeekOnly(e) ==
  /\ At(e, "pop")
  /\ IF queue = <<>>
     THEN GoTo(e, "done") /\ UNCHANGED first
     ELSE first' = [first EXCEPT ![e] = Head(queue)] /\ GoTo(e, "lookup")
  /\ UNCHANGED <<storeVars, userVars, lineVars, executorVars, move>>

Pop(e) ==
  /\ At(e, "pop")
  /\ IF queue = <<>>
     THEN GoTo(e, "done") /\ UNCHANGED <<queue, first>>
     ELSE /\ first' = [first EXCEPT ![e] = Head(queue)]
          /\ queue' = Tail(queue)
          /\ GoTo(e, "lookup")
  /\ UNCHANGED <<storeVars, userVars, conn, owner, heard, told, executorVars, move>>

(* Wrong on purpose: found and not found are mixed up.                     *)
LookupReversed(e) == Step(e, "lookup", IF store[first[e].id] = "in" THEN "tell" ELSE "age")

(* SessionStore.Get: the map under the read lock, ...                      *)
Lookup(e) == Step(e, "lookup", IF store[first[e].id] = "in" THEN "age" ELSE "tell")

(* ... the age of the entry under none, also of one deleted since, ...     *)
Age(e) == Step(e, "age", IF first[e].id \in aged THEN "expire" ELSE "promote")

(* ... and the deletion under the write lock.                              *)
Expire(e) ==
  /\ At(e, "expire") /\ GoTo(e, "tell")
  /\ Removed(first[e].id)
  /\ UNCHANGED <<aged, userVars, lineVars, executorVars, first, move>>

(* Who writes a status overtakes the transitions of that user that are     *)
(* between their check and their write.                                    *)
SetStatus(s, value) ==
  /\ status' = [status EXCEPT ![s] = value]
  /\ overtaken' = overtaken \cup {m \in Moves : move[m].at = "write" /\ move[m].of = s}

(* Wrong on purpose: the legacy stage is entered.                          *)
PromoteToLegacy(e) ==
  /\ At(e, "promote") /\ GoTo(e, "tell")
  /\ SetStatus(first[e].id, Stage2Captcha)
  /\ promoted' = promoted \cup {first[e].conn}
  /\ UNCHANGED <<storeVars, lineVars, executorVars, first, move>>

(* user.Status = StatusStage1Dino, whatever it was.                        *)
Promote(e) ==
  /\ At(e, "promote") /\ GoTo(e, "tell")
  /\ SetStatus(first[e].id, Stage1Dino)
  /\ promoted' = promoted \cup {first[e].conn}
  /\ UNCHANGED <<storeVars, lineVars, executorVars, first, move>>

(* Told so with or without a session.                                      *)
Tell(e) ==
  /\ At(e, "tell") /\ GoTo(e, "broadcast")
  /\ told' = told \cup {first[e].conn}
  /\ UNCHANGED <<storeVars, userVars, queue, conn, owner, heard, executorVars, first, move>>

(* Wrong on purpose: the rest learns of its place with the next change.    *)
TellNobody(e) == Step(e, "broadcast", "done")

TellTheRest(e) ==
  /\ At(e, "broadcast") /\ GoTo(e, "done")
  /\ Broadcast
  /\ UNCHANGED <<storeVars, userVars, queue, conn, owner, told, executorVars, first, move>>

-----------------------------------------------------------------------------
(* TransitionManager.Execute: the check and the write are apart.           *)

(* Wrong on purpose: every target is a valid one.                          *)
TransitionUnasked(m, s, to) ==
  /\ move[m] = NoMove /\ store[s] # "none"
  /\ move' = [move EXCEPT ![m] = [at |-> "write", of |-> s, to |-> to]]
  /\ UNCHANGED <<storeVars, userVars, lineVars, executorVars, pc, first>>

CanTransition(m, s, to) ==
  /\ move[m] = NoMove /\ store[s] # "none"
  /\ CanTransitionTo(status[s], to)
  /\ move' = [move EXCEPT ![m] = [at |-> "write", of |-> s, to |-> to]]
  /\ UNCHANGED <<storeVars, userVars, lineVars, executorVars, pc, first>>

Transition(m) ==
  /\ move[m].at = "write"
  /\ SetStatus(move[m].of, move[m].to)
  /\ move' = [move EXCEPT ![m].at = "done"]
  /\ UNCHANGED <<storeVars, promoted, lineVars, executorVars, pc, first>>

-----------------------------------------------------------------------------
StoreStep == \E s \in Sessions : Create(s) \/ Elapse(s) \/ Delete(s)
ConnStep == \E c \in Conns : Announce(c) \/ Depart(c) \/ \E s \in Sessions : Enqueue(c, s)
CallStep(e) ==
  \/ Await(e) \/ Wake(e) \/ Check(e) \/ Pop(e) \/ Lookup(e) \/ Age(e)
  \/ Expire(e) \/ Promote(e) \/ Tell(e) \/ TellTheRest(e)
MoveStep(m) ==
  \/ \E s \in Sessions : \E to \in {Waiting, Stage1Dino, Registering} : CanTransition(m, s, to)
  \/ Transition(m)

Next ==
  \/ StoreStep \/ ConnStep \/ Execute \/ Cancel
  \/ \E e \in Calls : ExecuteWithCallback(e) \/ Fire(e) \/ CallStep(e)
  \/ \E m \in Moves : MoveStep(m)

Spec == Init /\ [][Next]_vars

-----------------------------------------------------------------------------
Messages == [position : 0..Cardinality(Conns), total : 0..Cardinality(Conns)]
Entries == [id : Sessions, conn : Conns]

(* Every variable holds what its declaration says.                         *)
TypeOK ==
  /\ store \in [Sessions -> {"none", "in", "out"}] /\ aged \subseteq Sessions
  /\ status \in [Sessions -> {Waiting, Stage1Dino, Registering}]
  /\ queue \in Seq(Entries)
  /\ conn \in [Conns -> {"new", "joined", "in", "left", "gone"}]
  /\ owner \in [Conns -> Sessions \cup {NoSession}]
  /\ heard \in [Conns -> Messages] /\ told \subseteq Conns
  /\ canceled \in BOOLEAN /\ timer \in Calls \cup {NoTimer}
  /\ chan \in [Calls -> {"none", "armed", "fired", "taken", "stopped"}]
  /\ pc \in [Calls -> Places] /\ waits \in [Calls -> Calls \cup {NoTimer}]
  /\ first \in [Calls -> Entries \cup {NoEntry}]
  /\ move \in [Moves -> [at : {"idle", "write", "done"}, of : Sessions \cup {NoSession},
                         to : {Waiting, Stage1Dino, Registering}]]
  /\ revoked \subseteq Calls /\ promoted \subseteq Conns /\ overtaken \subseteq Moves

(* However many callbacks run at once, a place in the line is given up to  *)
(* one of them, and is in the line no more.                                *)
PoppedOnce ==
  \A e \in Calls : first[e] # NoEntry =>
    /\ \A i \in DOMAIN queue : queue[i].conn # first[e].conn
    /\ \A other \in Calls \ {e} : first[other] # first[e]

(* Who is told that it is their turn has been promoted, unless the session *)
(* was deleted or has expired: then they are told all the same.            *)
TurnIsPromotion ==
  \A c \in told : c \in promoted \/ store[owner[c]] = "out" \/ owner[c] \in aged

(* When no join, departure or promotion is under way, everybody in the     *)
(* line was last told the place they have.                                 *)
Owing ==
  \/ \E c \in Conns : conn[c] \in {"joined", "left"}
  \/ \E e \in Calls : pc[e] \in InCallback \ {"pop"}
RestIsTold ==
  ~Owing => \A i \in DOMAIN queue : heard[queue[i].conn] = Update(i, Len(queue))

(* delay.go: "The callback is not called if Cancel is called before the    *)
(* delay completes."  So it is, also when calls share a timer, as long as  *)
(* no other call of the executor takes the cancellation back.              *)
NoneAfterCancel == \A e \in revoked : pc[e] \notin InCallback

(* A call that waits has a timer that will fire, or a value to take, unless*)
(* Cancel stopped that timer, or another call, which read the same timer   *)
(* outside the mutex, took its one value: those two wait for ever.         *)
WaitsForSomething ==
  \A e \in Calls : At(e, "waiting") =>
    \/ chan[waits[e]] \in {"armed", "fired", "stopped"}
    \/ \E other \in Calls \ {e} : waits[other] = waits[e] /\ ~At(other, "waiting")

(* The status leaves the table of user.go in two ways only: a promotion,   *)
(* which does not look at it, and a transition that somebody overtook      *)
(* between its check and its write.                                        *)
OnlyStaleSkips ==
  [][\A s \in Sessions :
       status'[s] # status[s] /\ ~CanTransitionTo(status[s], status'[s]) =>
         \/ \E e \in Calls : At(e, "promote") /\ first[e].id = s
         \/ \E m \in overtaken : move[m].at = "write" /\ move[m].of = s]_vars
=============================================================================

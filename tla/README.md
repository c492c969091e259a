# Models, checks and proofs of hackz-ptera-back

The server is a joke registration site: people queue over a WebSocket, play a
Dino game, work through tasks (CAPTCHA, calculus OTP, password), submit, and are
always thrown back to the queue. Its logic is small; what is hard about it is
that **every HTTP request and every WebSocket runs in a goroutine of its own and
`model.User` has no lock**. This directory models those goroutines, checks the
models with TLC and proves the most important results with TLAPS.

## The system

| Part (package) | State | Operations | Meets the others through |
|---|---|---|---|
| WebSocket handler (`handler/websocket.go`) | one goroutine chain per connection | `Connect`, `handleMessages` and its deferred cleanup | store, queue, `User.Conn` |
| Waiting queue (`queue`) | slice of (session id, connection), RWMutex | `Add`, `Remove`, `PopFront`, `BroadcastPositions`, ... | called by WebSocket and Dino handlers |
| User (`model`) | status, attempts, CAPTCHA target, OTP code, token, `Conn` | transition table, counters, `ResetToWaiting` | written by every handler, unsynchronised |
| Session store (`session`) | id -> user, RWMutex | `Create`, `Get`, (expiry, `Delete`: unused) | every handler begins with `Get` |
| Dino, CAPTCHA, OTP, register handlers (`handler`) | none of their own | `Start`, `Result`; `Generate`, `Verify`; `Send`, `Verify`; `Submit` | user, queue, the captured connection |
| CAPTCHA image (`captcha`) | the placements of one image | `GenerateMultiCharacter`, `Upload`, `TryPlace` | S3; the handler keeps the target |
| Stage timeouts (`game`), token monitor (`token`) | timers, stop channels | `Start`, `Cancel`; `Watch`, `Unwatch`, `Stop` | user, `User.Conn`; **not wired by main.go** |
| Delay executor (`delay`), `PromoteFirstUser`, transitions (`stage`) | a timer and a flag behind a mutex | `ExecuteWithCallback`, `Cancel`; pop, promote, tell; check and write | queue, store, status; **not wired by main.go** |
| Rate limiter (`middleware`) | a counter per address, a cleanup goroutine | `isAllowed`, `cleanup` | **not wired by main.go** |
| Calculus problems (`calculus`), password analysis (`ai`, `handler/password.go`), kana (`util`) | none | `Generate`; `AnalyzePassword`; `KanaMatch` | OTP handler; Bedrock; kana has no caller |
| Failure handler, fish, S3, configuration, responses | little or none | see `PROJECT.json` | |

What makes each part correct, and what is hard about it:

- **Queue and connections.** A connection is queued once, at the tail; an entry
  disappears with its connection; positions told are the positions held.
  Hard: cleanups that run up to 60 s late, several tabs of one session (one id,
  several entries; `Remove` takes the first), promotions in between.
- **Failure path** (CAPTCHA, OTP, register, and timeouts). The user is told,
  reset, detached and disconnected; the connection closed is the user's own.
  Hard: check, capture and clear of `User.Conn` are separate steps.
- **Stages.** Wrong answers are counted, the third starts the user over, the
  answer is compared with what is on the screen. Hard: lost and revived counts,
  failing regeneration, handlers called in any order, answers that come in another
  order than the writes they tell of.
- **Clock-driven goroutines.** No expiry is missed or handled with a closed
  channel; what is detached is closed. Hard: expiry against `Cancel`, `Start`,
  `Unwatch` and reconnection.
- **Giving a turn.** A place in the line is given up to one caller, who is told
  their turn is promoted, a cancelled callback is not called, and the line
  learns its new places. Hard: calls that share one timer field, which is read
  outside the mutex; sessions that expire between the pop and the lookup;
  transitions that check and write in two steps.
- **Rate limiter.** At most the limit passes per window, and nobody can tell
  that the cleanup runs. Hard: the boundary of a window, two windows that touch.
- **Answers.** What is printed has the code as its solution; names match when
  their runes do, up to the offset between the kana blocks; every password gets an analysis. Hard: edges of ranges and
  blocks, patterns that match and yet do not apply.
- **CAPTCHA image.** Characters do not overlap and only the target solves it.
  Hard: half-open rectangles, exclusive random bounds, giving up half way.

## Modules

| Module | What it is |
|---|---|
| `WaitingQueue` | the queue's operations as operators on a sequence of entries. Each Go method holds the mutex for its whole body, so each is one step wherever it is used |
| `Users` | statuses, transition table, limits (`model/user.go`) |
| `WaitingLine` | abstract specification: a line of tickets, joined once at the tail, left in any order |
| `Lobby` | sessions, connections, queue, Dino handler, the shared failure path; EXTENDS `WaitingQueue` and `Users`, implements `WaitingLine` |
| `Stages` | one user and the handlers of all stages, step by step; EXTENDS `Users` |
| `Watchdogs` | stage timeouts and token monitor acting on one user |
| `Turns` | delay executor, `PromoteFirstUser`, the session store with expiry, stage transitions; EXTENDS `WaitingQueue` and `Users` |
| `Windows` | abstract specification: windows of a quota, which nobody cleans up |
| `RateLimit` | the limiter with its cleanup goroutine; implements `Windows` |
| `Calculus`, `Kana`, `PasswordAnalysis` | the pure algorithms as operators |
| `Answers` | the calls that compute an answer; EXTENDS those three |
| `CaptchaImage` | the generation of one image, and the click test of `Verify` |
| `MCLobby`, `MCStages`, `MCTurns`, `MCRateLimit`, `MCAnswers`, `MCCaptchaImage` | instances for TLC: symmetry sets, bounds, small backgrounds |
| `WaitingQueueProofs`, `LobbyProofs`, `StagesProofs`, `WatchdogsProofs`, `TurnsProofs`, `RateLimitProofs`, `AnswersProofs`, `CaptchaImageProofs` | theorems and proofs; `TurnsProofs` and `AnswersProofs` also use the lemmas of `WaitingQueueProofs` |

An operator or action whose comment begins "Wrong on purpose" is a mutant: the
mutated form of the definition after it, which no specification uses.
`PROJECT.json` names, for every property, the mutant that violates it.

### Lobby against the code

`cpc[c]` is where the goroutine of connection `c` stands, `rpc[r]` where a
request does; one action is one access to shared state.

- `ConnectFresh`/`ConnectAgain` (create or get the session), `UpgradeOk`/`UpgradeFails`,
  `Attach` (`user.Conn = conn`), `Enqueue` (`queue.Add`), `Announce` (broadcast)
  are `Connect`; `ReadError`/`ReadDeadline` end the read loop, `CleanupRemove`,
  `CleanupBroadcast`, `CleanupClose` are the deferred function.
- `StartCheck`, `StartPromote`, `StartRemove`, `StartBroadcast` are
  `DinoHandler.Start`; `ResultCheck` with `ResultClear` or `ResultOver` is `Result`.
- `FailTell` .. `FailHangup` are `handleFakeServerError`; `handleMaxAttempts` of
  the CAPTCHA and OTP handlers is the same code. A nil `User.Conn` in
  `FailWrite` panics inside the handler: `middleware.Recover` ends that handler
  only. In `FailHangup` it panics in a bare goroutine: `up` becomes FALSE.
- `told[c]` is what the latest broadcast said to `c`: `BroadcastPositions` holds
  the read lock during all writes, so it is one step. A torn read of the
  interface value `User.Conn` gives no outcome other than nil or not nil, because
  every stored value has the same dynamic type.
- A browser gets a session's cookie only with the response to a completed
  upgrade (`CookieHeld`), so nobody calls a handler for a session before that.
- Not in `Lobby`: the counters that decide that a third wrong answer was given
  (`FailAttempts` may happen any time; `Stages` counts), messages other than
  positions, `PromoteFirstUser` (no caller) and session expiry (not configured),
  which are in `Turns`.

### Stages against the code

One user, `Reqs` concurrent handlers. `Calls` names the handlers of an instance.
`status`, `captchaTargetX`, `captchaTargetY`, `captchaAttempts`, `otpCode`,
`otpAttempts` are the fields. A coordinate is named by the image it comes from; a
click or an answer is the target or code it hits, and a click hits when both
coordinates do, which `VerifyClick` compares in one step. `u.CaptchaAttempts++` is
`CaptchaInc` (read) and `CaptchaStore` (write), and `CaptchaCheck` reads again, as
the method does. `ResetToWaiting` is two steps, the status and then everything
else; the writes of the second step have no other access between them in this
model.

Writing what the next answer is compared with and answering the client are steps
of their own. `DrawImage` (of `GenerateDone` and `Regenerate`) writes the first
coordinate, `TargetY` the second, `AnswerImage` answers; `DrawProblem` (of `SendCode`
and `Reproblem`) writes the code, `SendZero` the attempts, `AnswerProblem` answers;
after a reset, `AnswerOver` sends the user back to the line. `drawn[r]` is the local
variable that the answer is made of. A nil `User.Conn` at the write of a failure
message ends the handler before its answer (`FailWrite`, `OverWrite`).

History, read by no action: `shownImage` and `shownProblem`, what the answer that
came last showed; `wrongImage` and `wrongProblem`, how often the client was wrong
since it started over; `crossed`, of which kinds the last write happened while
another handler had written and not answered yet.

### Watchdogs against the code

A timer is one call of `Start`, a watcher one call of `Watch`. `Cancel` stops
the latest timer if it has not fired; `TimeoutCheck` is the part of
`handleTimeout` under the mutex, `Tell` .. `HangUp` the rest; `StopSeen` and
`Tick` are the two cases of the `select`, `Notify` .. `Drop` `handleExpiration`.
Nothing in production calls these packages, so the callers may do anything.
Nothing recovers a panic in these goroutines: when two of them act on
`User.Conn` at once the process may end (`up`), and the liveness properties
say so. `excused` is history: the connections that the code is known to
lose, see `NoneLost`.

### Turns against the code

`pc[e]` is where one call of `ExecuteWithCallback` stands, with
`PromoteFirstUser` as its callback (the repository has no other candidate).
`ExecuteWithCallback` is the locked part; `Await` evaluates `e.timer.C` and `Wake`
receives from it, because the field is read outside the mutex and may hold the
timer of a later call by then; `Check` is the second locked part. `Execute` only
takes a cancellation back; its sleep touches nothing. `Cancel` stops the latest
timer: since Go 1.23 (go.mod says 1.24) no value stays in the channel of a
stopped timer. `Pop`, `Lookup`, `Age`, `Expire`, `Promote`, `Tell`, `TellTheRest` are the
callback: `Get` is three steps, the map under the read lock, the age of the entry
under none, the deletion under the write lock. `CanTransition` and `Transition` are
the check and the write of `TransitionManager.Execute`; its message is left out.
Connections are reduced to the joins and departures the queue sees; their own
races are in `Lobby`. `revoked`, `promoted` and `overtaken` are history.

### RateLimit against the code

Time is in ticks, and of an entry the age is kept instead of `resetTime`.
`NewWindow`, `Count` and `Refuse` are the three ways through `isAllowed`, which holds the
lock; `Cleanup` is one round of the goroutine, some time after the ticker
fired, and `Tick` the clock and the ticker, which drops ticks nobody received.
`passed` is history: how many requests passed at most n ticks ago, for n up to the
window.

### Answers, Calculus, Kana, PasswordAnalysis against the code

`reply` is the answer a caller has not read yet. Every random draw is a choice:
of the code, the point, the option that the shuffle puts first among those that
fit. A coefficient is printed as a sequence of at most one number, empty for 1.
A rune is its code point. A character of a password is a number, with the
letters in order and everything that is neither letter nor digit above them, one
byte each; the three regular expressions are the positions where they match, the
leftmost of which counts. Which message is chosen and what it quotes is modelled,
its wording is not.

### CaptchaImage against the code

Positions are pixels, at a smaller scale. `TryPlace` draws at random up to 100
times: it may succeed at any free candidate and may fail whenever some candidate
collides. Which character is the target does not matter to any property.

## Runs

Type invariants that are proved (`Stages`, `Watchdogs`, `RateLimit`) are not checked
again; those of `Lobby`, `Turns` and `CaptchaImage` are, for their mutants.

| Run | Bounds | Shows |
|---|---|---|
| `lobby_line` | 2 sessions, 3 connections, 1 request (Start) | `TypeOK`, `QueuedOnce`, `PositionsFresh`, `NoGhosts`; the queue implements `WaitingLine` (`LineSpec`) |
| `lobby_failure` | 2 sessions, 2 connections, 1 request, every call | `OwnConnection`, `NoGhosts`, `NeverCrashes` |
| `lobby_live` | 1 session, 2 connections, 1 request, fairness | `EntriesLeave`, `PositionsCatchUp`, `EjectedCleansUp` |
| `stages_solo` | 1 request, 2 images, 2 problems, every handler | `WrongClicksCounted`, `WrongAnswersCounted`, `OnlySolvedSkips` |
| `stages_race` | 2 requests, 1 image, 1 problem, counters up to 3, fairness | `LimitIsHandled`, `StaleOnlyIfCrossed`, `LimitIsLeft` |
| `watchdogs` | 2 countdowns, 1 watch, 2 connections, fairness | `RunningHasTimer`, `ClosedOnce`, `NoneLost`, `ExpiryNoticed`, `HeldIsClosed` |
| `turns` | 2 delayed calls, 1 session with 2 connections, 1 transition | `TypeOK`, `PoppedOnce`, `TurnIsPromotion`, `RestIsTold`, `NoneAfterCancel`, `WaitsForSomething`, `OnlyStaleSkips` |
| `rate_limit` | 2 addresses, windows of 3 ticks for 2 requests, fairness | `BurstBounded`, `WindowSpec` (implements `Windows`), `OldOnesGo` |
| `answers` | edge cases of codes, runes and passwords (`MCAnswers`) | `PrintedProblemGivesCode`, `MatchIsSameReading`, `BirthdayIsCalled`, `EveryPasswordAnswered` |
| `captcha_image` | up to 5 files, 2 dummies per type, a roomy and a too narrow background | `TypeOK`, `NothingOverlaps`, `DummiesRefused`, `EverFinishes` |

Two runs show that the code does not do what the repository says of it:

| Run | What TLC finds |
|---|---|
| `lobby_place` | a user plays, the connection drops, the user reconnects and fails back to waiting; the late cleanup of the old connection then removes the *new* entry (`websocket.go:186` removes by session id). The user stays connected, waiting, and in no line. `spec.md:443` puts reconnecting users at the tail |
| `lobby_crash` | two submissions at once: both pass the nil check, the second captures nil and `go conn.Close()` ends the process (`register.go:100-105`, also in `captcha.go`, `otp.go`) |

Other deviations are stated as the exceptions of properties that hold:

- `OnlySolvedSkips`: only a solved CAPTCHA changes the status against the table of
  `user.go` (`captcha.go:163` takes a waiting user to registering, which
  `model/user_test.go:53` calls invalid).
- `WrongAnswersCounted`: asking for a new problem (`otp.go:77`) forgives wrong
  answers, of which `spec.md:462` allows three.
- `StaleOnlyIfCrossed`: two overlapping requests for an image may write their targets
  in one order and be answered in the other, or mix their coordinates
  (`captcha.go:109-116`; `captcha.go:189-200` and `otp.go:76-83`, `154-163` do the same):
  the picture on the screen is then not the one that clicks are compared with, while
  `spec.md:166` saves the target of the picture that `spec.md:172` tells the user to
  click in. The next handler that writes alone repairs it.
- `NoneLost`: a connection that comes while a job is about to clear `User.Conn` may
  be cleared away while open (`register_token.go:130`, `dino_timeout.go:98`), and
  a reconnect does not close the connection it replaces.
- `TurnIsPromotion`: a session that expired or was deleted is told its turn
  without being promoted (`websocket.go:223-236`).
- `NoneAfterCancel`: `delay.go:65` promises that a cancelled callback is not
  called; another call of the same executor takes the cancellation back.
- `WaitsForSomething`: a cancelled call waits at `delay.go:72` for ever, and so
  does one of two calls that read the same timer.
- `Quota`: a limit of 0 lets one request pass per window (`ratelimit.go:64`).

Start does not look at the queue at all (`dino.go:67`), while `spec.md:97` wants one
player at a time: there is no property of the code to state.

Why the bounds are enough: the hazards of the lobby need a session with an old
and a new connection, somebody else in the line and one request between them;
three connections add a second reconnection. One request at a time keeps the
failure path free of races with itself, which `lobby_crash` shows separately.
Two requests are what a lost count needs; a counter saturates at `MaxCount`,
at or above both limits, because nothing distinguishes two values above them
(stale writes could otherwise push it without end). The history of
wrong answers saturates at `MaxWrong`, which is above the limits where a property
looks at it and 0 where none does (`stages_race`).
Two requests are what it takes to answer in another order than was written;
one image and one problem let the screen differ from the fields by showing what
was reset, or nothing where something was written; that `StaleOnlyIfCrossed` also
holds with more of them, which can be mixed up, is proved. Two countdowns are what
a stale expiry needs. Two calls are what it takes to share a timer or to pop at the same time, and two
connections of one session what it takes for a departure to remove the other's
entry; one transition is enough, because every promotion can overtake it. A
second session multiplies the states of `turns` beyond five minutes and adds no
case to its properties, which relate an entry to its own session. In `rate_limit` the
window is long enough for the cleanup to fall on its first, inner and last tick,
and two requests are what "one too many" needs. The texts of `answers` hold
every rune at an edge of a block, alone and in pairs. In
`captcha_image` the larger background holds two characters in a row and as many rows as
collisions in both axes need.

Deadlock is not checked where a system may rightly stop: when every connection
attempt of the bound is over (`Lobby`), when a panic ended the process
(`Watchdogs`), when nobody calls the executor any more (`Turns`), when the image is
done (`CaptchaImage`).

### Fairness

Only goroutines are fair: Go's scheduler runs what can run, and its mutexes
starve nobody (weak fairness per connection, per request, per timer and
watcher). A read on a dead socket fails at the latest at the 60 s deadline, and
`time.AfterFunc` and tickers fire. The clock of `RateLimit` goes on, and its cleanup
goroutine gets the lock: that is all `OldOnesGo` needs. `Turns` and `Answers` state
no fairness: their properties are safety. Nothing is assumed of clients: they need
not call, leave, ping or come back; a silent client that is still there is only
*allowed* to run into its deadline (`ReadDeadline`, not fair).

## Proofs

`LobbyProofs`, for all sets of sessions and requests and every finite set of
connections (`DistinctNulls`, `FiniteConns`, `KnownCalls`):

- `TypeCorrect`: `Spec => []TypeOK`. `TypeOK` is inductive because it also says
  that a connection has an owner exactly from `Connect` on, and a request a
  session exactly while it runs; otherwise `queue` could be given an entry of no
  session.
- `OncePerConnection`: `Spec => []QueuedOnce`. Inductive together with `TypeOK`:
  that nobody is queued before `Enqueue` is what makes `Enqueue` add a new
  element. `LeaveProperties` (what `Remove` does to a sequence) is proved once in
  `WaitingQueueProofs`.
- `PositionsAreFresh`: `Spec => []PositionsFresh`. Every step that changes the
  queue leaves a goroutine with a broadcast to do, every broadcast tells the
  truth (this needs `QueuedOnce`: with two entries a connection would be told only
  one of its positions), and no other step touches queue or messages.
- `ConnectionsAreOwn`: `Spec => []OwnConnection`. Inductive given the types: a
  connection keeps its owner from `Connect` on (`OwnersStay`), `User.Conn` is only
  ever set by `Attach` of an own connection, and the failure path captures from
  there.
- `StaysUp`: `Spec /\ []OneRequestEach => []NeverCrashes`, as long as no session has two
  requests in progress. Inductive with `HoldsConnection`: between the second nil
  check and the `Close` only another request of the same session could set
  `User.Conn` to nil. `lobby_crash` is the counterexample without the
  hypothesis; a reconnect or a departure in between does no harm.
- `NothingHaunts`: `Spec => []NoGhosts`. `Remove` takes an entry of the session, not
  of the connection, so entries and connections of one session are counted:
  `Enqueue` adds one to both, `CleanupRemove` takes one from the connections and one
  from the entries if there is any, and every other step leaves the connections
  and can only remove entries. Uses `QueuedOnce` (entries are as many as queued
  connections) and `OwnConnection`.
- `ImplementsLine`: `Spec => LineSpec`. Inductive with `Upgraded` (a connection has a
  socket exactly from its upgrade on): `Enqueue` is a join of a ticket that was
  never seen, what `Remove` takes out is a departure, and a broadcast or any step
  of a socket leaves the line alone.

`CaptchaImageProofs`, for all sizes (`SizesArePositive`, `ToleranceIsHalf`):

- `CharactersApart`: `Spec => []NothingOverlaps`, from the inductive `Apart`
  (which adds that the target comes last) and the lemma that two places that do
  not intersect are separated on an axis.
- `DummiesAreRefused`: `Spec => []DummiesRefused`: a click within the tolerance is
  within it on each axis, and separated characters leave room for exactly the
  tolerance.
- `TypeCorrect`: `Spec => []TypeOK`: what is on the picture lies on the background.
  Inductive with `Fits`: nothing is placed before the background, and nothing
  fetched before the listing, is known.

`StagesProofs`, for any number of concurrent requests and any bounds:

- `TypeCorrect`: `Spec => []TypeOK`.
- `LimitsAreHandled`: `Spec => []LimitIsHandled`. Inductive given the types: a
  counter reaches its limit only by the write of a handler that is then about
  to compare it, and a handler leaves the way to the reset only by the reset, by
  a comparison that found the counter below its limit, or cut short.
- `StaleIsCrossed`: `Spec => []StaleOnlyIfCrossed`, for overlapping handlers.
  `ShownIsExpected`, without the exception, does not hold of them; what is proved is that
  nothing but a crossed write breaks it: not a handler that was overtaken while it
  generated, not a failed regeneration, not a reset by somebody else. Inductive as
  `ImageInOrder` and `ProblemInOrder`: where the last write crossed no other, at most
  one handler has written and not answered, what it will answer is what it wrote
  (after a reset: nothing), and if there is none, screen and field agree. A handler
  that finds its connection gone after a game over never answers; it is part of the
  invariant that only a crossed reset can take the connection away from it.
- `SoloShown`: `Spec /\ []OneAtATime => []ShownIsExpected`, a corollary: one at a time,
  no write crosses another.
- `SoloClicksCounted`, `SoloAnswersCounted`, `SoloSkips`: `WrongClicksCounted`,
  `WrongAnswersCounted` and `OnlySolvedSkips`, for as many requests as one likes, one
  at a time (`[]OneAtATime`). The first two are proved for a history that is long
  enough to see the limits (`LongHistory`), from `Solo`, which says for every place of
  a handler where the counters stand; the third from `Checked`, that the status a
  handler found is still there when it writes the next one. The hypothesis is needed: with two handlers
  at once TLC finds all three violated (counts get lost or revived, and a status is
  written over).

`WatchdogsProofs`, for any number of countdowns, watches and connections
(`NilIsNobody`, `JobsDiffer`):

- `TypeCorrect`: `Spec => []TypeOK`.
- `RunningIsArmed`: `Spec => []RunningHasTimer`. Inductive with `Uncanceled`: an expiry
  that gives up because of `canceled` leaves `running` as it is, so it must be
  FALSE by then.
- `ChannelsClosedOnce`: `Spec => []ClosedOnce`. Inductive with `Begun`: a channel that
  is in the map, or closed, belongs to a watch that was called, so the next one
  brings an open channel.
- `NoConnectionLost`: `Spec => []NoneLost`. Inductive with `Captured` (a timeout that is
  about to clear `User.Conn` has captured it, unless it is nil or excused by now),
  `Hung` (a watcher about to has closed it, with the same exceptions) and
  `EmptyHanded` (a capture overwrites nothing).

`TurnsProofs`, for any number of delayed calls, sessions and transitions and every
finite set of connections (`NilIsNobody`, `FiniteConns`), on top of `Sound`: the
types, that the line holds known entries of different connections, and that a
callback that has popped holds one too:

- `TypeCorrect`: `Spec => []TypeOK`.
- `EachPlaceOnce`: `Spec => []PoppedOnce`: what is popped leaves the line, and a
  connection is queued once, so no other callback can get it.
- `CancelHolds`: `Spec => []NoneAfterCancel`. Inductive as `Revoked`: while a call is
  revoked the executor stays cancelled, so its check can only end it.
- `WaitersExplained`: `Spec => []WaitsForSomething`. Inductive with `Timed`: whoever
  waits read a timer that was armed, and a value that is gone was taken by a
  call that waits no more.
- `SkipsExplained`: `Spec => OnlyStaleSkips`, an action property, with `Checked`: what a
  transition is about to write is allowed, unless it was overtaken.
- `ToldIsDue`: `Spec => []TurnIsPromotion`. Inductive with `TurnDue`: a callback that is
  about to tell has promoted, or found the session missing or too old, and
  neither is undone.
- `RestLearns`: `Spec => []RestIsTold`. Every change of the line leaves somebody owing a
  broadcast (`OwingSteps`), and a broadcast tells the truth because the line has
  nobody twice (`ToldTheTruth`).

`RateLimitProofs`, for every set of addresses, window and limit, 0 included
(`WindowPositive`, `LimitNat`, `NoEntryIsNone`):

- `TypeCorrect`: `Spec => []TypeOK`.
- `ImplementsWindows`: `Spec => WindowSpec`. Step by step: a new window is `Open`, a
  counted request is `Pass`, the clock is `Tick`, and a cleanup or a refusal is
  a stutter, because an entry past its window and no entry map to the same.
- `TwoQuotas`: `Spec => []BurstBounded`. Inductive as `Stretches`, which says how many
  requests a stretch of every length saw, by where it begins: after the opening
  request of the current window, at it, or before it, where it meets the window
  before. TLC finds that one request less is too few: the bound is exact.

`AnswersProofs`, for every code, point, order of options and constant
(`CodesHaveSixDigits`, `ConstantsInRange`), and for all texts and passwords of any
length (`TextsAreRunes`, `PasswordsAreCharacters`: they are sequences of numbers):

- `PrintedIsSolvable`: `Spec => []PrintedProblemGivesCode`, from the lemma that the
  smallest option always fits, so the last resort of `Generate`, which would make
  up a code of two digits, is never taken.
- `AnalysisIsGiven`: `Spec => []EveryPasswordAnswered`, from the shape of every reply.
- `BirthdaysAreCalled`: `Spec => []BirthdayIsCalled`. A date at the end is found by the
  pattern of four digits (`EndIsDated`), a pattern as long as the password can only
  match at its start (`WholeIsEnd`), and of several patterns the first that dates
  counts (`BirthdayIsFound`).
- `MatchesAreReadings`: `Spec => []MatchIsSameReading`. Trimming twice is trimming once
  (`TrimmedOnce`), and two runes have the same katakana exactly if they have the same
  hiragana (`RuneReading`), so texts of the same length do (`TextReading`). Two runes
  are the same reading by the code's offset of 0x60 over the whole block, as `kana.go` has it.
  At the end of the block that pairs marks nobody reads alike: ゛ with ・, ゜ with ー.

Every invariant and every refinement and action property that the passing runs
check is proved, `NeverCrashes`, `WrongClicksCounted`, `WrongAnswersCounted` and
`OnlySolvedSkips` under the hypotheses named above. Only model-checked is what is temporal under fairness
(`EntriesLeave`, `PositionsCatchUp`, `EjectedCleansUp`, `LimitIsLeft`, `ExpiryNoticed`,
`HeldIsClosed`, `OldOnesGo`, `EverFinishes`), which is beyond this prover, and the two
violations, which are counterexamples.

## Not modelled

Routing, JSON, CORS, AWS calls beyond success and failure, pixels and PNG (and
the superseded single-character `captcha.Generator.Generate`), prompt and wording of
the password analysis, the fish table, `DelayGenerator` (a draw from a range), the
mock frontend, the manual CAPTCHA page and the test utilities: they keep no
state that another part reads, or only produce output. Socket buffers: a client
that does not read can stall a broadcast, which is one step here. That the
session store only grows in main.go's configuration is not a matter of any
property. Of components that are modelled in part, `PROJECT.json` names the rest.

## Plan

1. Prove: the safety half of the liveness properties, that is, that whoever is to
   act is in a place from which it can (for `EntriesLeave` and `ExpiryNoticed` first),
   and that the executor of `Turns` implements a waiting line with departures at
   the head.
2. Extend: two sessions in `Turns` with a smaller executor; the single-character
   generator if it is ever wired.

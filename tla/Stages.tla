------------------------------- MODULE Stages --------------------------------
(***************************************************************************)
(* One user and the HTTP handlers of the stages (internal/handler: dino,   *)
(* captcha, otp, register).  Handlers run concurrently on the same         *)
(* model.User, which no lock protects: every action is one access to it.   *)
(* The queue and the fate of the connections are in Lobby; here User.Conn  *)
(* is only nil or not.                                                     *)
(***************************************************************************)
EXTENDS Users, FiniteSets

CONSTANTS
  Reqs,       \* requests that can be in progress at the same time
  Calls,      \* bound: the handlers that the client of an instance calls
  Images,     \* CAPTCHA images, each with the target area that solves it
  Problems,   \* calculus problems, each with its six-digit answer
  Zero,       \* Go's zero value: target (0,0), code 0, nothing shown
  MaxWrong,   \* bound: the history of wrong answers of one kind saturates there
  MaxCount    \* bound: the attempt counters of model.User saturate there

ASSUME ZeroIsNone == Zero \notin Images /\ Zero \notin Problems
ASSUME KnownCalls ==
  Calls \subseteq {"Start", "Result", "Generate", "VerifyClick", "Send", "VerifyAnswer", "Submit"}
ASSUME MaxWrongNat == MaxWrong \in Nat
ASSUME MaxCountAboveLimits ==
  MaxCount \in Nat /\ MaxCount >= MaxCaptchaAttempts /\ MaxCount >= MaxOTPAttempts

VARIABLES
  status, captchaTargetX, captchaTargetY, captchaAttempts, otpCode, otpAttempts,
              \* the fields of model.User; RegisterToken is written by the OTP
              \* handler and read by nobody
  attached,   \* User.Conn is not nil
  shownImage, shownProblem,
              \* what the latest answer to the client showed it
  drawn,      \* the image or problem a request has drawn and not yet answered
  crossed,    \* history: of which kinds the target was last written while
              \* another request had written it and not yet answered
  wrongImage, wrongProblem,
              \* wrong answers since the user last started over or, of
              \* problems, asked for a new one
  aborted,    \* a handler was cut short by a nil User.Conn
  rpc,        \* where a request stands
  rval        \* the counter value a request has read

captchaVars == <<captchaTargetX, captchaTargetY, captchaAttempts, wrongImage>>
otpVars == <<otpCode, otpAttempts, wrongProblem>>
answerVars == <<shownImage, shownProblem, drawn, crossed>>
connVars == <<attached, aborted>>
vars == <<status, captchaVars, otpVars, answerVars, connVars, rpc, rval>>

Places == {"idle", "promote", "clear", "over", "over_rest", "over_tell", "over_write",
           "generate", "solved", "captcha_inc", "captcha_store", "captcha_check",
           "regenerate", "target_y", "answer_image", "send", "send_zero", "otp_inc",
           "otp_store", "otp_check", "reproblem", "answer_problem", "tell", "write",
           "reset", "reset_rest", "detach", "forget", "answer_over"}

At(r, place) == rpc[r] = place
GoTo(r, place) == rpc' = [rpc EXCEPT ![r] = place] /\ UNCHANGED rval

Init ==
  /\ status = Waiting
  /\ captchaTargetX = Zero /\ captchaTargetY = Zero /\ captchaAttempts = 0
  /\ otpCode = Zero /\ otpAttempts = 0
  /\ attached = TRUE /\ aborted = FALSE
  /\ shownImage = Zero /\ shownProblem = Zero
  /\ drawn = [r \in Reqs |-> Zero] /\ crossed = {}
  /\ wrongImage = 0 /\ wrongProblem = 0
  /\ rpc = [r \in Reqs |-> "idle"]
  /\ rval = [r \in Reqs |-> 0]

Step(r, here, next) ==
  /\ At(r, here)
  /\ GoTo(r, next)
  /\ UNCHANGED <<status, captchaVars, otpVars, answerVars, connVars>>

(* A handler that checks the status goes on only in the stage it is for.   *)
Begin(r, required, place) == status = required /\ Step(r, "idle", place)

SetStatus(r, here, value, next) ==
  /\ At(r, here)
  /\ status' = value
  /\ GoTo(r, next)
  /\ UNCHANGED <<captchaVars, otpVars, answerVars, connVars>>

-----------------------------------------------------------------------------
(* A handler writes what the next answer of the user will be compared with,*)
(* and answers later; underway, it has done the one and not the other.     *)
StartingOver == {"over_tell", "over_write", "detach", "forget", "answer_over"}
Underway == [image |-> {"target_y", "answer_image"} \cup StartingOver,
             problem |-> {"send_zero", "answer_problem"} \cup StartingOver]

Crosses(r, kind) == \E other \in Reqs \ {r} : rpc[other] \in Underway[kind]
Writes(r, kinds) == crossed' = (crossed \ kinds) \cup {kind \in kinds : Crosses(r, kind)}

-----------------------------------------------------------------------------
(* ResetToWaiting: the status first, then every other field.               *)

(* Wrong on purpose: the CAPTCHA attempts survive the reset.               *)
ForgetsCounter(r, here, next) ==
  /\ At(r, here)
  /\ captchaTargetX' = Zero /\ captchaTargetY' = Zero /\ UNCHANGED captchaAttempts
  /\ otpCode' = Zero /\ otpAttempts' = 0
  /\ wrongImage' = 0 /\ wrongProblem' = 0
  /\ Writes(r, {"image", "problem"})
  /\ GoTo(r, next)
  /\ UNCHANGED <<status, shownImage, shownProblem, drawn, connVars>>

ResetRest(r, here, next) ==
  /\ At(r, here)
  /\ captchaTargetX' = Zero /\ captchaTargetY' = Zero /\ captchaAttempts' = 0
  /\ otpCode' = Zero /\ otpAttempts' = 0
  /\ wrongImage' = 0 /\ wrongProblem' = 0
  /\ Writes(r, {"image", "problem"})
  /\ GoTo(r, next)
  /\ UNCHANGED <<status, shownImage, shownProblem, drawn, connVars>>

(* The history of wrong answers, as far as an instance looks at it.        *)
OneMoreWrong(n) == IF n < MaxWrong THEN n + 1 ELSE MaxWrong

-----------------------------------------------------------------------------
(* DinoHandler                                                             *)

(* Wrong on purpose: anybody may start the game.                           *)
StartAnytime(r) == Step(r, "idle", "promote")

Start(r) == Begin(r, Waiting, "promote")

StartPromote(r) == SetStatus(r, "promote", Stage1Dino, "idle")

Result(r) == \E place \in {"clear", "over"} : Begin(r, Stage1Dino, place)
ResultClear(r) == SetStatus(r, "clear", Registering, "idle")
ResultOver(r) == SetStatus(r, "over", Waiting, "over_rest")
ResultOverRest(r) == ResetRest(r, "over_rest", "over_tell")

(* if user.Conn != nil, and WriteJSON: when it is nil by now, Recover      *)
(* answers instead of the handler, which shows nothing new.                *)
OverTell(r) == Step(r, "over_tell", IF attached THEN "over_write" ELSE "answer_over")
OverWrite(r) == Step(r, "over_write", IF attached THEN "answer_over" ELSE "idle")

(* The answer that sends the user back to the line: of what was shown      *)
(* before, nothing counts any more.                                        *)
AnswerOver(r) ==
  /\ At(r, "answer_over")
  /\ shownImage' = Zero /\ shownProblem' = Zero
  /\ GoTo(r, "idle")
  /\ UNCHANGED <<status, captchaVars, otpVars, drawn, crossed, connVars>>

-----------------------------------------------------------------------------
(* CaptchaHandler                                                          *)

Generate(r) == Begin(r, Registering, "generate")

(* user.CaptchaTargetX, then user.CaptchaTargetY, then the answer.         *)
DrawImage(r, here) ==
  /\ At(r, here)
  /\ \E image \in Images :
       captchaTargetX' = image /\ drawn' = [drawn EXCEPT ![r] = image]
  /\ Writes(r, {"image"})
  /\ GoTo(r, "target_y")
  /\ UNCHANGED <<status, captchaTargetY, captchaAttempts, wrongImage, shownImage,
                 otpVars, shownProblem, connVars>>

TargetY(r) ==
  /\ At(r, "target_y")
  /\ captchaTargetY' = drawn[r]
  /\ GoTo(r, "answer_image")
  /\ UNCHANGED <<status, captchaTargetX, captchaAttempts, wrongImage, otpVars, answerVars,
                 connVars>>

AnswerImage(r) ==
  /\ At(r, "answer_image")
  /\ shownImage' = drawn[r] /\ drawn' = [drawn EXCEPT ![r] = Zero]
  /\ GoTo(r, "idle")
  /\ UNCHANGED <<status, captchaVars, otpVars, shownProblem, crossed, connVars>>

(* The image is drawn and uploaded between the status check and the write: *)
(* seconds may pass, and the attempts are left alone.                      *)
GenerateDone(r) == DrawImage(r, "generate")

GenerateFails(r) == Step(r, "generate", "idle")

(* The click is compared with the target, whatever the status is: both     *)
(* coordinates have to fit, which may be of two images.                    *)
VerifyClick(r) ==
  /\ At(r, "idle")
  /\ \E x, y \in Images \cup {Zero} :
       IF x = captchaTargetX /\ y = captchaTargetY
       THEN GoTo(r, "solved") /\ UNCHANGED wrongImage
       ELSE /\ wrongImage' = OneMoreWrong(wrongImage)
            /\ GoTo(r, "captcha_inc")
  /\ UNCHANGED <<status, captchaTargetX, captchaTargetY, captchaAttempts, otpVars,
                 answerVars, connVars>>

Solved(r) == SetStatus(r, "solved", Registering, "idle")

(* Nothing distinguishes two counts above the limits, and stale writes can *)
(* push a counter as far as concurrent handlers like: it stops at MaxCount.*)
Incremented(n) == IF n < MaxCount THEN n + 1 ELSE MaxCount

(* u.CaptchaAttempts++ is a read and a write, and the comparison that      *)
(* decides on the failure reads the counter again.                         *)
CaptchaInc(r) ==
  /\ At(r, "captcha_inc")
  /\ rval' = [rval EXCEPT ![r] = captchaAttempts]
  /\ rpc' = [rpc EXCEPT ![r] = "captcha_store"]
  /\ UNCHANGED <<status, captchaVars, otpVars, answerVars, connVars>>

CaptchaStore(r) ==
  /\ At(r, "captcha_store")
  /\ captchaAttempts' = Incremented(rval[r])
  /\ rval' = [rval EXCEPT ![r] = 0]
  /\ rpc' = [rpc EXCEPT ![r] = "captcha_check"]
  /\ UNCHANGED <<status, captchaTargetX, captchaTargetY, wrongImage, otpVars, answerVars, connVars>>

CaptchaCheck(r) ==
  Step(r, "captcha_check",
       IF Exceeded(captchaAttempts, MaxCaptchaAttempts) THEN "tell" ELSE "regenerate")

(* Wrong on purpose: the new image is answered and its target forgotten.   *)
RegenerateUnsaved(r) ==
  /\ At(r, "regenerate")
  /\ \E image \in Images : drawn' = [drawn EXCEPT ![r] = image]
  /\ GoTo(r, "answer_image")
  /\ UNCHANGED <<status, captchaVars, otpVars, shownImage, shownProblem, crossed, connVars>>

Regenerate(r) == DrawImage(r, "regenerate")

(* The wrong answer stays counted and the old image stays valid.           *)
RegenerateFails(r) == Step(r, "regenerate", "idle")

-----------------------------------------------------------------------------
(* OTPHandler                                                              *)

Send(r) == Begin(r, Registering, "send")

(* user.OTPCode, and the answer later.                                     *)
DrawProblem(r, here, next) ==
  /\ At(r, here)
  /\ \E problem \in Problems :
       otpCode' = problem /\ drawn' = [drawn EXCEPT ![r] = problem]
  /\ Writes(r, {"problem"})
  /\ GoTo(r, next)
  /\ UNCHANGED <<status, captchaVars, shownImage, wrongProblem, shownProblem, connVars>>

AnswerProblem(r) ==
  /\ At(r, "answer_problem")
  /\ shownProblem' = drawn[r] /\ drawn' = [drawn EXCEPT ![r] = Zero]
  /\ GoTo(r, "idle")
  /\ UNCHANGED <<status, captchaVars, otpVars, shownImage, crossed, connVars>>

SendCode(r) == DrawProblem(r, "send", "send_zero") /\ UNCHANGED otpAttempts

(* A new problem on request also forgives the wrong answers so far.        *)
SendZero(r) ==
  /\ At(r, "send_zero")
  /\ otpAttempts' = 0 /\ wrongProblem' = 0
  /\ GoTo(r, "answer_problem")
  /\ UNCHANGED <<status, captchaVars, otpCode, answerVars, connVars>>

(* The answer is compared with the code, whatever the status is.  (An      *)
(* answer that is no number ends here without being counted.)              *)
VerifyAnswer(r) ==
  /\ At(r, "idle")
  /\ \E answer \in Problems \cup {Zero} :
       IF answer = otpCode
       THEN UNCHANGED <<rpc, rval, wrongProblem>>   \* GenerateRegisterToken
       ELSE /\ wrongProblem' = OneMoreWrong(wrongProblem)
            /\ GoTo(r, "otp_inc")
  /\ UNCHANGED <<status, captchaVars, otpCode, otpAttempts, answerVars, connVars>>

OtpInc(r) ==
  /\ At(r, "otp_inc")
  /\ rval' = [rval EXCEPT ![r] = otpAttempts]
  /\ rpc' = [rpc EXCEPT ![r] = "otp_store"]
  /\ UNCHANGED <<status, captchaVars, otpVars, answerVars, connVars>>

OtpStore(r) ==
  /\ At(r, "otp_store")
  /\ otpAttempts' = Incremented(rval[r])
  /\ rval' = [rval EXCEPT ![r] = 0]
  /\ rpc' = [rpc EXCEPT ![r] = "otp_check"]
  /\ UNCHANGED <<status, captchaVars, otpCode, wrongProblem, answerVars, connVars>>

OtpCheck(r) ==
  Step(r, "otp_check", IF Exceeded(otpAttempts, MaxOTPAttempts) THEN "tell" ELSE "reproblem")

(* Wrong on purpose: the attempts start over with the new problem.         *)
ReproblemForgives(r) == DrawProblem(r, "reproblem", "answer_problem") /\ otpAttempts' = 0

(* calculus.Generator.Generate returns no error: a new code is certain.    *)
Reproblem(r) == DrawProblem(r, "reproblem", "answer_problem") /\ UNCHANGED otpAttempts

-----------------------------------------------------------------------------
(* The failure path of CAPTCHA, OTP and RegisterHandler.Submit             *)

Submit(r) == Begin(r, Registering, "tell")

(* if user.Conn != nil                                                     *)
FailTell(r) == Step(r, "tell", IF attached THEN "write" ELSE "reset")

(* user.Conn.WriteJSON: Recover ends the handler when it is nil by now.    *)
FailWrite(r) ==
  /\ At(r, "write")
  /\ GoTo(r, IF attached THEN "reset" ELSE "idle")
  /\ aborted' = (aborted \/ ~attached)
  /\ UNCHANGED <<status, captchaVars, otpVars, answerVars, attached>>

FailReset(r) == SetStatus(r, "reset", Waiting, "reset_rest")
FailResetRest(r) == ResetRest(r, "reset_rest", "detach")
FailDetach(r) == Step(r, "detach", IF attached THEN "forget" ELSE "answer_over")

(* user.Conn = nil                                                         *)
FailForget(r) ==
  /\ At(r, "forget")
  /\ attached' = FALSE
  /\ GoTo(r, "answer_over")
  /\ UNCHANGED <<status, captchaVars, otpVars, answerVars, aborted>>

(* WebSocketHandler.Connect of the same session: user.Conn = conn.         *)
Reconnect ==
  /\ ~attached /\ attached' = TRUE
  /\ UNCHANGED <<status, captchaVars, otpVars, answerVars, aborted, rpc, rval>>

-----------------------------------------------------------------------------
(* What the client chooses to call                                         *)
Call(r) ==
  \/ "Start" \in Calls /\ Start(r)
  \/ "Result" \in Calls /\ Result(r)
  \/ "Generate" \in Calls /\ Generate(r)
  \/ "VerifyClick" \in Calls /\ VerifyClick(r)
  \/ "Send" \in Calls /\ Send(r)
  \/ "VerifyAnswer" \in Calls /\ VerifyAnswer(r)
  \/ "Submit" \in Calls /\ Submit(r)

(* What the handler does then                                              *)
Handle(r) ==
  \/ StartPromote(r) \/ ResultClear(r) \/ ResultOver(r) \/ ResultOverRest(r)
  \/ OverTell(r) \/ OverWrite(r) \/ AnswerOver(r)
  \/ GenerateDone(r) \/ GenerateFails(r) \/ Solved(r)
  \/ CaptchaInc(r) \/ CaptchaStore(r) \/ CaptchaCheck(r)
  \/ Regenerate(r) \/ RegenerateFails(r) \/ TargetY(r) \/ AnswerImage(r)
  \/ SendCode(r) \/ SendZero(r) \/ AnswerProblem(r)
  \/ OtpInc(r) \/ OtpStore(r) \/ OtpCheck(r) \/ Reproblem(r)
  \/ FailTell(r) \/ FailWrite(r) \/ FailReset(r) \/ FailResetRest(r)
  \/ FailDetach(r) \/ FailForget(r)

Next == Reconnect \/ \E r \in Reqs : Call(r) \/ Handle(r)

Spec == Init /\ [][Next]_vars

(* A handler that runs goes on running: none waits for another.            *)
FairSpec == Spec /\ \A r \in Reqs : WF_vars(Handle(r))

-----------------------------------------------------------------------------
TypeOK ==
  /\ status \in {Waiting, Stage1Dino, Registering}
  /\ {captchaTargetX, captchaTargetY} \subseteq Images \cup {Zero}
  /\ otpCode \in Problems \cup {Zero}
  /\ shownImage \in Images \cup {Zero} /\ shownProblem \in Problems \cup {Zero}
  /\ drawn \in [Reqs -> Images \cup Problems \cup {Zero}] /\ crossed \subseteq {"image", "problem"}
  /\ \A r \in Reqs :
       /\ rpc[r] \in {"target_y", "answer_image"} => drawn[r] \in Images
       /\ rpc[r] \in {"send_zero", "answer_problem"} => drawn[r] \in Problems
  /\ captchaAttempts \in 0..MaxCount /\ otpAttempts \in 0..MaxCount
  /\ attached \in BOOLEAN /\ aborted \in BOOLEAN
  /\ wrongImage \in 0..MaxWrong /\ wrongProblem \in 0..MaxWrong
  /\ rpc \in [Reqs -> Places] /\ rval \in [Reqs -> 0..MaxCount]

Quiet == \A r \in Reqs : At(r, "idle")

(* One handler at a time, every wrong click since the user last started    *)
(* over is counted, whatever Generate, a solved CAPTCHA or a change of     *)
(* stage did in between; at the third the user has started over.           *)
WrongClicksCounted ==
  Quiet => captchaAttempts = wrongImage /\ captchaAttempts < MaxCaptchaAttempts

ImageExpected == shownImage = captchaTargetX /\ shownImage = captchaTargetY
ProblemExpected == shownProblem = otpCode

(* When all requests are answered, the image on the screen is the one that *)
(* the next click is compared with, in both coordinates, and the problem   *)
(* the one whose answer is expected, however handlers overlap while they   *)
(* check, generate, upload or fail, and whoever starts the user over       *)
(* meanwhile.  The exception: the last write happened while another        *)
(* handler had written and not answered yet, so that the two may answer in *)
(* the other order or mix their coordinates; the next handler that writes  *)
(* alone repairs it.                                                       *)
StaleOnlyIfCrossed ==
  Quiet => /\ "image" \in crossed \/ ImageExpected
           /\ "problem" \in crossed \/ ProblemExpected

(* Concurrent handlers may lose or revive a count, but a counter at its    *)
(* limit never stays behind: a handler is on its way to start the user     *)
(* over, unless one was cut short by a nil User.Conn.                      *)
Settling(place) == \E r \in Reqs : rpc[r] \in {place, "tell", "write", "reset", "reset_rest"}

LimitIsHandled ==
  \/ aborted
  \/ /\ captchaAttempts >= MaxCaptchaAttempts => Settling("captcha_check")
     /\ otpAttempts >= MaxOTPAttempts => Settling("otp_check")

(* ... and it does: at the limit the user is eventually started over.      *)
LimitIsLeft ==
  /\ captchaAttempts >= MaxCaptchaAttempts ~> (captchaAttempts < MaxCaptchaAttempts \/ aborted)
  /\ otpAttempts >= MaxOTPAttempts ~> (otpAttempts < MaxOTPAttempts \/ aborted)

(* One handler at a time, wrong answers to calculus problems are counted   *)
(* too, over every new problem that a wrong answer brings; asking for one  *)
(* (Send) is the only other way than starting over to be forgiven.         *)
WrongAnswersCounted ==
  Quiet => otpAttempts = wrongProblem /\ otpAttempts < MaxOTPAttempts

(* One handler at a time, every change of status is one the table of       *)
(* user.go allows, but for one handler: a solved CAPTCHA leads to the      *)
(* registration from any stage, since Verify does not look at the status.  *)
OnlySolvedSkips ==
  [][status' # status =>
       CanTransitionTo(status, status') \/ \E r \in Reqs : At(r, "solved")]_vars
=============================================================================

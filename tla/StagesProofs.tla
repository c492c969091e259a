----------------------------- MODULE StagesProofs -----------------------------
(***************************************************************************)
(* Proofs about the stage handlers, for any number of concurrent requests, *)
(* images and problems, and any bounds of Stages.                          *)
(***************************************************************************)
EXTENDS Stages, TLAPS

USE ZeroIsNone, KnownCalls, MaxWrongNat, MaxCountAboveLimits

(* Saturated counters stay within their bounds.                            *)
LEMMA OneMoreType ==
  ASSUME NEW n \in 0..MaxWrong PROVE OneMoreWrong(n) \in 0..MaxWrong
BY DEF OneMoreWrong

LEMMA IncrementedType ==
  ASSUME NEW n \in 0..MaxCount PROVE Incremented(n) \in 0..MaxCount
BY DEF Incremented, MaxCaptchaAttempts, MaxOTPAttempts

(* What every handler step shares: it moves its own request only.          *)
LEMMA GoToType ==
  ASSUME TypeOK, NEW r \in Reqs, NEW place \in Places, GoTo(r, place)
  PROVE  rpc' \in [Reqs -> Places] /\ rval' \in [Reqs -> 0..MaxCount]
BY DEF TypeOK, GoTo

(* A request that has drawn something to answer with goes on having it     *)
(* while another one moves, or while it moves to where it answers nothing. *)
Answering == {"target_y", "answer_image", "send_zero", "answer_problem"}
DrawnFits ==
  \A r \in Reqs :
    /\ rpc[r] \in {"target_y", "answer_image"} => drawn[r] \in Images
    /\ rpc[r] \in {"send_zero", "answer_problem"} => drawn[r] \in Problems

LEMMA DrawnStays ==
  ASSUME TypeOK, NEW r \in Reqs, NEW place \in Places \ Answering, GoTo(r, place),
         drawn' = drawn
  PROVE  DrawnFits'
BY DEF TypeOK, DrawnFits, Answering, GoTo

LEMMA StepType ==
  ASSUME TypeOK, NEW r \in Reqs, NEW here, NEW place \in Places \ Answering, Step(r, here, place)
  PROVE  TypeOK'
<1>1. rpc' \in [Reqs -> Places] /\ rval' \in [Reqs -> 0..MaxCount]
  BY GoToType DEF Step
<1>2. DrawnFits'
  BY DrawnStays DEF Step, answerVars
<1> QED BY <1>1, <1>2 DEF Step, TypeOK, DrawnFits, captchaVars, otpVars, answerVars, connVars

LEMMA SetStatusType ==
  ASSUME TypeOK, NEW r \in Reqs, NEW here, NEW place \in Places \ Answering,
         NEW value \in {Waiting, Stage1Dino, Registering}, SetStatus(r, here, value, place)
  PROVE  TypeOK'
<1>1. rpc' \in [Reqs -> Places] /\ rval' \in [Reqs -> 0..MaxCount]
  BY GoToType DEF SetStatus
<1>2. DrawnFits'
  BY DrawnStays DEF SetStatus, answerVars
<1> QED BY <1>1, <1>2 DEF SetStatus, TypeOK, DrawnFits, captchaVars, otpVars, answerVars, connVars

LEMMA ResetRestType ==
  ASSUME TypeOK, NEW r \in Reqs, NEW here, NEW place \in Places \ Answering, ResetRest(r, here, place)
  PROVE  TypeOK'
<1>1. rpc' \in [Reqs -> Places] /\ rval' \in [Reqs -> 0..MaxCount]
  BY GoToType DEF ResetRest
<1>2. DrawnFits'
  BY DrawnStays DEF ResetRest
<1>3. crossed' \subseteq {"image", "problem"}
  BY DEF ResetRest, Writes, TypeOK
<1>4. captchaAttempts' \in 0..MaxCount /\ otpAttempts' \in 0..MaxCount
  BY DEF ResetRest
<1>5. wrongImage' \in 0..MaxWrong /\ wrongProblem' \in 0..MaxWrong
  BY DEF ResetRest
<1> QED BY <1>1, <1>2, <1>3, <1>4, <1>5 DEF ResetRest, TypeOK, DrawnFits, connVars

LEMMA DrawImageType ==
  ASSUME TypeOK, NEW r \in Reqs, NEW here, DrawImage(r, here) PROVE TypeOK'
<1>1. rpc' \in [Reqs -> Places] /\ rval' \in [Reqs -> 0..MaxCount]
  BY GoToType DEF DrawImage, Places
<1>2. DrawnFits' /\ drawn' \in [Reqs -> Images \cup Problems \cup {Zero}]
  BY DEF DrawImage, TypeOK, DrawnFits, GoTo
<1> QED BY <1>1, <1>2 DEF DrawImage, Writes, TypeOK, DrawnFits, otpVars, connVars

LEMMA DrawProblemType ==
  ASSUME TypeOK, NEW r \in Reqs, NEW here, NEW next \in {"send_zero", "answer_problem"},
         DrawProblem(r, here, next), UNCHANGED otpAttempts
  PROVE  TypeOK'
<1>1. rpc' \in [Reqs -> Places] /\ rval' \in [Reqs -> 0..MaxCount]
  BY GoToType DEF DrawProblem, Places
<1>2. DrawnFits' /\ drawn' \in [Reqs -> Images \cup Problems \cup {Zero}]
  BY DEF DrawProblem, TypeOK, DrawnFits, GoTo
<1> QED BY <1>1, <1>2 DEF DrawProblem, Writes, TypeOK, DrawnFits, captchaVars, connVars

(* A call moves its request to the first place of the handler.             *)
LEMMA CallType ==
  ASSUME TypeOK, NEW r \in Reqs, Call(r) PROVE TypeOK'
<1>1. CASE Start(r)
  BY <1>1, StepType DEF Start, Begin, Places, Answering
<1>2. CASE Result(r)
  BY <1>2, StepType DEF Result, Begin, Places, Answering
<1>3. CASE Generate(r)
  BY <1>3, StepType DEF Generate, Begin, Places, Answering
<1>4. CASE VerifyClick(r)
  <2>1. /\ wrongImage' \in 0..MaxWrong
        /\ rpc' \in [Reqs -> Places] /\ rval' \in [Reqs -> 0..MaxCount]
    BY <1>4, OneMoreType DEF VerifyClick, TypeOK, GoTo, Places
  <2>2. DrawnFits'
    BY <1>4, DrawnStays DEF VerifyClick, Places, Answering, answerVars
  <2> QED BY <1>4, <2>1, <2>2 DEF VerifyClick, TypeOK, DrawnFits, otpVars, answerVars, connVars
<1>5. CASE Send(r)
  BY <1>5, StepType DEF Send, Begin, Places, Answering
<1>6. CASE VerifyAnswer(r)
  <2>1. /\ wrongProblem' \in 0..MaxWrong
        /\ rpc' \in [Reqs -> Places] /\ rval' \in [Reqs -> 0..MaxCount]
    BY <1>6, OneMoreType DEF VerifyAnswer, TypeOK, GoTo, Places
  <2>2. DrawnFits'
    BY <1>6, DrawnStays DEF VerifyAnswer, TypeOK, DrawnFits, Places, Answering, answerVars
  <2> QED BY <1>6, <2>1, <2>2 DEF VerifyAnswer, TypeOK, DrawnFits, captchaVars, answerVars, connVars
<1>7. CASE Submit(r)
  BY <1>7, StepType DEF Submit, Begin, Places, Answering
<1> QED BY <1>1, <1>2, <1>3, <1>4, <1>5, <1>6, <1>7 DEF Call

(* The steps of the Dino and CAPTCHA handlers.                             *)
LEMMA DinoCaptchaType ==
  ASSUME TypeOK, NEW r \in Reqs,
         \/ StartPromote(r) \/ ResultClear(r) \/ ResultOver(r) \/ ResultOverRest(r)
         \/ GenerateDone(r) \/ GenerateFails(r) \/ Solved(r)
         \/ CaptchaInc(r) \/ CaptchaStore(r) \/ CaptchaCheck(r)
         \/ Regenerate(r) \/ RegenerateFails(r) \/ TargetY(r) \/ AnswerImage(r)
         \/ OverTell(r) \/ OverWrite(r) \/ AnswerOver(r)
  PROVE  TypeOK'
<1>1. CASE StartPromote(r)
  BY <1>1, SetStatusType DEF StartPromote, Places, Answering
<1>2. CASE ResultClear(r)
  BY <1>2, SetStatusType DEF ResultClear, Places, Answering
<1>3. CASE ResultOver(r)
  BY <1>3, SetStatusType DEF ResultOver, Places, Answering
<1>4. CASE ResultOverRest(r)
  BY <1>4, ResetRestType DEF ResultOverRest, Places, Answering
<1>5. CASE GenerateDone(r)
  BY <1>5, DrawImageType DEF GenerateDone
<1>6. CASE GenerateFails(r)
  BY <1>6, StepType DEF GenerateFails, Places, Answering
<1>7. CASE Solved(r)
  BY <1>7, SetStatusType DEF Solved, Places, Answering
<1>8. CASE CaptchaInc(r)
  <2>1. rpc' \in [Reqs -> Places] /\ rval' \in [Reqs -> 0..MaxCount] /\ DrawnFits'
    BY <1>8 DEF CaptchaInc, TypeOK, DrawnFits, Places, answerVars
  <2> QED BY <1>8, <2>1 DEF CaptchaInc, TypeOK, DrawnFits, captchaVars, otpVars, answerVars, connVars
<1>9. CASE CaptchaStore(r)
  <2>1. captchaAttempts' \in 0..MaxCount
    BY <1>9, IncrementedType DEF CaptchaStore, TypeOK
  <2>2. rpc' \in [Reqs -> Places] /\ rval' \in [Reqs -> 0..MaxCount] /\ DrawnFits'
    BY <1>9 DEF CaptchaStore, TypeOK, DrawnFits, Places, answerVars
  <2> QED BY <1>9, <2>1, <2>2 DEF CaptchaStore, TypeOK, DrawnFits, otpVars, answerVars, connVars
<1>10. CASE CaptchaCheck(r)
  BY <1>10, StepType DEF CaptchaCheck, Places, Answering
<1>11. CASE Regenerate(r)
  BY <1>11, DrawImageType DEF Regenerate
<1>12. CASE RegenerateFails(r)
  BY <1>12, StepType DEF RegenerateFails, Places, Answering
<1>13. CASE TargetY(r)
  <2>1. rpc' \in [Reqs -> Places] /\ rval' \in [Reqs -> 0..MaxCount] /\ DrawnFits'
    BY <1>13, GoToType DEF TargetY, TypeOK, DrawnFits, GoTo, At, Places, answerVars
  <2>2. drawn[r] \in Images
    BY <1>13 DEF TargetY, TypeOK, At
  <2> QED BY <1>13, <2>1, <2>2 DEF TargetY, TypeOK, DrawnFits, otpVars, answerVars, connVars
<1>14. CASE AnswerImage(r)
  <2>1. rpc' \in [Reqs -> Places] /\ rval' \in [Reqs -> 0..MaxCount] /\ DrawnFits'
    BY <1>14, GoToType DEF AnswerImage, TypeOK, DrawnFits, GoTo, Places
  <2>2. drawn[r] \in Images
    BY <1>14 DEF AnswerImage, TypeOK, At
  <2> QED BY <1>14, <2>1, <2>2 DEF AnswerImage, TypeOK, DrawnFits, captchaVars, otpVars, connVars
<1>15. CASE OverTell(r)
  BY <1>15, StepType DEF OverTell, Places, Answering
<1>16. CASE OverWrite(r)
  BY <1>16, StepType DEF OverWrite, Places, Answering
<1>17. CASE AnswerOver(r)
  <2>1. rpc' \in [Reqs -> Places] /\ rval' \in [Reqs -> 0..MaxCount]
    BY <1>17, GoToType DEF AnswerOver, Places
  <2>2. DrawnFits'
    BY <1>17, DrawnStays DEF AnswerOver, Places, Answering
  <2> QED BY <1>17, <2>1, <2>2 DEF AnswerOver, TypeOK, DrawnFits, captchaVars, otpVars, connVars
<1> QED BY <1>1, <1>2, <1>3, <1>4, <1>5, <1>6, <1>7, <1>8, <1>9, <1>10, <1>11, <1>12,
           <1>13, <1>14, <1>15, <1>16, <1>17

(* The steps of the OTP handler and of the failure path.                   *)
LEMMA OtpFailType ==
  ASSUME TypeOK, NEW r \in Reqs,
         \/ SendCode(r) \/ SendZero(r) \/ AnswerProblem(r)
         \/ OtpInc(r) \/ OtpStore(r) \/ OtpCheck(r) \/ Reproblem(r)
         \/ FailTell(r) \/ FailWrite(r) \/ FailReset(r) \/ FailResetRest(r)
         \/ FailDetach(r) \/ FailForget(r)
  PROVE  TypeOK'
<1>1. CASE SendCode(r)
  BY <1>1, DrawProblemType DEF SendCode
<1>2. CASE SendZero(r)
  <2>1. rpc' \in [Reqs -> Places] /\ rval' \in [Reqs -> 0..MaxCount] /\ DrawnFits'
    BY <1>2, GoToType DEF SendZero, TypeOK, DrawnFits, GoTo, At, Places, answerVars
  <2> QED BY <1>2, <2>1 DEF SendZero, TypeOK, DrawnFits, captchaVars, answerVars, connVars
<1>3. CASE OtpInc(r)
  <2>1. rpc' \in [Reqs -> Places] /\ rval' \in [Reqs -> 0..MaxCount] /\ DrawnFits'
    BY <1>3 DEF OtpInc, TypeOK, DrawnFits, Places, answerVars
  <2> QED BY <1>3, <2>1 DEF OtpInc, TypeOK, DrawnFits, captchaVars, otpVars, answerVars, connVars
<1>4. CASE OtpStore(r)
  <2>1. otpAttempts' \in 0..MaxCount
    BY <1>4, IncrementedType DEF OtpStore, TypeOK
  <2>2. rpc' \in [Reqs -> Places] /\ rval' \in [Reqs -> 0..MaxCount] /\ DrawnFits'
    BY <1>4 DEF OtpStore, TypeOK, DrawnFits, Places, answerVars
  <2> QED BY <1>4, <2>1, <2>2 DEF OtpStore, TypeOK, DrawnFits, captchaVars, answerVars, connVars
<1>5. CASE OtpCheck(r)
  BY <1>5, StepType DEF OtpCheck, Places, Answering
<1>6. CASE Reproblem(r)
  BY <1>6, DrawProblemType DEF Reproblem
<1>7. CASE FailTell(r)
  BY <1>7, StepType DEF FailTell, Places, Answering
<1>8. CASE FailWrite(r)
  <2>1. rpc' \in [Reqs -> Places] /\ rval' \in [Reqs -> 0..MaxCount]
    BY <1>8 DEF FailWrite, TypeOK, GoTo, Places
  <2>2. aborted' \in BOOLEAN
    BY <1>8, Zenon DEF FailWrite
  <2>3. DrawnFits'
    BY <1>8, DrawnStays DEF FailWrite, Places, Answering, answerVars
  <2> QED BY <1>8, <2>1, <2>2, <2>3 DEF FailWrite, TypeOK, DrawnFits, captchaVars, otpVars, answerVars
<1>9. CASE FailReset(r)
  BY <1>9, SetStatusType DEF FailReset, Places, Answering
<1>10. CASE FailResetRest(r)
  BY <1>10, ResetRestType DEF FailResetRest, Places, Answering
<1>11. CASE FailDetach(r)
  BY <1>11, StepType DEF FailDetach, Places, Answering
<1>12. CASE FailForget(r)
  <2>1. rpc' \in [Reqs -> Places] /\ rval' \in [Reqs -> 0..MaxCount]
    BY <1>12, GoToType DEF FailForget, Places
  <2>2. DrawnFits'
    BY <1>12, DrawnStays DEF FailForget, Places, Answering, answerVars
  <2> QED BY <1>12, <2>1, <2>2 DEF FailForget, TypeOK, DrawnFits, captchaVars, otpVars, answerVars
<1>13. CASE AnswerProblem(r)
  <2>1. rpc' \in [Reqs -> Places] /\ rval' \in [Reqs -> 0..MaxCount] /\ DrawnFits'
    BY <1>13, GoToType DEF AnswerProblem, TypeOK, DrawnFits, GoTo, Places
  <2>2. drawn[r] \in Problems
    BY <1>13 DEF AnswerProblem, TypeOK, At
  <2> QED BY <1>13, <2>1, <2>2 DEF AnswerProblem, TypeOK, DrawnFits, captchaVars, otpVars, connVars
<1> QED BY <1>1, <1>2, <1>3, <1>4, <1>5, <1>6, <1>7, <1>8, <1>9, <1>10, <1>11, <1>12, <1>13

LEMMA TypeInit == Init => TypeOK
<1> SUFFICES ASSUME Init PROVE TypeOK
  OBVIOUS
<1>1. rpc \in [Reqs -> Places] /\ rval \in [Reqs -> 0..MaxCount]
  BY DEF Init, Places
<1>2. captchaAttempts \in 0..MaxCount /\ otpAttempts \in 0..MaxCount
  BY DEF Init
<1>3. wrongImage \in 0..MaxWrong /\ wrongProblem \in 0..MaxWrong
  BY DEF Init
<1>4. attached \in BOOLEAN /\ aborted \in BOOLEAN
  BY Zenon DEF Init
<1> QED BY <1>1, <1>2, <1>3, <1>4 DEF Init, TypeOK

LEMMA TypeNext == TypeOK /\ [Next]_vars => TypeOK'
<1> SUFFICES ASSUME TypeOK, [Next]_vars PROVE TypeOK'
  OBVIOUS
<1>1. CASE Reconnect
  BY <1>1 DEF Reconnect, TypeOK, captchaVars, otpVars, answerVars
<1>2. ASSUME NEW r \in Reqs, Call(r) PROVE TypeOK'
  BY <1>2, CallType
<1>3. ASSUME NEW r \in Reqs, Handle(r) PROVE TypeOK'
  BY <1>3, DinoCaptchaType, OtpFailType DEF Handle
<1>4. CASE UNCHANGED vars
  BY <1>4 DEF vars, TypeOK, captchaVars, otpVars, answerVars, connVars
<1> QED BY <1>1, <1>2, <1>3, <1>4 DEF Next

(* The type invariant of the stages.                                       *)
THEOREM TypeCorrect == Spec => []TypeOK
<1> QED BY TypeInit, TypeNext, PTL DEF Spec

-----------------------------------------------------------------------------
(* A request on the way to the reset that does not move keeps settling; so *)
(* a step of a request that was not on that way disturbs nothing but the   *)
(* counters it writes.                                                     *)
LEMMA OthersSettle ==
  ASSUME NEW r \in Reqs, NEW place, NEW after, TypeOK, rpc' = [rpc EXCEPT ![r] = after],
         rpc[r] \notin {place, "tell", "write", "reset", "reset_rest"},
         Settling(place)
  PROVE  Settling(place)'
BY DEF Settling, TypeOK

(* So does one that moves along that way.                                  *)
LEMMA SettlesOn ==
  ASSUME NEW r \in Reqs, NEW place, NEW after, TypeOK, rpc' = [rpc EXCEPT ![r] = after],
         after \in {place, "tell", "write", "reset", "reset_rest"}
  PROVE  Settling(place)'
BY DEF Settling, TypeOK

(* The calls of the client start nothing that is on its way.               *)
LEMMA CallKeepsLimit ==
  ASSUME TypeOK, LimitIsHandled, NEW r \in Reqs, Call(r)
  PROVE  LimitIsHandled'
<1>1. PICK after : rpc' = [rpc EXCEPT ![r] = after]
  <2>1. \/ \E after : rpc' = [rpc EXCEPT ![r] = after]
        \/ rpc' = rpc
    BY DEF Call, Start, Result, Generate, VerifyClick, Send, VerifyAnswer, Submit, Begin, Step, GoTo
  <2>2. rpc' = rpc => rpc' = [rpc EXCEPT ![r] = rpc[r]]
    BY DEF TypeOK
  <2> QED BY <2>1, <2>2
<1>2. rpc[r] = "idle"
  BY DEF Call, Start, Result, Generate, VerifyClick, Send, VerifyAnswer, Submit, Begin, Step, At
<1>3. UNCHANGED <<captchaAttempts, otpAttempts, aborted>>
  BY DEF Call, Start, Result, Generate, VerifyClick, Send, VerifyAnswer, Submit, Begin, Step,
         captchaVars, otpVars, connVars
<1>4. Settling("captcha_check") => Settling("captcha_check")'
  BY <1>1, <1>2, OthersSettle
<1>5. Settling("otp_check") => Settling("otp_check")'
  BY <1>1, <1>2, OthersSettle
<1> QED BY <1>3, <1>4, <1>5 DEF LimitIsHandled

(* The steps that neither write a counter nor lie on the way to the reset. *)
LEMMA AsideKeepsLimit ==
  ASSUME TypeOK, LimitIsHandled, NEW r \in Reqs,
         \/ StartPromote(r) \/ ResultClear(r) \/ ResultOver(r)
         \/ GenerateDone(r) \/ GenerateFails(r) \/ Solved(r) \/ CaptchaInc(r)
         \/ Regenerate(r) \/ RegenerateFails(r) \/ TargetY(r) \/ AnswerImage(r)
         \/ OverTell(r) \/ OverWrite(r) \/ AnswerOver(r)
         \/ SendCode(r) \/ OtpInc(r) \/ Reproblem(r) \/ AnswerProblem(r)
         \/ FailDetach(r) \/ FailForget(r)
  PROVE  LimitIsHandled'
<1>1. PICK after : rpc' = [rpc EXCEPT ![r] = after]
  BY DEF StartPromote, ResultClear, ResultOver, GenerateDone, GenerateFails, Solved, CaptchaInc,
         Regenerate, RegenerateFails, TargetY, AnswerImage, OverTell, OverWrite, AnswerOver,
         SendCode, OtpInc, Reproblem, AnswerProblem, FailDetach, FailForget,
         DrawImage, DrawProblem, SetStatus, Step, GoTo
<1>2. rpc[r] \in {"promote", "clear", "over", "generate", "solved", "captcha_inc", "regenerate",
                   "target_y", "answer_image", "over_tell", "over_write", "answer_over",
                   "send", "otp_inc", "reproblem", "answer_problem", "detach", "forget"}
  BY DEF StartPromote, ResultClear, ResultOver, GenerateDone, GenerateFails, Solved, CaptchaInc,
         Regenerate, RegenerateFails, TargetY, AnswerImage, OverTell, OverWrite, AnswerOver,
         SendCode, OtpInc, Reproblem, AnswerProblem, FailDetach, FailForget,
         DrawImage, DrawProblem, SetStatus, Step, At
<1>3. UNCHANGED <<captchaAttempts, otpAttempts, aborted>>
  BY DEF StartPromote, ResultClear, ResultOver, GenerateDone, GenerateFails, Solved, CaptchaInc,
         Regenerate, RegenerateFails, TargetY, AnswerImage, OverTell, OverWrite, AnswerOver,
         SendCode, OtpInc, Reproblem, AnswerProblem, FailDetach, FailForget,
         DrawImage, DrawProblem, SetStatus, Step, captchaVars, otpVars, connVars
<1>4. Settling("captcha_check") => Settling("captcha_check")'
  BY <1>1, <1>2, OthersSettle
<1>5. Settling("otp_check") => Settling("otp_check")'
  BY <1>1, <1>2, OthersSettle
<1> QED BY <1>3, <1>4, <1>5 DEF LimitIsHandled

(* Who writes a counter is about to compare it.                            *)
LEMMA CountingKeepsLimit ==
  ASSUME TypeOK, LimitIsHandled, NEW r \in Reqs,
         CaptchaStore(r) \/ OtpStore(r) \/ SendZero(r)
  PROVE  LimitIsHandled'
<1>1. CASE CaptchaStore(r)
  <2>1. rpc' = [rpc EXCEPT ![r] = "captcha_check"] /\ rpc[r] = "captcha_store"
    BY <1>1 DEF CaptchaStore, At
  <2>2. Settling("captcha_check")'
    BY <2>1, SettlesOn
  <2>3. Settling("otp_check") => Settling("otp_check")'
    BY <2>1, OthersSettle
  <2> QED BY <1>1, <2>2, <2>3 DEF LimitIsHandled, CaptchaStore, otpVars, connVars
<1>2. CASE OtpStore(r)
  <2>1. rpc' = [rpc EXCEPT ![r] = "otp_check"] /\ rpc[r] = "otp_store"
    BY <1>2 DEF OtpStore, At
  <2>2. Settling("otp_check")'
    BY <2>1, SettlesOn
  <2>3. Settling("captcha_check") => Settling("captcha_check")'
    BY <2>1, OthersSettle
  <2> QED BY <1>2, <2>2, <2>3 DEF LimitIsHandled, OtpStore, captchaVars, connVars
<1>3. CASE SendZero(r)
  <2>1. rpc' = [rpc EXCEPT ![r] = "answer_problem"] /\ rpc[r] = "send_zero"
    BY <1>3 DEF SendZero, At, GoTo
  <2>2. ~(otpAttempts' >= MaxOTPAttempts)
    BY <1>3 DEF SendZero, MaxOTPAttempts
  <2>3. Settling("captcha_check") => Settling("captcha_check")'
    BY <2>1, OthersSettle
  <2> QED BY <1>3, <2>2, <2>3 DEF LimitIsHandled, SendZero, captchaVars, connVars
<1> QED BY <1>1, <1>2, <1>3

(* A comparison that does not lead to the reset has found a lower counter; *)
(* that counter is then at its limit for nobody.                           *)
LEMMA ComparingKeepsLimit ==
  ASSUME TypeOK, LimitIsHandled, NEW r \in Reqs, CaptchaCheck(r) \/ OtpCheck(r)
  PROVE  LimitIsHandled'
<1>1. UNCHANGED <<captchaAttempts, otpAttempts, aborted>>
  BY DEF CaptchaCheck, OtpCheck, Step, captchaVars, otpVars, connVars
<1>2. CASE CaptchaCheck(r)
  <2>1. rpc[r] = "captcha_check"
    BY <1>2 DEF CaptchaCheck, Step, At
  <2>2. CASE captchaAttempts >= MaxCaptchaAttempts
    <3>1. rpc' = [rpc EXCEPT ![r] = "tell"]
      BY <1>2, <2>2 DEF CaptchaCheck, Step, GoTo, Exceeded
    <3> QED BY <1>1, <3>1, SettlesOn DEF LimitIsHandled
  <2>3. CASE ~(captchaAttempts >= MaxCaptchaAttempts)
    <3>1. rpc' = [rpc EXCEPT ![r] = "regenerate"]
      BY <1>2, <2>3 DEF CaptchaCheck, Step, GoTo, Exceeded
    <3>2. Settling("otp_check") => Settling("otp_check")'
      BY <2>1, <3>1, OthersSettle
    <3> QED BY <1>1, <2>3, <3>2 DEF LimitIsHandled
  <2> QED BY <2>2, <2>3
<1>3. CASE OtpCheck(r)
  <2>1. rpc[r] = "otp_check"
    BY <1>3 DEF OtpCheck, Step, At
  <2>2. CASE otpAttempts >= MaxOTPAttempts
    <3>1. rpc' = [rpc EXCEPT ![r] = "tell"]
      BY <1>3, <2>2 DEF OtpCheck, Step, GoTo, Exceeded
    <3> QED BY <1>1, <3>1, SettlesOn DEF LimitIsHandled
  <2>3. CASE ~(otpAttempts >= MaxOTPAttempts)
    <3>1. rpc' = [rpc EXCEPT ![r] = "reproblem"]
      BY <1>3, <2>3 DEF OtpCheck, Step, GoTo, Exceeded
    <3>2. Settling("captcha_check") => Settling("captcha_check")'
      BY <2>1, <3>1, OthersSettle
    <3> QED BY <1>1, <2>3, <3>2 DEF LimitIsHandled
  <2> QED BY <2>2, <2>3
<1> QED BY <1>2, <1>3

(* The way to the reset is left by the reset, or cut short.                *)
LEMMA FailingKeepsLimit ==
  ASSUME TypeOK, LimitIsHandled, NEW r \in Reqs,
         FailTell(r) \/ FailWrite(r) \/ FailReset(r) \/ FailResetRest(r) \/ ResultOverRest(r)
  PROVE  LimitIsHandled'
<1>1. CASE FailTell(r)
  <2>1. \/ rpc' = [rpc EXCEPT ![r] = "write"]
        \/ rpc' = [rpc EXCEPT ![r] = "reset"]
    BY <1>1 DEF FailTell, Step, GoTo
  <2> QED BY <2>1, SettlesOn DEF LimitIsHandled
<1>2. CASE FailWrite(r) /\ attached
  <2>1. rpc' = [rpc EXCEPT ![r] = "reset"]
    BY <1>2 DEF FailWrite, GoTo
  <2> QED BY <2>1, SettlesOn DEF LimitIsHandled
<1>3. CASE FailWrite(r) /\ ~attached
  BY <1>3 DEF FailWrite, LimitIsHandled
<1>4. CASE FailReset(r)
  <2>1. rpc' = [rpc EXCEPT ![r] = "reset_rest"]
    BY <1>4 DEF FailReset, SetStatus, GoTo
  <2> QED BY <2>1, SettlesOn DEF LimitIsHandled
<1>5. CASE FailResetRest(r) \/ ResultOverRest(r)
  BY <1>5 DEF FailResetRest, ResultOverRest, ResetRest, LimitIsHandled,
              MaxCaptchaAttempts, MaxOTPAttempts
<1> QED BY <1>1, <1>2, <1>3, <1>4, <1>5

LEMMA LimitNext == TypeOK /\ LimitIsHandled /\ [Next]_vars => LimitIsHandled'
<1> SUFFICES ASSUME TypeOK, LimitIsHandled, [Next]_vars PROVE LimitIsHandled'
  OBVIOUS
<1>1. CASE Reconnect
  BY <1>1 DEF Reconnect, LimitIsHandled, Settling, captchaVars, otpVars
<1>2. ASSUME NEW r \in Reqs, Call(r) PROVE LimitIsHandled'
  BY <1>2, CallKeepsLimit
<1>3. ASSUME NEW r \in Reqs, Handle(r) PROVE LimitIsHandled'
  BY <1>3, AsideKeepsLimit, CountingKeepsLimit, ComparingKeepsLimit, FailingKeepsLimit DEF Handle
<1>4. CASE UNCHANGED vars
  BY <1>4 DEF vars, LimitIsHandled, Settling, captchaVars, otpVars, connVars
<1> QED BY <1>1, <1>2, <1>3, <1>4 DEF Next

(* However many handlers of one user lose, revive and reset counts, a      *)
(* counter at its limit has a handler on its way to start the user over,   *)
(* unless one was cut short by a nil User.Conn.                            *)
THEOREM LimitsAreHandled == Spec => []LimitIsHandled
<1>1. Init => LimitIsHandled
  BY DEF Init, LimitIsHandled, MaxCaptchaAttempts, MaxOTPAttempts
<1> QED BY <1>1, TypeInit, TypeNext, LimitNext, PTL DEF Spec

-----------------------------------------------------------------------------
(* One handler at a time                                                   *)

OneAtATime == \A r, other \in Reqs : rpc[r] # "idle" /\ rpc[other] # "idle" => r = other

(* The history of wrong answers is long enough to see the limits reached.  *)
LongHistory == MaxWrong >= MaxCaptchaAttempts /\ MaxWrong >= MaxOTPAttempts

(* Where the counters stand when r is the handler that runs: the counts of *)
(* wrong answers and the counters are equal and below the limit, except    *)
(* from a wrong answer to its comparison and, of both kinds, on the way to *)
(* the reset.                                                              *)
Failing == {"tell", "write", "reset", "reset_rest"}

CaptchaStands(r) ==
  /\ rpc[r] \in {"captcha_inc", "captcha_store"} =>
       captchaAttempts < MaxCaptchaAttempts /\ wrongImage = captchaAttempts + 1
  /\ rpc[r] = "captcha_store" => rval[r] = captchaAttempts
  /\ rpc[r] = "captcha_check" => captchaAttempts = wrongImage
  /\ rpc[r] \notin {"captcha_inc", "captcha_store", "captcha_check"} \cup Failing =>
       captchaAttempts = wrongImage /\ captchaAttempts < MaxCaptchaAttempts

OtpStands(r) ==
  /\ rpc[r] \in {"otp_inc", "otp_store"} =>
       otpAttempts < MaxOTPAttempts /\ wrongProblem = otpAttempts + 1
  /\ rpc[r] = "otp_store" => rval[r] = otpAttempts
  /\ rpc[r] = "otp_check" => otpAttempts = wrongProblem
  /\ rpc[r] \notin {"otp_inc", "otp_store", "otp_check"} \cup Failing =>
       otpAttempts = wrongProblem /\ otpAttempts < MaxOTPAttempts

Stands(r) == CaptchaStands(r) /\ OtpStands(r) /\ (rpc[r] = "write" => attached)

Solo ==
  /\ Quiet => /\ captchaAttempts = wrongImage /\ captchaAttempts < MaxCaptchaAttempts
              /\ otpAttempts = wrongProblem /\ otpAttempts < MaxOTPAttempts
  /\ \A r \in Reqs : rpc[r] # "idle" => Stands(r)

(* A step of one request that runs before or after it leaves the rest of   *)
(* them idle.                                                              *)
LEMMA SoloMoves ==
  ASSUME TypeOK, OneAtATime, OneAtATime', NEW r \in Reqs, rpc[r] # "idle" \/ rpc'[r] # "idle",
         NEW after, rpc' = [rpc EXCEPT ![r] = after], Stands(r)'
  PROVE  Solo'
<1>1. \A x \in Reqs \ {r} : rpc'[x] = "idle" /\ rpc[x] = "idle"
  BY DEF OneAtATime, TypeOK
<1> QED BY <1>1 DEF Solo, Stands, CaptchaStands, OtpStands, Quiet, At, Failing

LEMMA SoloCall ==
  ASSUME LongHistory, TypeOK, OneAtATime, OneAtATime', Solo, NEW r \in Reqs, Call(r)
  PROVE  Solo'
<1>1. rpc[r] = "idle"
  BY DEF Call, Start, Result, Generate, VerifyClick, Send, VerifyAnswer, Submit, Begin, Step, At
<1>2. ASSUME UNCHANGED <<rpc, rval, attached>>,
             UNCHANGED <<captchaAttempts, otpAttempts, wrongImage, wrongProblem>>
      PROVE  Solo'
  BY <1>2 DEF Solo, Stands, CaptchaStands, OtpStands, Quiet, At
<1>3. ASSUME NEW after \in Places \ {"idle"}, rpc' = [rpc EXCEPT ![r] = after]
      PROVE  /\ captchaAttempts = wrongImage /\ captchaAttempts < MaxCaptchaAttempts
             /\ otpAttempts = wrongProblem /\ otpAttempts < MaxOTPAttempts
             /\ rpc'[r] = after
  <2>1. Quiet /\ rpc'[r] = after
    BY <1>1, <1>3 DEF OneAtATime, TypeOK, Quiet, At
  <2> QED BY <2>1 DEF Solo
<1>4. ASSUME NEW required, NEW after \in {"promote", "clear", "over", "generate", "send", "tell"},
             Begin(r, required, after)
      PROVE  Solo'
  <2>1. rpc' = [rpc EXCEPT ![r] = after] /\ status = required
    BY <1>4 DEF Begin, Step, GoTo
  <2>2. UNCHANGED <<captchaAttempts, otpAttempts, wrongImage, wrongProblem, status, rval>>
    BY <1>4 DEF Begin, Step, GoTo, captchaVars, otpVars
  <2>3. Stands(r)'
    BY <1>3, <1>4, <2>1, <2>2 DEF Stands, CaptchaStands, OtpStands, Failing, Places
  <2> QED BY <1>4, <2>1, <2>3, SoloMoves DEF TypeOK
<1>5. CASE Start(r)
  BY <1>4, <1>5 DEF Start
<1>6. CASE Result(r)
  BY <1>4, <1>6 DEF Result
<1>7. CASE Generate(r) \/ Send(r) \/ Submit(r)
  BY <1>4, <1>7 DEF Generate, Send, Submit
<1>8. CASE VerifyClick(r)
  <2>1. PICK after \in {"solved", "captcha_inc"} :
          /\ rpc' = [rpc EXCEPT ![r] = after]
          /\ wrongImage' = IF after = "solved" THEN wrongImage ELSE OneMoreWrong(wrongImage)
    BY <1>8 DEF VerifyClick, GoTo
  <2>2. UNCHANGED <<captchaAttempts, otpAttempts, wrongProblem>>
    BY <1>8 DEF VerifyClick, otpVars
  <2>3. after \in Places \ {"idle"}
    BY DEF Places
  <2>4. Stands(r)'
    <3>1. captchaAttempts = wrongImage /\ captchaAttempts < MaxCaptchaAttempts
      BY <1>3, <2>1, <2>3
    <3>2. OneMoreWrong(wrongImage) = captchaAttempts + 1
      BY <3>1 DEF OneMoreWrong, LongHistory, MaxCaptchaAttempts, TypeOK
    <3> QED BY <1>3, <2>1, <2>2, <2>3, <3>2 DEF Stands, CaptchaStands, OtpStands, Failing
  <2>5. rpc'[r] # "idle"
    BY <1>3, <2>1, <2>3
  <2> QED BY <2>1, <2>4, <2>5, SoloMoves
<1>9. CASE VerifyAnswer(r)
  <2>1. UNCHANGED <<captchaAttempts, otpAttempts, wrongImage, attached, status>>
    BY <1>9 DEF VerifyAnswer, captchaVars, connVars
  <2>2. CASE UNCHANGED <<rpc, rval, wrongProblem>>
    BY <1>2, <2>1, <2>2
  <2>3. CASE rpc' = [rpc EXCEPT ![r] = "otp_inc"] /\ wrongProblem' = OneMoreWrong(wrongProblem)
    <3>1. "otp_inc" \in Places \ {"idle"}
      BY DEF Places
    <3>2. /\ captchaAttempts = wrongImage /\ captchaAttempts < MaxCaptchaAttempts
          /\ otpAttempts = wrongProblem /\ otpAttempts < MaxOTPAttempts
          /\ rpc'[r] = "otp_inc"
      BY <1>3, <2>3, <3>1
    <3>3. OneMoreWrong(wrongProblem) = otpAttempts + 1
      BY <3>2 DEF OneMoreWrong, LongHistory, MaxOTPAttempts, TypeOK
    <3>4. Stands(r)'
      BY <2>1, <2>3, <3>2, <3>3 DEF Stands, CaptchaStands, OtpStands, Failing
    <3> QED BY <2>3, <3>2, <3>4, SoloMoves
  <2> QED BY <1>9, <2>2, <2>3 DEF VerifyAnswer, GoTo
<1> QED BY <1>5, <1>6, <1>7, <1>8, <1>9 DEF Call

LEMMA SoloHandle ==
  ASSUME TypeOK, OneAtATime, OneAtATime', Solo, NEW r \in Reqs, Handle(r)
  PROVE  Solo'
<1> DEFINE now == rpc[r]
<1> USE DEF Failing, MaxCaptchaAttempts, MaxOTPAttempts
<1>1. now # "idle" /\ \E after : rpc' = [rpc EXCEPT ![r] = after]
  BY DEF Handle, StartPromote, ResultClear, ResultOver, ResultOverRest, GenerateDone, GenerateFails,
         Solved, CaptchaInc, CaptchaStore, CaptchaCheck, Regenerate, RegenerateFails, SendCode,
         TargetY, AnswerImage, AnswerProblem, OverTell, OverWrite, AnswerOver, DrawImage, DrawProblem,
         SendZero, OtpInc, OtpStore, OtpCheck, Reproblem, FailTell, FailWrite, FailReset,
         FailResetRest, FailDetach, FailForget, Step, SetStatus, ResetRest, At, GoTo
<1>2. Stands(r)
  BY <1>1 DEF Solo
<1>3. SUFFICES Stands(r)'
  BY <1>1, SoloMoves
<1>4. /\ captchaAttempts \in 0..MaxCount /\ otpAttempts \in 0..MaxCount
      /\ wrongImage \in Nat /\ wrongProblem \in Nat /\ rval[r] \in 0..MaxCount
      /\ rpc \in [Reqs -> Places] /\ rval \in [Reqs -> 0..MaxCount]
  BY DEF TypeOK
<1>5. CASE StartPromote(r) \/ ResultClear(r) \/ ResultOver(r) \/ Solved(r) \/ FailReset(r)
  BY <1>2, <1>4, <1>5 DEF StartPromote, ResultClear, ResultOver, Solved, FailReset, SetStatus, At, GoTo,
         Stands, CaptchaStands, OtpStands, captchaVars, otpVars
<1>6. CASE ResultOverRest(r) \/ FailResetRest(r)
  <2>1. rpc'[r] \in {"over_tell", "detach"}
    BY <1>4, <1>6 DEF ResultOverRest, FailResetRest, ResetRest, GoTo
  <2>2. captchaAttempts' = 0 /\ otpAttempts' = 0 /\ wrongImage' = 0 /\ wrongProblem' = 0
    BY <1>6 DEF ResultOverRest, FailResetRest, ResetRest
  <2> QED BY <2>1, <2>2 DEF Stands, CaptchaStands, OtpStands
<1>7. CASE GenerateDone(r) \/ GenerateFails(r) \/ Regenerate(r) \/ RegenerateFails(r)
           \/ TargetY(r) \/ AnswerImage(r)
  BY <1>2, <1>4, <1>7 DEF GenerateDone, GenerateFails, Regenerate, RegenerateFails, TargetY, AnswerImage,
         DrawImage, Step, At, GoTo, Stands, CaptchaStands, OtpStands, captchaVars, otpVars
<1>8. CASE CaptchaInc(r) \/ CaptchaCheck(r)
  BY <1>2, <1>4, <1>8 DEF CaptchaInc, CaptchaCheck, Exceeded, Step, At, GoTo,
         Stands, CaptchaStands, OtpStands, captchaVars, otpVars
<1>9. CASE CaptchaStore(r)
  BY <1>2, <1>4, <1>9 DEF CaptchaStore, Incremented, At, Stands, CaptchaStands, OtpStands, otpVars
<1>10. CASE SendCode(r) \/ Reproblem(r) \/ AnswerProblem(r)
  BY <1>2, <1>4, <1>10 DEF SendCode, Reproblem, AnswerProblem, DrawProblem, At, GoTo,
         Stands, CaptchaStands, OtpStands, captchaVars, otpVars
<1>15. CASE SendZero(r)
  <2>1. rpc[r] = "send_zero" /\ rpc'[r] = "answer_problem"
    BY <1>4, <1>15 DEF SendZero, At, GoTo
  <2>2. otpAttempts' = 0 /\ wrongProblem' = 0
    BY <1>15 DEF SendZero
  <2>3. captchaAttempts = wrongImage /\ captchaAttempts < MaxCaptchaAttempts
    BY <1>2, <2>1 DEF Stands, CaptchaStands
  <2> QED BY <1>15, <2>1, <2>2, <2>3 DEF SendZero, Stands, CaptchaStands, OtpStands, captchaVars
<1>16. CASE OverTell(r) \/ OverWrite(r) \/ AnswerOver(r)
  BY <1>2, <1>4, <1>16 DEF OverTell, OverWrite, AnswerOver, Step, At, GoTo,
         Stands, CaptchaStands, OtpStands, captchaVars, otpVars
<1>11. CASE OtpInc(r) \/ OtpCheck(r)
  BY <1>2, <1>4, <1>11 DEF OtpInc, OtpCheck, Exceeded, Step, At, GoTo,
         Stands, CaptchaStands, OtpStands, captchaVars, otpVars
<1>12. CASE OtpStore(r)
  BY <1>2, <1>4, <1>12 DEF OtpStore, Incremented, At, Stands, CaptchaStands, OtpStands, captchaVars
<1>13. CASE FailTell(r) \/ FailDetach(r)
  BY <1>2, <1>4, <1>13 DEF FailTell, FailDetach, Step, At, GoTo,
         Stands, CaptchaStands, OtpStands, captchaVars, otpVars, connVars
<1>14. CASE FailWrite(r) \/ FailForget(r)
  BY <1>2, <1>4, <1>14 DEF FailWrite, FailForget, At, GoTo,
         Stands, CaptchaStands, OtpStands, captchaVars, otpVars
<1> QED BY <1>5, <1>6, <1>7, <1>8, <1>9, <1>10, <1>11, <1>12, <1>13, <1>14,
           <1>15, <1>16 DEF Handle

LEMMA SoloNext ==
  ASSUME LongHistory
  PROVE  TypeOK /\ OneAtATime /\ OneAtATime' /\ Solo /\ [Next]_vars => Solo'
<1> SUFFICES ASSUME TypeOK, OneAtATime, OneAtATime', Solo, [Next]_vars PROVE Solo'
  OBVIOUS
<1>1. CASE Reconnect
  BY <1>1 DEF Reconnect, Solo, Stands, CaptchaStands, OtpStands, Quiet, At, captchaVars, otpVars
<1>2. CASE UNCHANGED vars
  BY <1>2 DEF vars, Solo, Stands, CaptchaStands, OtpStands, Quiet, At, captchaVars, otpVars, connVars
<1> QED BY <1>1, <1>2, SoloCall, SoloHandle DEF Next

LEMMA SoloInit == Init => Solo
BY DEF Init, Solo, Stands, CaptchaStands, OtpStands, Quiet, At, MaxCaptchaAttempts, MaxOTPAttempts

(* As long as the handlers of one user run one at a time, every wrong      *)
(* click and every wrong answer is counted and the third starts the user   *)
(* over, for any number of images, problems and wrong answers.             *)
THEOREM SoloClicksCounted ==
  ASSUME LongHistory PROVE Spec /\ []OneAtATime => []WrongClicksCounted
<1>1. Solo => WrongClicksCounted
  BY DEF Solo, WrongClicksCounted
<1>2. TypeOK /\ OneAtATime /\ OneAtATime' /\ Solo /\ [Next]_vars => Solo'
  BY SoloNext
<1> QED BY <1>1, <1>2, TypeInit, TypeNext, SoloInit, PTL DEF Spec

THEOREM SoloAnswersCounted ==
  ASSUME LongHistory PROVE Spec /\ []OneAtATime => []WrongAnswersCounted
<1>1. Solo => WrongAnswersCounted
  BY DEF Solo, WrongAnswersCounted
<1>2. TypeOK /\ OneAtATime /\ OneAtATime' /\ Solo /\ [Next]_vars => Solo'
  BY SoloNext
<1> QED BY <1>1, <1>2, TypeInit, TypeNext, SoloInit, PTL DEF Spec

(* Then the status leaves the table of transitions only where a solved     *)
(* CAPTCHA leads to the registration from any stage.                       *)
Checked ==
  \A r \in Reqs : /\ rpc[r] = "promote" => status = Waiting
                  /\ rpc[r] = "clear" => status = Stage1Dino

(* Which steps of a handler write the status.                              *)
LEMMA StatusStays ==
  ASSUME NEW r \in Reqs, Call(r) \/ Handle(r),
         ~(StartPromote(r) \/ ResultClear(r) \/ ResultOver(r) \/ FailReset(r) \/ Solved(r))
  PROVE  status' = status
<1>1. CASE Call(r)
  BY <1>1 DEF Call, Start, Result, Generate, VerifyClick, Send, VerifyAnswer, Submit, Begin, Step
<1>2. CASE Handle(r)
  BY <1>2 DEF Handle, ResultOverRest, OverTell, OverWrite, AnswerOver, GenerateDone, GenerateFails,
       CaptchaInc, CaptchaStore, CaptchaCheck, Regenerate, RegenerateFails, TargetY, AnswerImage,
       SendCode, SendZero, AnswerProblem, OtpInc, OtpStore, OtpCheck, Reproblem, FailTell, FailWrite,
       FailResetRest, FailDetach, FailForget, DrawImage, DrawProblem, Step, ResetRest
<1> QED BY <1>1, <1>2

LEMMA CheckedNext == TypeOK /\ OneAtATime /\ OneAtATime' /\ Checked /\ [Next]_vars => Checked'
<1> SUFFICES ASSUME TypeOK, OneAtATime, OneAtATime', Checked, [Next]_vars PROVE Checked'
  OBVIOUS
<1>1. CASE Reconnect \/ UNCHANGED vars
  BY <1>1 DEF Reconnect, vars, Checked
<1>2. ASSUME NEW r \in Reqs,
             StartPromote(r) \/ ResultClear(r) \/ ResultOver(r) \/ FailReset(r) \/ Solved(r)
      PROVE  Checked'
  <2>1. rpc[r] # "idle" /\ rpc' = [rpc EXCEPT ![r] = rpc'[r]]
       /\ rpc'[r] \in {"idle", "over_rest", "reset_rest"}
    BY <1>2 DEF StartPromote, ResultClear, ResultOver, FailReset, Solved, SetStatus, At, GoTo, TypeOK
  <2>2. \A x \in Reqs : rpc'[x] \in {"idle", "over_rest", "reset_rest"}
    BY <2>1 DEF OneAtATime, TypeOK
  <2> QED BY <2>2 DEF Checked
<1>3. ASSUME NEW r \in Reqs, Start(r) \/ Result(r) PROVE Checked'
  <2>1. PICK place : /\ rpc' = [rpc EXCEPT ![r] = place] /\ status' = status
                     /\ place = "promote" => status = Waiting
                     /\ place = "clear" => status = Stage1Dino
    BY <1>3 DEF Start, Result, Begin, Step, GoTo
  <2> QED BY <2>1 DEF Checked, TypeOK
<1>4. ASSUME NEW r \in Reqs, Call(r) \/ Handle(r), ~(Start(r) \/ Result(r)),
             ~(StartPromote(r) \/ ResultClear(r) \/ ResultOver(r) \/ FailReset(r) \/ Solved(r))
      PROVE  Checked'
  <2>1. status' = status
    BY <1>4, StatusStays
  <2>2. \/ rpc' = rpc
        \/ \E place \in Places \ {"promote", "clear"} : rpc' = [rpc EXCEPT ![r] = place]
    <3>1. CASE Call(r)
      BY <1>4, <3>1 DEF Call, Generate, VerifyClick, Send, VerifyAnswer, Submit, Begin, Step, GoTo, Places
    <3>2. CASE Handle(r)
      BY <1>4, <3>2 DEF Handle, ResultOverRest, OverTell, OverWrite, AnswerOver, GenerateDone,
         GenerateFails, CaptchaInc, CaptchaStore, CaptchaCheck, Regenerate, RegenerateFails, TargetY,
         AnswerImage, SendCode, SendZero, AnswerProblem, OtpInc, OtpStore, OtpCheck, Reproblem, FailTell,
         FailWrite, FailResetRest, FailDetach, FailForget, DrawImage, DrawProblem, Step, ResetRest,
         GoTo, Places
    <3> QED BY <1>4, <3>1, <3>2
  <2> QED BY <2>1, <2>2 DEF Checked, TypeOK
<1> QED BY <1>1, <1>2, <1>3, <1>4 DEF Next

THEOREM SoloSkips == Spec /\ []OneAtATime => OnlySolvedSkips
<1>1. ASSUME TypeOK, Checked, [Next]_vars
      PROVE  [status' # status =>
                CanTransitionTo(status, status') \/ \E r \in Reqs : At(r, "solved")]_vars
  <2>1. CASE status' = status
    BY <2>1
  <2>2. ASSUME NEW r \in Reqs, StartPromote(r) \/ ResultClear(r)
        PROVE  CanTransitionTo(status, status')
    BY <1>1, <2>2 DEF StartPromote, ResultClear, SetStatus, At, Checked, CanTransitionTo,
              validTransitions, Waiting, Stage1Dino, Registering
  <2>3. ASSUME NEW r \in Reqs, ResultOver(r) \/ FailReset(r), status' # status
        PROVE  CanTransitionTo(status, status')
    BY <1>1, <2>3 DEF ResultOver, FailReset, SetStatus, TypeOK, CanTransitionTo,
              validTransitions, Waiting, Stage1Dino, Registering
  <2>4. ASSUME NEW r \in Reqs, Solved(r) PROVE At(r, "solved")
    BY <2>4 DEF Solved, SetStatus
  <2>5. Reconnect \/ UNCHANGED vars => status' = status
    BY DEF Reconnect, vars
  <2> QED BY <1>1, <2>1, <2>2, <2>3, <2>4, <2>5, StatusStays DEF Next
<1>2. Init => Checked
  BY DEF Init, Checked
<1> QED BY <1>1, <1>2, TypeInit, TypeNext, CheckedNext, PTL DEF Spec, OnlySolvedSkips

-----------------------------------------------------------------------------
(* What is shown and what is compared, however handlers overlap            *)

(* Where no write crossed another one, at most one request has written and *)
(* not answered, and it will answer what it wrote; if there is none, what  *)
(* the client was last shown is what its answer will be compared with.     *)
(* A game that is over finds its connection still there: only a request    *)
(* that starts the user over too could have taken it away meanwhile.       *)
AloneUnderway(kind) ==
  \A r, other \in Reqs : rpc[r] \in Underway[kind] /\ rpc[other] \in Underway[kind] => r = other

NobodyUnderway(kind) == \A r \in Reqs : rpc[r] \notin Underway[kind]

WillShowImage(r) ==
  /\ rpc[r] = "target_y" => captchaTargetX = drawn[r]
  /\ rpc[r] = "answer_image" => captchaTargetX = drawn[r] /\ captchaTargetY = drawn[r]
  /\ rpc[r] \in StartingOver => captchaTargetX = Zero /\ captchaTargetY = Zero
  /\ rpc[r] = "over_write" => attached

WillShowProblem(r) ==
  /\ rpc[r] \in {"send_zero", "answer_problem"} => otpCode = drawn[r]
  /\ rpc[r] \in StartingOver => otpCode = Zero
  /\ rpc[r] = "over_write" => attached

ImageInOrder ==
  "image" \notin crossed => /\ AloneUnderway("image")
                            /\ \A r \in Reqs : WillShowImage(r)
                            /\ NobodyUnderway("image") => ImageExpected

ProblemInOrder ==
  "problem" \notin crossed => /\ AloneUnderway("problem")
                              /\ \A r \in Reqs : WillShowProblem(r)
                              /\ NobodyUnderway("problem") => ProblemExpected

(* The steps that neither write what is compared nor answer with it.       *)
Elsewhere(r) ==
  \/ StartPromote(r) \/ ResultClear(r) \/ ResultOver(r) \/ GenerateFails(r) \/ Solved(r)
  \/ CaptchaInc(r) \/ CaptchaStore(r) \/ CaptchaCheck(r) \/ RegenerateFails(r)
  \/ OtpInc(r) \/ OtpStore(r) \/ OtpCheck(r) \/ FailTell(r) \/ FailWrite(r) \/ FailReset(r)

LeavesAlone == Places \ (Underway["image"] \cup Underway["problem"])

LEMMA ElsewhereMoves ==
  ASSUME TypeOK, NEW r \in Reqs, Call(r) \/ Elsewhere(r)
  PROVE  /\ rpc[r] \in LeavesAlone
         /\ \E after \in LeavesAlone : rpc' = [rpc EXCEPT ![r] = after]
         /\ UNCHANGED <<captchaTargetX, captchaTargetY, otpCode, answerVars, attached>>
<1>1. CASE Call(r)
  <2>1. rpc[r] = "idle"
    BY <1>1 DEF Call, Start, Result, Generate, VerifyClick, Send, VerifyAnswer, Submit, Begin, Step, At
  <2>2. UNCHANGED <<captchaTargetX, captchaTargetY, otpCode, answerVars, attached>>
    BY <1>1 DEF Call, Start, Result, Generate, VerifyClick, Send, VerifyAnswer, Submit, Begin, Step,
         captchaVars, otpVars, connVars
  <2>3. \/ rpc' = rpc
        \/ \E after \in {"promote", "clear", "over", "generate", "solved", "captcha_inc", "send",
                         "otp_inc", "tell"} : rpc' = [rpc EXCEPT ![r] = after]
    BY <1>1 DEF Call, Start, Result, Generate, VerifyClick, Send, VerifyAnswer, Submit, Begin, Step, GoTo
  <2>4. rpc' = rpc => rpc' = [rpc EXCEPT ![r] = "idle"]
    BY <2>1 DEF TypeOK
  <2> QED BY <2>1, <2>2, <2>3, <2>4 DEF LeavesAlone, Places, Underway, StartingOver
<1>2. CASE Elsewhere(r)
  <2>1. rpc[r] \in LeavesAlone
    BY <1>2 DEF Elsewhere, StartPromote, ResultClear, ResultOver, GenerateFails, Solved, CaptchaInc,
         CaptchaStore, CaptchaCheck, RegenerateFails, OtpInc, OtpStore, OtpCheck, FailTell, FailWrite,
         FailReset, Step, SetStatus, At, LeavesAlone, Places, Underway, StartingOver
  <2>2. \E after \in LeavesAlone : rpc' = [rpc EXCEPT ![r] = after]
    BY <1>2 DEF Elsewhere, StartPromote, ResultClear, ResultOver, GenerateFails, Solved, CaptchaInc,
         CaptchaStore, CaptchaCheck, RegenerateFails, OtpInc, OtpStore, OtpCheck, FailTell, FailWrite,
         FailReset, Step, SetStatus, GoTo, LeavesAlone, Places, Underway, StartingOver
  <2>3. UNCHANGED <<captchaTargetX, captchaTargetY, otpCode, answerVars, attached>>
    BY <1>2 DEF Elsewhere, StartPromote, ResultClear, ResultOver, GenerateFails, Solved, CaptchaInc,
         CaptchaStore, CaptchaCheck, RegenerateFails, OtpInc, OtpStore, OtpCheck, FailTell, FailWrite,
         FailReset, Step, SetStatus, captchaVars, otpVars, connVars
  <2> QED BY <2>1, <2>2, <2>3
<1> QED BY <1>1, <1>2

(* A request that has just written is the only one underway, or its write  *)
(* crossed another one.                                                    *)
LEMMA ImageWritten ==
  ASSUME TypeOK, NEW r \in Reqs, NEW after \in Underway["image"], rpc' = [rpc EXCEPT ![r] = after],
         NEW kinds, "image" \in kinds, Writes(r, kinds), WillShowImage(r)'
  PROVE  ImageInOrder'
<1> SUFFICES ASSUME "image" \notin crossed' PROVE ImageInOrder'
  BY DEF ImageInOrder
<1>1. ~Crosses(r, "image")
  BY DEF Writes
<1>2. \A x \in Reqs \ {r} : rpc'[x] = rpc[x] /\ rpc'[x] \notin Underway["image"]
  BY <1>1 DEF Crosses, TypeOK
<1>3. rpc'[r] \in Underway["image"]
  BY DEF TypeOK
<1> QED BY <1>2, <1>3 DEF ImageInOrder, AloneUnderway, NobodyUnderway, WillShowImage, Underway, StartingOver

(* One that goes on from there disturbs nobody else.                       *)
LEMMA ImageAlong ==
  ASSUME TypeOK, ImageInOrder, NEW r \in Reqs, NEW after, rpc' = [rpc EXCEPT ![r] = after],
         rpc[r] \in Underway["image"], crossed' = crossed,
         WillShowImage(r) => WillShowImage(r)' /\ (after \in Underway["image"] \/ ImageExpected')
  PROVE  ImageInOrder'
<1> SUFFICES ASSUME "image" \notin crossed PROVE ImageInOrder'
  BY DEF ImageInOrder
<1>1. \A x \in Reqs \ {r} : rpc'[x] = rpc[x] /\ rpc'[x] \notin Underway["image"]
  BY DEF ImageInOrder, AloneUnderway, TypeOK
<1>2. WillShowImage(r)' /\ (after \in Underway["image"] \/ ImageExpected')
  BY DEF ImageInOrder
<1>3. rpc'[r] = after
  BY DEF TypeOK
<1>4. AloneUnderway("image")' /\ (NobodyUnderway("image")' => ImageExpected')
  BY <1>1, <1>2, <1>3 DEF AloneUnderway, NobodyUnderway
<1>5. \A x \in Reqs : WillShowImage(x)'
  BY <1>1, <1>2 DEF WillShowImage, Underway, StartingOver
<1> QED BY <1>4, <1>5 DEF ImageInOrder

(* One that has not written and does not write leaves it all alone.        *)
LEMMA ImageAside ==
  ASSUME TypeOK, ImageInOrder, NEW r \in Reqs, NEW after, rpc' = [rpc EXCEPT ![r] = after],
         rpc[r] \notin Underway["image"], after \notin Underway["image"],
         "image" \in crossed => "image" \in crossed',
         UNCHANGED <<captchaTargetX, captchaTargetY, shownImage, attached>>,
         \A x \in Reqs \ {r} : drawn'[x] = drawn[x]
  PROVE  ImageInOrder'
<1> SUFFICES ASSUME "image" \notin crossed PROVE ImageInOrder'
  BY DEF ImageInOrder
<1>1. rpc'[r] = after /\ \A x \in Reqs \ {r} : rpc'[x] = rpc[x]
  BY DEF TypeOK
<1>2. AloneUnderway("image")' /\ (NobodyUnderway("image")' => ImageExpected')
  BY <1>1 DEF ImageInOrder, AloneUnderway, NobodyUnderway, ImageExpected
<1>3. \A x \in Reqs : WillShowImage(x)'
  BY <1>1 DEF ImageInOrder, WillShowImage, Underway, StartingOver
<1> QED BY <1>2, <1>3 DEF ImageInOrder

LEMMA ImageNext == TypeOK /\ ImageInOrder /\ [Next]_vars => ImageInOrder'
<1> SUFFICES ASSUME TypeOK, ImageInOrder, [Next]_vars PROVE ImageInOrder'
  OBVIOUS
<1>1. CASE Reconnect \/ UNCHANGED vars
  BY <1>1 DEF Reconnect, vars, captchaVars, answerVars, connVars, ImageInOrder, AloneUnderway,
       NobodyUnderway, WillShowImage, ImageExpected
<1>2. ASSUME NEW r \in Reqs, ResultOverRest(r) \/ FailResetRest(r) PROVE ImageInOrder'
  <2>1. PICK after \in {"over_tell", "detach"} : ResetRest(r, rpc[r], after)
    BY <1>2 DEF ResultOverRest, FailResetRest, ResetRest, At
  <2>2. rpc' = [rpc EXCEPT ![r] = after] /\ Writes(r, {"image", "problem"})
    BY <2>1 DEF ResetRest, GoTo
  <2>3. WillShowImage(r)'
    BY <2>1, <2>2 DEF ResetRest, WillShowImage, TypeOK
  <2> QED BY <2>2, <2>3, ImageWritten DEF Underway, StartingOver
<1>3. ASSUME NEW r \in Reqs, GenerateDone(r) \/ Regenerate(r) PROVE ImageInOrder'
  <2>1. DrawImage(r, rpc[r])
    BY <1>3 DEF GenerateDone, Regenerate, DrawImage, At
  <2>2. rpc' = [rpc EXCEPT ![r] = "target_y"] /\ Writes(r, {"image"})
    BY <2>1 DEF DrawImage, GoTo
  <2>3. WillShowImage(r)'
    BY <2>1, <2>2 DEF DrawImage, WillShowImage, StartingOver, TypeOK
  <2> QED BY <2>2, <2>3, ImageWritten DEF Underway
<1>4. ASSUME NEW r \in Reqs,
             \/ TargetY(r) \/ AnswerImage(r) \/ OverTell(r) \/ OverWrite(r) \/ AnswerOver(r)
             \/ FailDetach(r) \/ FailForget(r)
      PROVE  ImageInOrder'
  <2>1. PICK after : rpc' = [rpc EXCEPT ![r] = after] /\ after = rpc'[r]
    BY <1>4 DEF TargetY, AnswerImage, OverTell, OverWrite, AnswerOver, FailDetach, FailForget, Step,
         GoTo, TypeOK
  <2>2. rpc[r] \in Underway["image"] /\ crossed' = crossed
    BY <1>4 DEF TargetY, AnswerImage, OverTell, OverWrite, AnswerOver, FailDetach, FailForget, Step,
         At, Underway, StartingOver, answerVars
  <2>3. ASSUME WillShowImage(r)
        PROVE  WillShowImage(r)' /\ (after \in Underway["image"] \/ ImageExpected')
    <3>1. CASE TargetY(r)
      BY <2>1, <2>3, <3>1 DEF TargetY, At, GoTo, TypeOK, WillShowImage, Underway, StartingOver, answerVars
    <3>2. CASE AnswerImage(r)
      BY <2>1, <2>3, <3>2 DEF AnswerImage, At, GoTo, TypeOK, WillShowImage, ImageExpected, StartingOver,
           captchaVars
    <3>3. CASE OverTell(r) \/ FailDetach(r)
      BY <2>1, <2>3, <3>3 DEF OverTell, FailDetach, Step, At, GoTo, TypeOK, WillShowImage, Underway,
           StartingOver, captchaVars, connVars
    <3>4. CASE OverWrite(r)
      BY <2>1, <2>3, <3>4 DEF OverWrite, Step, At, GoTo, TypeOK, WillShowImage, Underway,
           StartingOver, captchaVars, connVars
    <3>5. CASE AnswerOver(r)
      BY <2>1, <2>3, <3>5 DEF AnswerOver, At, GoTo, TypeOK, WillShowImage, ImageExpected, StartingOver,
           captchaVars
    <3>6. CASE FailForget(r)
      BY <2>1, <2>3, <3>6 DEF FailForget, At, GoTo, TypeOK, WillShowImage, Underway, StartingOver,
           captchaVars
    <3> QED BY <1>4, <3>1, <3>2, <3>3, <3>4, <3>5, <3>6
  <2> QED BY <2>1, <2>2, <2>3, ImageAlong
<1>5. ASSUME NEW r \in Reqs, SendCode(r) \/ SendZero(r) \/ AnswerProblem(r) \/ Reproblem(r)
      PROVE  ImageInOrder'
  <2>1. PICK after : rpc' = [rpc EXCEPT ![r] = after] /\ after \in {"send_zero", "answer_problem", "idle"}
    BY <1>5 DEF SendCode, SendZero, AnswerProblem, Reproblem, DrawProblem, GoTo
  <2>2. rpc[r] \in {"send", "send_zero", "answer_problem", "reproblem"}
    BY <1>5 DEF SendCode, SendZero, AnswerProblem, Reproblem, DrawProblem, At
  <2>3. "image" \in crossed => "image" \in crossed'
    BY <1>5 DEF SendCode, SendZero, AnswerProblem, Reproblem, DrawProblem, Writes, answerVars
  <2>4. /\ UNCHANGED <<captchaTargetX, captchaTargetY, shownImage, attached>>
        /\ \A x \in Reqs \ {r} : drawn'[x] = drawn[x]
    BY <1>5 DEF SendCode, SendZero, AnswerProblem, Reproblem, DrawProblem, TypeOK, captchaVars,
         answerVars, connVars
  <2> QED BY <2>1, <2>2, <2>3, <2>4, ImageAside DEF Underway, StartingOver
<1>6. ASSUME NEW r \in Reqs, Call(r) \/ Elsewhere(r) PROVE ImageInOrder'
  <2>1. PICK after \in LeavesAlone : rpc' = [rpc EXCEPT ![r] = after]
    BY <1>6, ElsewhereMoves
  <2>2. rpc[r] \in LeavesAlone /\ UNCHANGED <<captchaTargetX, captchaTargetY, answerVars, attached>>
    BY <1>6, ElsewhereMoves
  <2> QED BY <2>1, <2>2, ImageAside DEF LeavesAlone, Underway, StartingOver, answerVars
<1> QED BY <1>1, <1>2, <1>3, <1>4, <1>5, <1>6 DEF Next, Handle, Elsewhere

(* The same of the problem and its code.                                   *)
LEMMA ProblemWritten ==
  ASSUME TypeOK, NEW r \in Reqs, NEW after \in Underway["problem"], rpc' = [rpc EXCEPT ![r] = after],
         NEW kinds, "problem" \in kinds, Writes(r, kinds), WillShowProblem(r)'
  PROVE  ProblemInOrder'
<1> SUFFICES ASSUME "problem" \notin crossed' PROVE ProblemInOrder'
  BY DEF ProblemInOrder
<1>1. ~Crosses(r, "problem")
  BY DEF Writes
<1>2. \A x \in Reqs \ {r} : rpc'[x] = rpc[x] /\ rpc'[x] \notin Underway["problem"]
  BY <1>1 DEF Crosses, TypeOK
<1>3. rpc'[r] \in Underway["problem"]
  BY DEF TypeOK
<1> QED BY <1>2, <1>3 DEF ProblemInOrder, AloneUnderway, NobodyUnderway, WillShowProblem, Underway,
           StartingOver

LEMMA ProblemAlong ==
  ASSUME TypeOK, ProblemInOrder, NEW r \in Reqs, NEW after, rpc' = [rpc EXCEPT ![r] = after],
         rpc[r] \in Underway["problem"], crossed' = crossed,
         WillShowProblem(r) => WillShowProblem(r)' /\ (after \in Underway["problem"] \/ ProblemExpected')
  PROVE  ProblemInOrder'
<1> SUFFICES ASSUME "problem" \notin crossed PROVE ProblemInOrder'
  BY DEF ProblemInOrder
<1>1. \A x \in Reqs \ {r} : rpc'[x] = rpc[x] /\ rpc'[x] \notin Underway["problem"]
  BY DEF ProblemInOrder, AloneUnderway, TypeOK
<1>2. WillShowProblem(r)' /\ (after \in Underway["problem"] \/ ProblemExpected')
  BY DEF ProblemInOrder
<1>3. rpc'[r] = after
  BY DEF TypeOK
<1>4. AloneUnderway("problem")' /\ (NobodyUnderway("problem")' => ProblemExpected')
  BY <1>1, <1>2, <1>3 DEF AloneUnderway, NobodyUnderway
<1>5. \A x \in Reqs : WillShowProblem(x)'
  BY <1>1, <1>2 DEF WillShowProblem, Underway, StartingOver
<1> QED BY <1>4, <1>5 DEF ProblemInOrder

LEMMA ProblemAside ==
  ASSUME TypeOK, ProblemInOrder, NEW r \in Reqs, NEW after, rpc' = [rpc EXCEPT ![r] = after],
         rpc[r] \notin Underway["problem"], after \notin Underway["problem"],
         "problem" \in crossed => "problem" \in crossed',
         UNCHANGED <<otpCode, shownProblem, attached>>,
         \A x \in Reqs \ {r} : drawn'[x] = drawn[x]
  PROVE  ProblemInOrder'
<1> SUFFICES ASSUME "problem" \notin crossed PROVE ProblemInOrder'
  BY DEF ProblemInOrder
<1>1. rpc'[r] = after /\ \A x \in Reqs \ {r} : rpc'[x] = rpc[x]
  BY DEF TypeOK
<1>2. AloneUnderway("problem")' /\ (NobodyUnderway("problem")' => ProblemExpected')
  BY <1>1 DEF ProblemInOrder, AloneUnderway, NobodyUnderway, ProblemExpected
<1>3. \A x \in Reqs : WillShowProblem(x)'
  BY <1>1 DEF ProblemInOrder, WillShowProblem, Underway, StartingOver
<1> QED BY <1>2, <1>3 DEF ProblemInOrder

LEMMA ProblemNext == TypeOK /\ ProblemInOrder /\ [Next]_vars => ProblemInOrder'
<1> SUFFICES ASSUME TypeOK, ProblemInOrder, [Next]_vars PROVE ProblemInOrder'
  OBVIOUS
<1>1. CASE Reconnect \/ UNCHANGED vars
  BY <1>1 DEF Reconnect, vars, otpVars, answerVars, connVars, ProblemInOrder, AloneUnderway,
       NobodyUnderway, WillShowProblem, ProblemExpected
<1>2. ASSUME NEW r \in Reqs, ResultOverRest(r) \/ FailResetRest(r) PROVE ProblemInOrder'
  <2>1. PICK after \in {"over_tell", "detach"} : ResetRest(r, rpc[r], after)
    BY <1>2 DEF ResultOverRest, FailResetRest, ResetRest, At
  <2>2. rpc' = [rpc EXCEPT ![r] = after] /\ Writes(r, {"image", "problem"})
    BY <2>1 DEF ResetRest, GoTo
  <2>3. WillShowProblem(r)'
    BY <2>1, <2>2 DEF ResetRest, WillShowProblem, TypeOK
  <2> QED BY <2>2, <2>3, ProblemWritten DEF Underway, StartingOver
<1>3. ASSUME NEW r \in Reqs, SendCode(r) \/ Reproblem(r) PROVE ProblemInOrder'
  <2>1. PICK after \in {"send_zero", "answer_problem"} : DrawProblem(r, rpc[r], after)
    BY <1>3 DEF SendCode, Reproblem, DrawProblem, At
  <2>2. rpc' = [rpc EXCEPT ![r] = after] /\ Writes(r, {"problem"})
    BY <2>1 DEF DrawProblem, GoTo
  <2>3. WillShowProblem(r)'
    BY <2>1, <2>2 DEF DrawProblem, WillShowProblem, StartingOver, TypeOK
  <2> QED BY <2>2, <2>3, ProblemWritten DEF Underway
<1>4. ASSUME NEW r \in Reqs,
             \/ SendZero(r) \/ AnswerProblem(r) \/ OverTell(r) \/ OverWrite(r) \/ AnswerOver(r)
             \/ FailDetach(r) \/ FailForget(r)
      PROVE  ProblemInOrder'
  <2>1. PICK after : rpc' = [rpc EXCEPT ![r] = after] /\ after = rpc'[r]
    BY <1>4 DEF SendZero, AnswerProblem, OverTell, OverWrite, AnswerOver, FailDetach, FailForget, Step,
         GoTo, TypeOK
  <2>2. rpc[r] \in Underway["problem"] /\ crossed' = crossed
    BY <1>4 DEF SendZero, AnswerProblem, OverTell, OverWrite, AnswerOver, FailDetach, FailForget, Step,
         At, Underway, StartingOver, answerVars
  <2>3. ASSUME WillShowProblem(r)
        PROVE  WillShowProblem(r)' /\ (after \in Underway["problem"] \/ ProblemExpected')
    <3>1. CASE SendZero(r)
      BY <2>1, <2>3, <3>1 DEF SendZero, At, GoTo, TypeOK, WillShowProblem, Underway, StartingOver,
           answerVars
    <3>2. CASE AnswerProblem(r)
      BY <2>1, <2>3, <3>2 DEF AnswerProblem, At, GoTo, TypeOK, WillShowProblem, ProblemExpected,
           StartingOver, otpVars
    <3>3. CASE OverTell(r) \/ FailDetach(r)
      BY <2>1, <2>3, <3>3 DEF OverTell, FailDetach, Step, At, GoTo, TypeOK, WillShowProblem, Underway,
           StartingOver, otpVars, connVars
    <3>4. CASE OverWrite(r)
      BY <2>1, <2>3, <3>4 DEF OverWrite, Step, At, GoTo, TypeOK, WillShowProblem, Underway,
           StartingOver, otpVars, connVars
    <3>5. CASE AnswerOver(r)
      BY <2>1, <2>3, <3>5 DEF AnswerOver, At, GoTo, TypeOK, WillShowProblem, ProblemExpected,
           StartingOver, otpVars
    <3>6. CASE FailForget(r)
      BY <2>1, <2>3, <3>6 DEF FailForget, At, GoTo, TypeOK, WillShowProblem, Underway, StartingOver,
           otpVars
    <3> QED BY <1>4, <3>1, <3>2, <3>3, <3>4, <3>5, <3>6
  <2> QED BY <2>1, <2>2, <2>3, ProblemAlong
<1>5. ASSUME NEW r \in Reqs, GenerateDone(r) \/ Regenerate(r) \/ TargetY(r) \/ AnswerImage(r)
      PROVE  ProblemInOrder'
  <2>1. PICK after : rpc' = [rpc EXCEPT ![r] = after] /\ after \in {"target_y", "answer_image", "idle"}
    BY <1>5 DEF GenerateDone, Regenerate, TargetY, AnswerImage, DrawImage, GoTo
  <2>2. rpc[r] \in {"generate", "regenerate", "target_y", "answer_image"}
    BY <1>5 DEF GenerateDone, Regenerate, TargetY, AnswerImage, DrawImage, At
  <2>3. "problem" \in crossed => "problem" \in crossed'
    BY <1>5 DEF GenerateDone, Regenerate, TargetY, AnswerImage, DrawImage, Writes, answerVars
  <2>4. /\ UNCHANGED <<otpCode, shownProblem, attached>>
        /\ \A x \in Reqs \ {r} : drawn'[x] = drawn[x]
    BY <1>5 DEF GenerateDone, Regenerate, TargetY, AnswerImage, DrawImage, TypeOK, otpVars,
         answerVars, connVars
  <2> QED BY <2>1, <2>2, <2>3, <2>4, ProblemAside DEF Underway, StartingOver
<1>6. ASSUME NEW r \in Reqs, Call(r) \/ Elsewhere(r) PROVE ProblemInOrder'
  <2>1. PICK after \in LeavesAlone : rpc' = [rpc EXCEPT ![r] = after]
    BY <1>6, ElsewhereMoves
  <2>2. rpc[r] \in LeavesAlone /\ UNCHANGED <<otpCode, answerVars, attached>>
    BY <1>6, ElsewhereMoves
  <2> QED BY <2>1, <2>2, ProblemAside DEF LeavesAlone, Underway, StartingOver, answerVars
<1> QED BY <1>1, <1>2, <1>3, <1>4, <1>5, <1>6 DEF Next, Handle, Elsewhere

(* However many handlers of one user overlap, fail and start it over: if   *)
(* all have answered and the picture or the problem on the screen is not   *)
(* the one that the next answer is compared with, the last write of it     *)
(* happened while another handler had written and not answered yet.        *)
THEOREM StaleIsCrossed == Spec => []StaleOnlyIfCrossed
<1>1. Init => ImageInOrder /\ ProblemInOrder
  BY DEF Init, ImageInOrder, ProblemInOrder, AloneUnderway, WillShowImage, WillShowProblem,
       ImageExpected, ProblemExpected, Underway, StartingOver
<1>2. ImageInOrder /\ ProblemInOrder => StaleOnlyIfCrossed
  <2> SUFFICES ASSUME ImageInOrder, ProblemInOrder, Quiet PROVE StaleOnlyIfCrossed
    BY DEF StaleOnlyIfCrossed
  <2>1. NobodyUnderway("image") /\ NobodyUnderway("problem")
    BY DEF Quiet, At, NobodyUnderway, Underway, StartingOver
  <2> QED BY <2>1 DEF ImageInOrder, ProblemInOrder, StaleOnlyIfCrossed
<1> QED BY <1>1, <1>2, TypeInit, TypeNext, ImageNext, ProblemNext, PTL DEF Spec

(* The same without the exception.                                         *)
ShownIsExpected == Quiet => ImageExpected /\ ProblemExpected

(* As long as the handlers of one user run one at a time, no write crosses *)
(* another one, over failed generations, games lost and stages changed:    *)
(* what is shown is what is compared.                                      *)
THEOREM SoloShown == Spec /\ []OneAtATime => []ShownIsExpected
<1> DEFINE Uncrossed == crossed = {}
<1>1. Init => Uncrossed
  BY DEF Init
<1>2. ASSUME TypeOK, OneAtATime, Uncrossed, [Next]_vars PROVE Uncrossed'
  <2>1. CASE Reconnect \/ UNCHANGED vars
    BY <1>2, <2>1 DEF Reconnect, vars, answerVars
  <2>2. ASSUME NEW r \in Reqs, NEW kinds \in SUBSET {"image", "problem"}, rpc[r] # "idle",
               Writes(r, kinds)
        PROVE  crossed' = {}
    <3>1. \A kind \in {"image", "problem"} : ~Crosses(r, kind)
      BY <1>2, <2>2 DEF OneAtATime, Crosses, Underway, StartingOver
    <3> QED BY <1>2, <2>2, <3>1 DEF Writes
  <2>3. ASSUME NEW r \in Reqs,
               \/ ResultOverRest(r) \/ FailResetRest(r) \/ GenerateDone(r) \/ Regenerate(r)
               \/ SendCode(r) \/ Reproblem(r)
        PROVE  crossed' = {}
    <3>1. rpc[r] # "idle"
      BY <2>3 DEF ResultOverRest, FailResetRest, GenerateDone, Regenerate, SendCode, Reproblem,
           ResetRest, DrawImage, DrawProblem, At
    <3>2. Writes(r, {"image", "problem"}) \/ Writes(r, {"image"}) \/ Writes(r, {"problem"})
      BY <2>3 DEF ResultOverRest, FailResetRest, GenerateDone, Regenerate, SendCode, Reproblem,
           ResetRest, DrawImage, DrawProblem
    <3> QED BY <2>2, <3>1, <3>2
  <2>4. ASSUME NEW r \in Reqs, Call(r) \/ Elsewhere(r) PROVE crossed' = {}
    BY <1>2, <2>4, ElsewhereMoves DEF answerVars
  <2>5. ASSUME NEW r \in Reqs,
               \/ TargetY(r) \/ AnswerImage(r) \/ SendZero(r) \/ AnswerProblem(r) \/ OverTell(r)
               \/ OverWrite(r) \/ AnswerOver(r) \/ FailDetach(r) \/ FailForget(r)
        PROVE  crossed' = {}
    BY <1>2, <2>5 DEF TargetY, AnswerImage, SendZero, AnswerProblem, OverTell, OverWrite, AnswerOver,
         FailDetach, FailForget, Step, answerVars
  <2> QED BY <1>2, <2>1, <2>3, <2>4, <2>5 DEF Next, Handle, Elsewhere
<1>3. Uncrossed /\ StaleOnlyIfCrossed => ShownIsExpected
  BY DEF StaleOnlyIfCrossed, ShownIsExpected
<1> HIDE DEF Uncrossed
<1> QED BY <1>1, <1>2, <1>3, TypeInit, TypeNext, StaleIsCrossed, PTL DEF Spec
=============================================================================

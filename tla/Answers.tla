-------------------------------- MODULE Answers -------------------------------
(***************************************************************************)
(* The calls that compute an answer and change no state of the server: the *)
(* calculus problem of the OTP, the password analysis of the registration  *)
(* form with its wiring (cmd/server/main.go), and the comparison of names. *)
(* The reply that was not read yet is the only state.                      *)
(***************************************************************************)
EXTENDS Calculus, Kana, PasswordAnalysis

CONSTANTS
  Codes,      \* bound: codes the random generator draws
  Constants,  \* bound: constant terms it draws, of 1 to 100
  Texts,      \* bound: what is entered, and expected, as a name
  Passwords   \* bound: passwords of the analysis requests

ASSUME CodesHaveSixDigits == \A otp \in Codes : HasSixDigits(otp)
ASSUME ConstantsInRange == Constants \subseteq 1..100
ASSUME TextsAreRunes == Texts \subseteq Seq(Nat)
ASSUME PasswordsAreCharacters == Passwords \subseteq Seq(Nat)

VARIABLES
  configured, \* an AWS configuration was found when the server started
  reply       \* what a call returned, and for what

vars == <<configured, reply>>

NoReply == [of |-> "none"]

(* Without AWS there is no password handler; with it the fallback is on.   *)
Init == configured \in BOOLEAN /\ reply = NoReply

Idle == reply = NoReply
Answer(r) == reply' = r /\ UNCHANGED configured

(* The client has read it, and may call again.                             *)
Read ==
  /\ ~Idle
  /\ Answer(NoReply)

(* OTPHandler.Send: what is kept as the code, and what is printed.         *)
GenerateProblem ==
  /\ Idle
  /\ \E otp \in Codes, k \in kOptions, c \in Constants :
       \E p \in Generate(otp, k, c) :
         Answer([of |-> "problem", otp |-> p.otp, latex |-> generateLatex(p)])

Compare ==
  /\ Idle
  /\ \E input \in Texts, answer \in Texts :
       Answer([of |-> "match", input |-> input, answer |-> answer,
               matches |-> KanaMatch(input, answer)])

(* The checks of PasswordHandler.Analyze, in turn.                         *)
Refuse ==
  /\ Idle /\ configured
  /\ \E code \in {"SESSION_NOT_FOUND", "INVALID_SESSION", "WRONG_STAGE", "BAD_REQUEST",
                   "EMPTY_PASSWORD"} :
       Answer([of |-> "refusal", code |-> code])

(* unavailableHandler                                                      *)
Unavailable == Idle /\ ~configured /\ Answer([of |-> "refusal", code |-> "unavailable"])

Analyze ==
  /\ Idle /\ configured
  /\ \E p \in Passwords, outcome \in Outcomes :
       Answer([of |-> "analysis", password |-> p, outcome |-> outcome,
               analysis |-> AnalyzePassword(p, outcome, TRUE)])

Next == Read \/ GenerateProblem \/ Compare \/ Refuse \/ Unavailable \/ Analyze

Spec == Init /\ [][Next]_vars

-----------------------------------------------------------------------------
(* Whoever solves the problem as it is printed, with the coefficients that *)
(* are left out read as 1, gets the code that is expected, and it has the  *)
(* six digits the client asks for: no draw ends in the generator's last    *)
(* resort, which makes up a code of its own.                               *)
PrintedProblemGivesCode ==
  reply.of = "problem" =>
    Solution(reply.latex) = reply.otp /\ HasSixDigits(reply.otp)

(* Two names match exactly when, the spaces around them aside, each rune   *)
(* is the same in both or the counterpart of the other's in the other kana *)
(* block; converting both to hiragana instead tells the same names apart;  *)
(* and a match never joins a name of kana only with one that has other     *)
(* runes.  Counterparts are those of kana.go, one offset over the whole    *)
(* block: most are read alike, the marks at its end are not (the voiced    *)
(* sound mark goes with the middle dot, the semi-voiced one with the       *)
(* prolonged sound mark).                                                  *)
SameRune(r, q) == r = q \/ {r, q} \in {{h, h + kanaOffset} : h \in hiraganaStart..hiraganaEnd}
MatchIsSameReading ==
  reply.of = "match" =>
    LET s == TrimOf(reply.input, Spaces)
        t == TrimOf(reply.answer, Spaces)
    IN  /\ reply.matches <=> Len(s) = Len(t) /\ \A i \in DOMAIN s : SameRune(s[i], t[i])
        /\ reply.matches <=> KatakanaToHiragana(s) = KatakanaToHiragana(t)
        /\ reply.matches => (ContainsOnlyKana(s) <=> ContainsOnlyKana(t))

(* Without an answer of the model, a birthday at the end of a password is  *)
(* always called a birthday, whatever other digits come before it, and     *)
(* when the password is nothing but a birthday, it is that one.            *)
EndsInDate(p) ==
  /\ Len(p) >= 4 /\ DigitsAt(p, Len(p) - 3, 4)
  /\ TwoDigits(p, Len(p) - 3) \in 1..12 /\ TwoDigits(p, Len(p) - 1) \in 1..31
IsBirthday(p) ==
  DigitsAt(p, 1, Len(p)) /\ (Len(p) \in {4, 6} \/ (Len(p) = 8 /\ Century(p, 1)))
BirthdayIsCalled ==
  reply.of = "analysis" /\ EndsInDate(reply.password) /\ reply.outcome = "fails" =>
    LET p == reply.password
    IN  /\ reply.analysis.kind = "birthday"
        /\ IsBirthday(p) => reply.analysis.says = [month |-> TwoDigits(p, Len(p) - 3),
                                                   day |-> TwoDigits(p, Len(p) - 1)]

(* Whatever Bedrock does, who may ask gets an analysis, and it says        *)
(* something unless the model answered with a blank.                       *)
EveryPasswordAnswered ==
  reply.of = "analysis" =>
    /\ reply.analysis.kind # "error"
    /\ reply.analysis.kind = "blank" => reply.outcome = "blank"
=============================================================================

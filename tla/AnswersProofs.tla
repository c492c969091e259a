---------------------------- MODULE AnswersProofs -----------------------------
(***************************************************************************)
(* The calculus problem for every code of six digits, every evaluation     *)
(* point, every order of the shuffled options and every constant term.     *)
(***************************************************************************)
EXTENDS Answers, WaitingQueueProofs   \* for its lemma on Min

(* A coefficient survives being left out.                                  *)
LEMMA CoefficientIsRead ==
  ASSUME NEW n PROVE ReadCoefficient(Coefficient(n)) = n
<1>1. CASE n = 1
  BY <1>1 DEF ReadCoefficient, Coefficient
<1>2. CASE n # 1
  <2>1. <<n>> # <<>> /\ <<n>>[1] = n
    OBVIOUS
  <2> QED BY <1>2, <2>1 DEF ReadCoefficient, Coefficient
<1> QED BY <1>1, <1>2

(* The printed problem has the derivative of the kept one.                 *)
LEMMA PrintKeepsDerivative ==
  ASSUME NEW p PROVE Solution(generateLatex(p)) = Derivative(p.a, p.b, p.k)
<1>1. /\ generateLatex(p).square = Coefficient(p.a)
      /\ generateLatex(p).linear = Coefficient(p.b)
      /\ generateLatex(p).at = p.k
  BY DEF generateLatex
<1> QED BY <1>1, CoefficientIsRead DEF Solution

(* The draws are numbers of the sizes they should have.                    *)
LEMMA DrawsAreNumbers ==
  ASSUME NEW otp, HasSixDigits(otp), NEW k \in kOptions
  PROVE  otp \in Int /\ otp >= 100000 /\ k \in Int /\ k <= 200
<1>1. otp \in Int /\ otp >= 100000
  BY DEF HasSixDigits
<1>2. k = 10 \/ k = 20 \/ k = 50 \/ k = 100 \/ k = 200
  BY Zenon DEF kOptions
<1>3. k \in Int /\ k <= 200
  BY <1>2
<1> QED BY <1>1, <1>3

(* With six digits the option 1 always fits, so the last resort is not     *)
(* taken, and the code is the one that was drawn.                          *)
LEMMA DrawnCodeIsKept ==
  ASSUME NEW otp, HasSixDigits(otp), NEW k \in kOptions, NEW c, NEW p \in Generate(otp, k, c)
  PROVE  p.otp = otp /\ Derivative(p.a, p.b, p.k) = otp
<1>1. 1 \in Candidates(otp, k)
  <2>1. otp \in Int /\ otp >= 100000 /\ k \in Int /\ k <= 200
    BY DrawsAreNumbers
  <2>2. 2 * 1 * k <= 400
    BY <2>1
  <2>3. otp - 2 * 1 * k > 0
    BY <2>1, <2>2
  <2> QED BY <2>3 DEF Candidates, aOptions
<1>2. PICK a \in Candidates(otp, k) : p = Problem(otp, a, otp - 2 * a * k, c, k)
  BY <1>1 DEF Generate
<1>3. p.otp = otp /\ p.a = a /\ p.b = otp - 2 * a * k /\ p.k = k
  BY <1>2 DEF Problem
<1>4. 2 * a * k \in Int /\ otp \in Int
  <2>1. a \in Int /\ k \in Int /\ otp \in Int
    <3>1. a \in Int
      BY DEF Candidates, aOptions
    <3> QED BY <3>1, DrawsAreNumbers
  <2> QED BY <2>1
<1>5. 2 * a * k + (otp - 2 * a * k) = otp
  BY <1>4
<1> QED BY <1>3, <1>5 DEF Derivative

(* Whatever is drawn, who solves the printed problem has the code.         *)
THEOREM PrintedIsSolvable == Spec => []PrintedProblemGivesCode
<1>1. Init => PrintedProblemGivesCode
  BY DEF Init, NoReply, PrintedProblemGivesCode
<1>2. PrintedProblemGivesCode /\ [Next]_vars => PrintedProblemGivesCode'
  <2> SUFFICES ASSUME PrintedProblemGivesCode, [Next]_vars PROVE PrintedProblemGivesCode'
    OBVIOUS
  <2>1. CASE GenerateProblem
    <3>1. PICK otp \in Codes, k \in kOptions, c \in Constants :
            \E p \in Generate(otp, k, c) :
              Answer([of |-> "problem", otp |-> p.otp, latex |-> generateLatex(p)])
      BY <2>1 DEF GenerateProblem
    <3>2. PICK p \in Generate(otp, k, c) :
            reply' = [of |-> "problem", otp |-> p.otp, latex |-> generateLatex(p)]
      BY <3>1 DEF Answer
    <3>3. HasSixDigits(otp)
      BY CodesHaveSixDigits
    <3>4. Solution(generateLatex(p)) = otp /\ p.otp = otp
      BY <3>3, PrintKeepsDerivative, DrawnCodeIsKept
    <3> QED BY <3>2, <3>3, <3>4 DEF PrintedProblemGivesCode
  <2>2. CASE Read
    BY <2>2 DEF Read, Answer, NoReply, PrintedProblemGivesCode
  <2>3. CASE Compare
    BY <2>3 DEF Compare, Answer, PrintedProblemGivesCode
  <2>4. CASE Refuse \/ Unavailable
    BY <2>4 DEF Refuse, Unavailable, Answer, PrintedProblemGivesCode
  <2>5. CASE Analyze
    BY <2>5 DEF Analyze, Answer, PrintedProblemGivesCode
  <2>6. CASE UNCHANGED vars
    BY <2>6 DEF vars, PrintedProblemGivesCode
  <2> QED BY <2>1, <2>2, <2>3, <2>4, <2>5, <2>6 DEF Next
<1> QED BY <1>1, <1>2, PTL DEF Spec

-----------------------------------------------------------------------------
(* The replies                                                             *)

(* What an unread reply is, and of which call.                             *)
IsMatch ==
  /\ reply.of = "match" /\ reply.input \in Texts /\ reply.answer \in Texts
  /\ reply.matches <=> KanaMatch(reply.input, reply.answer)
IsAnalysis ==
  /\ reply.of = "analysis" /\ reply.password \in Passwords /\ reply.outcome \in Outcomes
  /\ reply.analysis = AnalyzePassword(reply.password, reply.outcome, TRUE)

LEMMA ReplySteps ==
  ASSUME [Next]_vars
  PROVE  reply' = reply \/ reply'.of \in {"none", "problem", "refusal"} \/ IsMatch' \/ IsAnalysis'
<1>1. CASE Read
  BY <1>1 DEF Read, Answer, NoReply
<1>2. CASE GenerateProblem
  BY <1>2 DEF GenerateProblem, Answer
<1>3. CASE Compare
  <2>1. PICK input \in Texts, answer \in Texts :
          reply' = [of |-> "match", input |-> input, answer |-> answer,
                    matches |-> KanaMatch(input, answer)]
    BY <1>3, Zenon DEF Compare, Answer
  <2>2. reply'.of = "match" /\ reply'.input = input /\ reply'.answer = answer
    BY <2>1
  <2>3. reply'.matches = KanaMatch(input, answer)
    BY <2>1, Zenon
  <2> QED BY <2>2, <2>3, Zenon DEF IsMatch
<1>4. CASE Refuse \/ Unavailable
  <2>1. PICK code : reply' = [of |-> "refusal", code |-> code]
    BY <1>4, Zenon DEF Refuse, Unavailable, Answer
  <2> QED BY <2>1
<1>5. CASE Analyze
  <2>1. PICK p \in Passwords, outcome \in Outcomes :
          reply' = [of |-> "analysis", password |-> p, outcome |-> outcome,
                    analysis |-> AnalyzePassword(p, outcome, TRUE)]
    BY <1>5, Zenon DEF Analyze, Answer
  <2>2. /\ reply'.of = "analysis" /\ reply'.password = p /\ reply'.outcome = outcome
        /\ reply'.analysis = AnalyzePassword(p, outcome, TRUE)
    BY <2>1, Zenon
  <2> QED BY <2>2, Zenon DEF IsAnalysis
<1> QED BY <1>1, <1>2, <1>3, <1>4, <1>5 DEF Next, vars

-----------------------------------------------------------------------------
(* The password analysis                                                   *)

LEMMA MessageKinds ==
  ASSUME NEW p PROVE Message(p).kind \in {"birthday", "name", "letters", "digits", "short", "taunt"}
BY DEF Message, SelectInSeq

(* Who may ask gets an analysis, whatever the password is and whatever     *)
(* Bedrock does; a blank one is the model's own.                           *)
THEOREM AnalysisIsGiven == Spec => []EveryPasswordAnswered
<1>1. Init => EveryPasswordAnswered
  BY DEF Init, NoReply, EveryPasswordAnswered
<1>2. ASSUME NEW p, NEW outcome \in Outcomes
      PROVE  /\ AnalyzePassword(p, outcome, TRUE).kind # "error"
             /\ AnalyzePassword(p, outcome, TRUE).kind = "blank" => outcome = "blank"
  <2>1. CASE outcome \in {"blank", "text"}
    BY <2>1 DEF AnalyzePassword, ParseResponse, Failed
  <2>2. CASE outcome \notin {"blank", "text"}
    <3>1. AnalyzePassword(p, outcome, TRUE) = Message(p)
      BY <2>2 DEF AnalyzePassword, ParseResponse
    <3> QED BY <3>1, MessageKinds
  <2> QED BY <2>1, <2>2
<1>3. EveryPasswordAnswered /\ [Next]_vars => EveryPasswordAnswered'
  <2> SUFFICES ASSUME EveryPasswordAnswered, [Next]_vars PROVE EveryPasswordAnswered'
    OBVIOUS
  <2>1. CASE reply' = reply
    BY <2>1 DEF EveryPasswordAnswered
  <2>2. CASE reply'.of # "analysis"
    BY <2>2 DEF EveryPasswordAnswered
  <2>3. CASE IsAnalysis'
    BY <1>2, <2>3 DEF EveryPasswordAnswered, IsAnalysis
  <2> QED BY <2>1, <2>2, <2>3, ReplySteps DEF IsMatch
<1> QED BY <1>1, <1>3, PTL DEF Spec

(* The date that the last four characters make.                            *)
EndDate(p) == [month |-> TwoDigits(p, Len(p) - 3), day |-> TwoDigits(p, Len(p) - 1)]

LEMMA StartsMin ==
  ASSUME NEW p \in Seq(Nat), NEW n \in 1..3, Starts(p, n) # {}
  PROVE  Min(Starts(p, n)) \in Starts(p, n)
<1>1. Starts(p, n) \subseteq Nat
  BY DEF Starts
<1> QED BY <1>1, MinOfPositions

(* A date at the end is found by the last pattern.                         *)
LEMMA EndIsDated ==
  ASSUME NEW p \in Seq(Nat), EndsInDate(p)
  PROVE  3 \in DatedPatterns(p) /\ DateOf(p, 3) = EndDate(p)
<1>1. Len(p) \in Nat /\ Len(p) >= 4 /\ DigitsAt(p, Len(p) - 3, 4)
  BY LenProperties DEF EndsInDate
<1>2. PatternLength[3] = 4
  BY DEF PatternLength
<1>3. Len(p) - 3 \in Starts(p, 3) /\ \A i \in Starts(p, 3) : i = Len(p) - 3
  BY <1>1, <1>2 DEF Starts
<1>4. Min(Starts(p, 3)) = Len(p) - 3
  BY <1>3, StartsMin
<1>5. DateOf(p, 3) = EndDate(p)
  <2>1. Len(p) - 3 + 4 - 4 = Len(p) - 3 /\ Len(p) - 3 + 4 - 2 = Len(p) - 1
    BY <1>1
  <2> QED BY <1>2, <1>4, <2>1 DEF DateOf, EndDate
<1> QED BY <1>3, <1>5 DEF DatedPatterns, EndsInDate, IsDate, EndDate

(* A pattern that fits the whole password finds its end.                   *)
LEMMA WholeIsEnd ==
  ASSUME NEW p \in Seq(Nat), NEW n \in 1..3, PatternLength[n] = Len(p), Starts(p, n) # {}
  PROVE  DateOf(p, n) = EndDate(p)
<1>1. Len(p) \in Nat
  BY LenProperties
<1>2. Starts(p, n) \subseteq {1}
  BY <1>1 DEF Starts
<1>3. Min(Starts(p, n)) = 1
  BY <1>2, StartsMin
<1>4. 1 + Len(p) - 4 = Len(p) - 3 /\ 1 + Len(p) - 2 = Len(p) - 1
  BY <1>1
<1> QED BY <1>3, <1>4 DEF DateOf, EndDate

(* When the password is a birthday, the first pattern that finds a date    *)
(* finds that one: a longer pattern comes first, and fits it whole.        *)
LEMMA BirthdayIsFound ==
  ASSUME NEW p \in Seq(Nat), EndsInDate(p), IsBirthday(p)
  PROVE  DateOf(p, Min(DatedPatterns(p))) = EndDate(p)
<1> DEFINE n == Min(DatedPatterns(p))
<1>0. DigitsAt(p, 1, Len(p)) /\ (Len(p) = 4 \/ Len(p) = 6 \/ (Len(p) = 8 /\ Century(p, 1)))
  BY Zenon DEF IsBirthday
<1>1. Len(p) \in {4, 6, 8}
  BY <1>0
<1>2. /\ PatternLength[1] = 8 /\ PatternLength[2] = 6 /\ PatternLength[3] = 4
  BY DEF PatternLength
<1>3. DatedPatterns(p) \subseteq 1..3 /\ DatedPatterns(p) # {}
  BY EndIsDated DEF DatedPatterns
<1>4. n \in DatedPatterns(p) /\ \A m \in DatedPatterns(p) : n <= m
  <2>1. DatedPatterns(p) \in SUBSET Nat
    BY <1>3
  <2> QED BY <1>3, <2>1, MinOfPositions
<1>5. n \in 1..3 /\ Starts(p, n) # {}
  BY <1>4 DEF DatedPatterns
<1> HIDE DEF n
<1>6. PatternLength[n] <= Len(p)
  <2>1. PICK i \in 1..Len(p) - PatternLength[n] + 1 : TRUE
    BY <1>5 DEF Starts
  <2>2. PatternLength[n] \in {8, 6, 4}
    BY <1>2, <1>5
  <2> QED BY <1>1, <2>1, <2>2
<1>7. n = 3 => DateOf(p, n) = EndDate(p)
  BY EndIsDated
<1>8. n = 1 => DateOf(p, n) = EndDate(p)
  <2> SUFFICES ASSUME n = 1 PROVE DateOf(p, 1) = EndDate(p)
    OBVIOUS
  <2>1. PatternLength[1] = Len(p)
    <3>1. 8 <= Len(p)
      BY <1>2, <1>6
    <3>2. ~(8 <= 4) /\ ~(8 <= 6)
      OBVIOUS
    <3> QED BY <1>1, <1>2, <3>1, <3>2, Zenon
  <2>2. Starts(p, 1) # {} /\ 1 \in 1..3
    BY <1>5
  <2> QED BY <2>1, <2>2, WholeIsEnd
<1>9. n = 2 /\ Len(p) = 6 => DateOf(p, n) = EndDate(p)
  BY <1>2, <1>5, WholeIsEnd
<1>10. ASSUME n = 2, Len(p) = 8 PROVE FALSE
  <2>1. 1 \in Starts(p, 1)
    <3>1. Century(p, 1) /\ DigitsAt(p, 1, 8)
      <4>1. Len(p) # 4 /\ Len(p) # 6 /\ Len(p) = 8
        BY <1>10
      <4> QED BY <1>0, <4>1
    <3> QED BY <1>2, <1>10, <3>1 DEF Starts
  <2>2. DateOf(p, 1) = EndDate(p)
    <3>1. Starts(p, 1) # {} /\ PatternLength[1] = Len(p) /\ 1 \in 1..3
      BY <1>2, <1>10, <2>1
    <3> QED BY <3>1, WholeIsEnd
  <2>3. 1 \in DatedPatterns(p)
    BY <2>1, <2>2 DEF DatedPatterns, IsDate, EndDate, EndsInDate
  <2> QED BY <1>4, <1>10, <2>3
<1>11. DateOf(p, n) = EndDate(p)
  <2>1. n = 1 \/ n = 2 \/ n = 3
    BY <1>5
  <2>2. n = 2 => Len(p) = 6
    <3>1. n = 2 => 6 <= Len(p)
      BY <1>2, <1>6
    <3>2. Len(p) = 4 => ~(6 <= Len(p))
      OBVIOUS
    <3> QED BY <1>1, <1>10, <3>1, <3>2
  <2> QED BY <1>7, <1>8, <1>9, <2>1, <2>2
<1> QED BY <1>11 DEF n

(* For every password: a birthday at its end is called one, and when it is *)
(* nothing but a birthday it is that one.                                  *)
THEOREM BirthdaysAreCalled == Spec => []BirthdayIsCalled
<1>1. Init => BirthdayIsCalled
  BY DEF Init, NoReply, BirthdayIsCalled
<1>2. ASSUME NEW p \in Passwords, EndsInDate(p)
      PROVE  /\ AnalyzePassword(p, "fails", TRUE).kind = "birthday"
             /\ IsBirthday(p) => AnalyzePassword(p, "fails", TRUE).says = EndDate(p)
  <2>1. p \in Seq(Nat)
    BY PasswordsAreCharacters
  <2>2. AnalyzePassword(p, "fails", TRUE) = Message(p)
    BY DEF AnalyzePassword, ParseResponse
  <2>3. Message(p) = [kind |-> "birthday", says |-> DateOf(p, Min(DatedPatterns(p)))]
    BY <1>2, <2>1, EndIsDated DEF Message, SelectInSeq
  <2>4. Message(p).kind = "birthday" /\ Message(p).says = DateOf(p, Min(DatedPatterns(p)))
    BY <2>3
  <2>5. IsBirthday(p) => Message(p).says = EndDate(p)
    BY <1>2, <2>1, <2>4, BirthdayIsFound
  <2> QED BY <2>2, <2>4, <2>5, Zenon
<1>3. BirthdayIsCalled /\ [Next]_vars => BirthdayIsCalled'
  <2> SUFFICES ASSUME BirthdayIsCalled, [Next]_vars PROVE BirthdayIsCalled'
    OBVIOUS
  <2>1. CASE reply' = reply
    BY <2>1 DEF BirthdayIsCalled
  <2>2. CASE reply'.of # "analysis"
    BY <2>2 DEF BirthdayIsCalled
  <2>3. CASE IsAnalysis'
    BY <1>2, <2>3 DEF BirthdayIsCalled, IsAnalysis, EndDate
  <2> QED BY <2>1, <2>2, <2>3, ReplySteps DEF IsMatch
<1> QED BY <1>1, <1>3, PTL DEF Spec

-----------------------------------------------------------------------------
(* The names                                                               *)

(* A non-empty set of positions of a sequence has a largest element.       *)
LEMMA MaxOfPositions ==
  ASSUME NEW n \in Nat, NEW I \in SUBSET (1..n), I # {}
  PROVE  Max(I) \in I /\ \A j \in I : j <= Max(I)
<1> DEFINE D == {n - i : i \in I}
<1>1. D \in SUBSET Nat /\ D # {}
  <2>1. \A i \in I : i \in 1..n
    OBVIOUS
  <2>2. \A i \in I : n - i \in Nat
    BY <2>1
  <2> QED BY <2>2
<1>2. Min(D) \in D /\ \A d \in D : Min(D) <= d
  BY <1>1, MinOfPositions
<1>3. PICK i \in I : Min(D) = n - i
  BY <1>2
<1>4. \A j \in I : n - i <= n - j
  BY <1>2, <1>3
<1>5. \A j \in I : i >= j
  BY <1>4
<1>6. \E x \in I : \A y \in I : x >= y
  BY <1>5
<1>7. Max(I) \in I /\ \A y \in I : Max(I) >= y
  BY <1>6 DEF Max
<1> QED BY <1>7

(* What is left after trimming neither begins nor ends with a space.       *)
LEMMA TrimProperties ==
  ASSUME NEW s \in Seq(Nat)
  PROVE  /\ TrimOf(s, Spaces) \in Seq(Nat)
         /\ TrimOf(s, Spaces) # <<>> =>
              /\ TrimOf(s, Spaces)[1] \notin Spaces
              /\ TrimOf(s, Spaces)[Len(TrimOf(s, Spaces))] \notin Spaces
<1> DEFINE kept == {i \in DOMAIN s : s[i] \notin Spaces}
           t == TrimOf(s, Spaces)
<1>1. DOMAIN s = 1..Len(s) /\ Len(s) \in Nat /\ \A i \in 1..Len(s) : s[i] \in Nat
  BY LenProperties, ElementOfSeq
<1>2. CASE kept = {}
  <2>1. t = <<>>
    BY <1>2 DEF TrimOf
  <2> QED BY <2>1, EmptySeq
<1>3. CASE kept # {}
  <2>1. t = SubSeq(s, Min(kept), Max(kept))
    BY <1>3 DEF TrimOf
  <2>2. Min(kept) \in kept /\ \A j \in kept : Min(kept) <= j
    <3>1. kept \in SUBSET Nat
      BY <1>1
    <3> QED BY <1>3, <3>1, MinOfPositions
  <2>3. Max(kept) \in kept
    <3>1. kept \in SUBSET (1..Len(s))
      BY <1>1
    <3> QED BY <1>1, <1>3, <3>1, MaxOfPositions
  <2> DEFINE m == Min(kept)
             n == Max(kept)
  <2>4. /\ m \in 1..Len(s) /\ n \in 1..Len(s) /\ m <= n
        /\ s[m] \notin Spaces /\ s[n] \notin Spaces
    BY <1>1, <2>2, <2>3
  <2> HIDE DEF m, n
  <2>5. \A i \in m..n : s[i] \in Nat
    BY <1>1, <2>4
  <2>6. m \in Int /\ n \in Int
    BY <2>4
  <2>7. /\ SubSeq(s, m, n) \in Seq(Nat)
        /\ Len(SubSeq(s, m, n)) = n - m + 1
        /\ \A i \in 1..n - m + 1 : SubSeq(s, m, n)[i] = s[m + i - 1]
    BY <2>4, <2>5, <2>6, SubSeqProperties
  <2>8. /\ SubSeq(s, m, n)[1] = s[m] /\ SubSeq(s, m, n)[n - m + 1] = s[n]
    <3>1. 1 \in 1..n - m + 1 /\ n - m + 1 \in 1..n - m + 1 /\ m + 1 - 1 = m /\ m + (n - m + 1) - 1 = n
      BY <2>4, <2>6
    <3> QED BY <2>7, <3>1
  <2>9. t = SubSeq(s, m, n)
    BY <2>1 DEF m, n
  <2> HIDE DEF t
  <2>10. t \in Seq(Nat) /\ t[1] \notin Spaces /\ t[Len(t)] \notin Spaces
    BY <2>4, <2>7, <2>8, <2>9
  <2> QED BY <2>10 DEF t
<1> QED BY <1>2, <1>3

(* The second trim has nothing left to cut.                                *)
LEMMA TrimmedOnce ==
  ASSUME NEW s \in Seq(Nat)
  PROVE  NormalizeForComparison(s) = HiraganaToKatakana(TrimOf(s, Spaces))
<1> DEFINE t == TrimOf(s, Spaces)
           kept == {i \in DOMAIN t : t[i] \notin {FullWidthSpace}}
<1>1. t \in Seq(Nat) /\ (t # <<>> => t[1] \notin Spaces /\ t[Len(t)] \notin Spaces)
  BY TrimProperties
<1> HIDE DEF t
<1>2. DOMAIN t = 1..Len(t) /\ Len(t) \in Nat
  BY <1>1, LenProperties
<1>3. FullWidthSpace \in Spaces
  BY DEF Spaces
<1>4. TrimOf(t, {FullWidthSpace}) = t
  <2>1. CASE t = <<>>
    <3>1. kept = {}
      BY <2>1
    <3> QED BY <2>1, <3>1 DEF TrimOf
  <2>2. CASE t # <<>>
    <3>1. Len(t) >= 1
      BY <1>1, <1>2, <2>2, EmptySeq
    <3>2. 1 \in kept /\ Len(t) \in kept
      BY <1>1, <1>2, <1>3, <2>2, <3>1
    <3>3. Min(kept) = 1
      <4>1. kept \in SUBSET Nat /\ kept # {} /\ \A i \in kept : 1 <= i
        BY <1>2, <3>2
      <4>2. Min(kept) \in kept /\ Min(kept) <= 1
        BY <3>2, <4>1, MinOfPositions
      <4> QED BY <4>1, <4>2
    <3>4. Max(kept) = Len(t)
      <4>1. kept \in SUBSET (1..Len(t)) /\ kept # {}
        BY <1>2, <3>2
      <4>2. Max(kept) \in kept /\ Len(t) <= Max(kept)
        BY <1>2, <3>2, <4>1, MaxOfPositions
      <4> QED BY <1>2, <4>1, <4>2
    <3>5. TrimOf(t, {FullWidthSpace}) = SubSeq(t, 1, Len(t))
      <4>1. kept # {}
        BY <3>2
      <4> QED BY <3>3, <3>4, <4>1 DEF TrimOf
    <3>6. \A i \in 1..Len(t) : t[i] \in Nat
      BY <1>1, ElementOfSeq
    <3>7. /\ SubSeq(t, 1, Len(t)) \in Seq(Nat) /\ Len(SubSeq(t, 1, Len(t))) = Len(t)
          /\ \A i \in 1..Len(t) : SubSeq(t, 1, Len(t))[i] = t[i]
      <4>1. /\ SubSeq(t, 1, Len(t)) \in Seq(Nat)
            /\ Len(SubSeq(t, 1, Len(t))) = IF 1 <= Len(t) THEN Len(t) - 1 + 1 ELSE 0
            /\ \A i \in 1..Len(t) - 1 + 1 : SubSeq(t, 1, Len(t))[i] = t[1 + i - 1]
        BY <1>2, <3>6, SubSeqProperties
      <4> QED BY <1>2, <3>1, <4>1
    <3>8. SubSeq(t, 1, Len(t)) = t
      BY <1>1, <3>7, SeqEqual
    <3> QED BY <3>5, <3>8
  <2> QED BY <2>1, <2>2
<1> QED BY <1>4 DEF NormalizeForComparison, t

(* One rune at a time: the two conversions tell the same runes apart, and  *)
(* those they do not tell apart are one reading.                           *)
LEMMA RuneReading ==
  ASSUME NEW r \in Nat, NEW q \in Nat
  PROVE  /\ SameRune(r, q) <=>
              (IF IsHiragana(r) THEN r + kanaOffset ELSE r) = (IF IsHiragana(q) THEN q + kanaOffset ELSE q)
         /\ SameRune(r, q) <=>
              (IF IsKatakana(r) THEN r - kanaOffset ELSE r) = (IF IsKatakana(q) THEN q - kanaOffset ELSE q)
         /\ SameRune(r, q) => (IsKana(r) \/ IsSpace(r) <=> IsKana(q) \/ IsSpace(q))
<1>1. kanaOffset = 96
  BY DEF kanaOffset, katakanaStart, hiraganaStart
<1>2. SameRune(r, q) <=>
        \/ r = q
        \/ r \in 12352..12447 /\ q = r + 96
        \/ q \in 12352..12447 /\ r = q + 96
  <2>1. ASSUME NEW h, NEW g
        PROVE  {r, q} = {h, g} <=> (r = h /\ q = g) \/ (r = g /\ q = h)
    BY Zenon
  <2>2. SameRune(r, q) <=>
          r = q \/ \E h \in hiraganaStart..hiraganaEnd : {r, q} = {h, h + kanaOffset}
    BY Zenon DEF SameRune
  <2>3. SameRune(r, q) <=>
          r = q \/ \E h \in 12352..12447 : (r = h /\ q = h + 96) \/ (r = h + 96 /\ q = h)
    <3>1. \A h : {r, q} = {h, h + kanaOffset} <=>
                    (r = h /\ q = h + kanaOffset) \/ (r = h + kanaOffset /\ q = h)
      BY <2>1, Zenon
    <3>2. SameRune(r, q) <=>
            \/ r = q
            \/ \E h \in hiraganaStart..hiraganaEnd :
                 (r = h /\ q = h + kanaOffset) \/ (r = h + kanaOffset /\ q = h)
      BY <2>2, <3>1, Zenon
    <3> QED BY <1>1, <3>2 DEF hiraganaStart, hiraganaEnd
  <2> QED BY <2>3
<1>3. /\ IsHiragana(r) <=> r \in 12352..12447
      /\ IsHiragana(q) <=> q \in 12352..12447
      /\ IsKatakana(r) <=> r \in 12448..12543
      /\ IsKatakana(q) <=> q \in 12448..12543
  BY DEF IsHiragana, IsKatakana, hiraganaStart, hiraganaEnd, katakanaStart, katakanaEnd
<1>4. SameRune(r, q) <=>
        (IF IsHiragana(r) THEN r + kanaOffset ELSE r) = (IF IsHiragana(q) THEN q + kanaOffset ELSE q)
  BY <1>1, <1>2, <1>3
<1>5. SameRune(r, q) <=>
        (IF IsKatakana(r) THEN r - kanaOffset ELSE r) = (IF IsKatakana(q) THEN q - kanaOffset ELSE q)
  BY <1>1, <1>2, <1>3
<1>6. SameRune(r, q) => r = q \/ (IsKana(r) /\ IsKana(q))
  BY <1>2, <1>3 DEF IsKana
<1> QED BY <1>4, <1>5, <1>6

(* ... and so for texts of them.                                           *)
LEMMA TextReading ==
  ASSUME NEW s \in Seq(Nat), NEW t \in Seq(Nat)
  PROVE  LET same == Len(s) = Len(t) /\ \A i \in DOMAIN s : SameRune(s[i], t[i])
         IN  /\ same <=> HiraganaToKatakana(s) = HiraganaToKatakana(t)
             /\ same <=> KatakanaToHiragana(s) = KatakanaToHiragana(t)
             /\ same => (ContainsOnlyKana(s) <=> ContainsOnlyKana(t))
<1> DEFINE same == Len(s) = Len(t) /\ \A i \in DOMAIN s : SameRune(s[i], t[i])
           up(r) == IF IsHiragana(r) THEN r + kanaOffset ELSE r
           down(r) == IF IsKatakana(r) THEN r - kanaOffset ELSE r
<1>1. /\ DOMAIN s = 1..Len(s) /\ Len(s) \in Nat /\ \A i \in 1..Len(s) : s[i] \in Nat
      /\ DOMAIN t = 1..Len(t) /\ Len(t) \in Nat /\ \A i \in 1..Len(t) : t[i] \in Nat
  BY LenProperties, ElementOfSeq
<1>2. Len(s) = Len(t) <=> DOMAIN s = DOMAIN t
  <2>1. ASSUME NEW m \in Nat, NEW n \in Nat, 1..m = 1..n PROVE m = n
    <3>1. m \in 1..n \/ m = 0
      BY <2>1
    <3>2. n \in 1..m \/ n = 0
      BY <2>1
    <3> QED BY <3>1, <3>2
  <2> QED BY <1>1, <2>1
<1>3. ASSUME NEW i \in DOMAIN s, Len(s) = Len(t)
      PROVE  /\ SameRune(s[i], t[i]) <=> up(s[i]) = up(t[i])
             /\ SameRune(s[i], t[i]) <=> down(s[i]) = down(t[i])
             /\ SameRune(s[i], t[i]) => (IsKana(s[i]) \/ IsSpace(s[i]) <=> IsKana(t[i]) \/ IsSpace(t[i]))
  BY <1>1, <1>3, RuneReading
<1>4. /\ HiraganaToKatakana(s) = [i \in DOMAIN s |-> up(s[i])]
      /\ HiraganaToKatakana(t) = [i \in DOMAIN t |-> up(t[i])]
      /\ KatakanaToHiragana(s) = [i \in DOMAIN s |-> down(s[i])]
      /\ KatakanaToHiragana(t) = [i \in DOMAIN t |-> down(t[i])]
  BY DEF HiraganaToKatakana, KatakanaToHiragana
<1> HIDE DEF up, down
<1>5. same <=> HiraganaToKatakana(s) = HiraganaToKatakana(t)
  <2>1. HiraganaToKatakana(s) = HiraganaToKatakana(t) <=>
          DOMAIN s = DOMAIN t /\ \A i \in DOMAIN s : up(s[i]) = up(t[i])
    BY <1>4
  <2> QED BY <1>2, <1>3, <2>1
<1>6. same <=> KatakanaToHiragana(s) = KatakanaToHiragana(t)
  <2>1. KatakanaToHiragana(s) = KatakanaToHiragana(t) <=>
          DOMAIN s = DOMAIN t /\ \A i \in DOMAIN s : down(s[i]) = down(t[i])
    BY <1>4
  <2> QED BY <1>2, <1>3, <2>1
<1>7. same => (ContainsOnlyKana(s) <=> ContainsOnlyKana(t))
  BY <1>2, <1>3 DEF ContainsOnlyKana
<1> QED BY <1>5, <1>6, <1>7

(* For all names: the comparison is rune by rune, up to the offset of      *)
(* kana.go between hiragana and katakana, whichever of them both become.   *)
THEOREM MatchesAreReadings == Spec => []MatchIsSameReading
<1>1. Init => MatchIsSameReading
  BY DEF Init, NoReply, MatchIsSameReading
<1>2. ASSUME NEW input \in Texts, NEW answer \in Texts
      PROVE  LET s == TrimOf(input, Spaces)
                 t == TrimOf(answer, Spaces)
             IN  /\ KanaMatch(input, answer) <=>
                      Len(s) = Len(t) /\ \A i \in DOMAIN s : SameRune(s[i], t[i])
                 /\ KanaMatch(input, answer) <=> KatakanaToHiragana(s) = KatakanaToHiragana(t)
                 /\ KanaMatch(input, answer) => (ContainsOnlyKana(s) <=> ContainsOnlyKana(t))
  <2> DEFINE s == TrimOf(input, Spaces)
             t == TrimOf(answer, Spaces)
  <2>1. input \in Seq(Nat) /\ answer \in Seq(Nat)
    BY TextsAreRunes
  <2>2. KanaMatch(input, answer) <=> HiraganaToKatakana(s) = HiraganaToKatakana(t)
    BY <2>1, TrimmedOnce DEF KanaMatch
  <2>3. s \in Seq(Nat) /\ t \in Seq(Nat)
    BY <2>1, TrimProperties
  <2> HIDE DEF s, t
  <2>4. /\ Len(s) = Len(t) /\ (\A i \in DOMAIN s : SameRune(s[i], t[i])) <=>
             HiraganaToKatakana(s) = HiraganaToKatakana(t)
        /\ Len(s) = Len(t) /\ (\A i \in DOMAIN s : SameRune(s[i], t[i])) <=>
             KatakanaToHiragana(s) = KatakanaToHiragana(t)
        /\ HiraganaToKatakana(s) = HiraganaToKatakana(t) =>
             (ContainsOnlyKana(s) <=> ContainsOnlyKana(t))
    BY <2>3, TextReading
  <2> QED BY <2>2, <2>4 DEF s, t
<1>3. MatchIsSameReading /\ [Next]_vars => MatchIsSameReading'
  <2> SUFFICES ASSUME MatchIsSameReading, [Next]_vars PROVE MatchIsSameReading'
    OBVIOUS
  <2>1. CASE reply' = reply
    BY <2>1 DEF MatchIsSameReading
  <2>2. CASE reply'.of # "match"
    BY <2>2 DEF MatchIsSameReading
  <2>3. CASE IsMatch'
    BY <1>2, <2>3 DEF MatchIsSameReading, IsMatch
  <2> QED BY <2>1, <2>2, <2>3, ReplySteps DEF IsAnalysis
<1> QED BY <1>1, <1>3, PTL DEF Spec
=============================================================================

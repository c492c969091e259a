--------------------------- MODULE PasswordAnalysis ---------------------------
(***************************************************************************)
(* internal/ai/bedrock.go: the answer of the model about a password, or,   *)
(* when it gives none, the message that patterns in the password choose.   *)
(* A character is a number: the digits are 0 to 9, a letter is between     *)
(* LowerA and UpperZ, anything else is above.  All are one byte long.      *)
(***************************************************************************)
EXTENDS Integers, SequencesExt

CONSTANT commonNames   \* the names looked for, in lower case, in their order

LowerA == 10   UpperA == 36   UpperZ == 61
IsDigit(ch) == ch \in 0..9
IsLetter(ch) == ch \in LowerA..UpperZ
ToLower(p) == [i \in DOMAIN p |-> IF p[i] \in UpperA..UpperZ THEN p[i] - 26 ELSE p[i]]

DigitsAt(p, i, n) == \A j \in i..i + n - 1 : IsDigit(p[j])
TwoDigits(p, i) == 10 * p[i] + p[i + 1]
Century(p, i) == TwoDigits(p, i) \in {19, 20}

(* The three birthday patterns, by where they match and how long they are: *)
(* year, month and day; the same without the century; month and day at the *)
(* end.                                                                    *)
PatternLength == <<8, 6, 4>>
Starts(p, n) ==
  {i \in 1..Len(p) - PatternLength[n] + 1 :
     /\ DigitsAt(p, i, PatternLength[n])
     /\ n = 1 => Century(p, i)
     /\ n = 3 => i + 3 = Len(p)}

(* FindStringSubmatch takes the leftmost match; month and day are its last *)
(* two groups.                                                             *)
DateOf(p, n) ==
  LET end == Min(Starts(p, n)) + PatternLength[n]
  IN  [month |-> TwoDigits(p, end - 4), day |-> TwoDigits(p, end - 2)]
IsDate(d) == d.month \in 1..12 /\ d.day \in 1..31

(* Wrong on purpose: a pattern that matches no date ends the search.       *)
OnlyFirstPattern(p) ==
  LET matching == {n \in 1..3 : Starts(p, n) # {}}
  IN  {n \in matching : n = Min(matching) /\ IsDate(DateOf(p, n))}

(* A pattern that matches no date is passed over for the next one.         *)
DatedPatterns(p) == {n \in 1..3 : Starts(p, n) # {} /\ IsDate(DateOf(p, n))}

HasName(p, name) == \E i \in 1..Len(p) : IsPrefix(name, SubSeq(ToLower(p), i, Len(p)))

(* The first run of at least three letters, as long as it goes.            *)
LetterStarts(p) == {i \in 1..Len(p) - 2 : \A j \in i..i + 2 : IsLetter(p[j])}
LetterRun(p) ==
  LET from == Min(LetterStarts(p))
      ends == {j \in from..Len(p) : \A k \in from..j : IsLetter(p[k])}
  IN  SubSeq(p, from, Max(ends))

(* getFallbackMessage: which message, and what it quotes of the password.  *)
Message(p) ==
  LET named == SelectInSeq(commonNames, LAMBDA name : HasName(p, name))
  IN  IF DatedPatterns(p) # {}
      THEN [kind |-> "birthday", says |-> DateOf(p, Min(DatedPatterns(p)))]
      ELSE IF named # 0 THEN [kind |-> "name", says |-> commonNames[named]]
      ELSE IF LetterStarts(p) # {} THEN [kind |-> "letters", says |-> LetterRun(p)]
      ELSE IF DigitsAt(p, 1, Len(p)) THEN [kind |-> "digits", says |-> 0]
      ELSE IF Len(p) < 8 THEN [kind |-> "short", says |-> Len(p)]
      ELSE [kind |-> "taunt", says |-> Len(p) % 3]

-----------------------------------------------------------------------------
(* What Bedrock does with the prompt.                                      *)
Outcomes == {"fails", "unparsable", "no_content", "blank", "text"}

Failed == [kind |-> "error", says |-> 0]

(* Wrong on purpose: an answer without content counts as an empty one.     *)
ParseLeniently(outcome) ==
  IF outcome \in {"fails", "unparsable"}
  THEN Failed
  ELSE [kind |-> IF outcome = "text" THEN "text" ELSE "blank", says |-> 0]

(* InvokeModel and parseResponse: the first content block is the answer,   *)
(* blank or not.                                                           *)
ParseResponse(outcome) ==
  IF outcome \in {"blank", "text"} THEN [kind |-> outcome, says |-> 0] ELSE Failed

(* BedrockClient.AnalyzePassword                                           *)
AnalyzePassword(p, outcome, fallbackEnabled) ==
  IF ParseResponse(outcome) = Failed /\ fallbackEnabled
  THEN Message(p)
  ELSE ParseResponse(outcome)
=============================================================================

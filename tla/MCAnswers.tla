------------------------------ MODULE MCAnswers -------------------------------
(***************************************************************************)
(* Answers for TLC.  Codes: the ends of their range and two between.       *)
(* Texts: up to three of the runes at the edges of the two blocks, spaces  *)
(* of either width and a Latin letter.  Passwords: everything up to four   *)
(* characters, birthdays of four, six and eight digits alone or with a     *)
(* character before or after them, and nine or ten characters that are no  *)
(* digits.                                                                 *)
(***************************************************************************)
EXTENDS Answers

MCNames == << <<34, 30>>, <<10, 18>> >>   \* "yu", which no password has, and "ai"
MCCodes == {100000, 100001, 250000, 999999}
MCConstants == {1, 100}

Edges == {32, FullWidthSpace, 97, hiraganaStart, hiraganaEnd, katakanaStart, katakanaEnd,
          hiraganaStart + 1, katakanaStart + 1}
MCTexts == {<<>>} \cup [1..1 -> Edges] \cup [1..2 -> Edges]
           \cup [1..3 -> {32, FullWidthSpace, hiraganaStart + 1, katakanaStart + 1}]

Chars == {0, 1, 2, 9, 10, 18, 36, 99}
Years == {<<>>, <<9, 9>>, <<1, 9, 9, 9>>, <<2, 0, 0, 1>>}
Days == [1..4 -> {0, 1, 2, 9}]
Dates == {y \o d : y \in Years, d \in Days}
MCPasswords ==
  UNION {[1..n -> Chars] : n \in 1..4}
    \cup Dates
    \cup {<<ch>> \o d : ch \in {1, 10}, d \in Dates}
    \cup {d \o <<ch>> : ch \in {1, 10}, d \in Dates}
    \cup [1..9 -> {99, 18}] \cup [1..10 -> {99}]
=============================================================================

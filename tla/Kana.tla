--------------------------------- MODULE Kana ---------------------------------
(***************************************************************************)
(* internal/util/kana.go: names are compared whether they are written in   *)
(* hiragana or katakana.  A rune is its code point; a text is a sequence   *)
(* of them.                                                                *)
(***************************************************************************)
EXTENDS SequencesExt

hiraganaStart == 12352   \* U+3040
hiraganaEnd   == 12447   \* U+309F
katakanaStart == 12448   \* U+30A0
katakanaEnd   == 12543   \* U+30FF
kanaOffset    == katakanaStart - hiraganaStart

IsHiragana(r) == r \in hiraganaStart..hiraganaEnd
IsKatakana(r) == r \in katakanaStart..katakanaEnd
IsKana(r) == IsHiragana(r) \/ IsKatakana(r)

(* unicode.IsSpace: the full-width space is one too.                       *)
FullWidthSpace == 12288
Spaces == (9..13) \cup {32, 133, 160, FullWidthSpace, 5760, 8232, 8233, 8239, 8287} \cup (8192..8202)
IsSpace(r) == r \in Spaces

HiraganaToKatakana(s) ==
  [i \in DOMAIN s |-> IF IsHiragana(s[i]) THEN s[i] + kanaOffset ELSE s[i]]

KatakanaToHiragana(s) ==
  [i \in DOMAIN s |-> IF IsKatakana(s[i]) THEN s[i] - kanaOffset ELSE s[i]]

ContainsOnlyKana(s) == \A i \in DOMAIN s : IsKana(s[i]) \/ IsSpace(s[i])

(* strings.TrimSpace and strings.Trim                                      *)
TrimOf(s, cut) ==
  LET kept == {i \in DOMAIN s : s[i] \notin cut}
  IN  IF kept = {} THEN <<>> ELSE SubSeq(s, Min(kept), Max(kept))

(* Wrong on purpose: only what the second Trim knows is cut.               *)
NormalizeUntrimmed(s) == HiraganaToKatakana(TrimOf(s, {FullWidthSpace}))

NormalizeForComparison(s) ==
  HiraganaToKatakana(TrimOf(TrimOf(s, Spaces), {FullWidthSpace}))

KanaMatch(input, answer) ==
  \/ input = <<>> /\ answer = <<>>
  \/ NormalizeForComparison(input) = NormalizeForComparison(answer)
=============================================================================

------------------------------- MODULE Calculus -------------------------------
(***************************************************************************)
(* internal/calculus/generator.go: a code and a polynomial whose           *)
(* derivative at some point is that code, and the problem text made of it. *)
(***************************************************************************)
EXTENDS Integers

HasSixDigits(otp) == otp \in Nat /\ 100000 <= otp /\ otp <= 999999
kOptions == {10, 20, 50, 100, 200}
aOptions == 1..5

(* ProblemResult: f(x) = a x^2 + b x + c, to be differentiated at k.       *)
Problem(otp, a, b, c, k) == [otp |-> otp, a |-> a, b |-> b, c |-> c, k |-> k]

Derivative(a, b, k) == 2 * a * k + b

(* The options are shuffled and the first that leaves b > 0 is taken: any  *)
(* of them may be.                                                         *)
Candidates(otp, k) == {a \in aOptions : otp - 2 * a * k > 0}

(* No option fits: k becomes 10, and if that does not help the code is     *)
(* changed to fit the polynomial.                                          *)
FallbackProblem(otp, c) ==
  IF otp - 2 * 10 > 0
  THEN Problem(otp, 1, otp - 2 * 10, c, 10)
  ELSE Problem(2 * 10 + 1, 1, 1, c, 10)

(* Wrong on purpose: b is left from the first option that was tried.       *)
GenerateMixed(otp, k, c) ==
  {Problem(otp, a, otp - 2 * first * k, c, k) : a \in Candidates(otp, k), first \in aOptions}

Generate(otp, k, c) ==
  IF Candidates(otp, k) # {}
  THEN {Problem(otp, a, otp - 2 * a * k, c, k) : a \in Candidates(otp, k)}
  ELSE {FallbackProblem(otp, c)}

(* The number in front of a power of x: none is printed for 1.             *)
Coefficient(n) == IF n = 1 THEN <<>> ELSE <<n>>

(* generateLatex: what the text says of the problem.                       *)
generateLatex(p) ==
  [square |-> Coefficient(p.a), linear |-> Coefficient(p.b), constant |-> p.c, at |-> p.k]

(* What the reader of the text takes the coefficient for.                  *)
ReadCoefficient(digits) == IF digits = <<>> THEN 1 ELSE digits[1]
Solution(latex) ==
  Derivative(ReadCoefficient(latex.square), ReadCoefficient(latex.linear), latex.at)
=============================================================================

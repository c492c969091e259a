-------------------------------- MODULE Users --------------------------------
(***************************************************************************)
(* internal/model/user.go: the statuses of a user, the table of the        *)
(* transitions between them and the limits on wrong answers.               *)
(***************************************************************************)
EXTENDS Naturals

Waiting       == "waiting"
Stage1Dino    == "stage1_dino"
Stage2Captcha == "stage2_captcha"
Registering   == "registering"

MaxCaptchaAttempts == 3
MaxOTPAttempts == 3

validTransitions ==
  [waiting        |-> {Stage1Dino},
   stage1_dino    |-> {Registering, Waiting},
   stage2_captcha |-> {Registering, Waiting},   \* legacy, no handler enters it
   registering    |-> {Waiting}]

CanTransitionTo(from, to) == to \in validTransitions[from]

(* Wrong on purpose: one answer too many is allowed.                       *)
ExceededTooLate(attempts, max) == attempts > max

(* What IncrementCaptchaAttempts and IncrementOTPAttempts return, from the *)
(* incremented counter.                                                    *)
Exceeded(attempts, max) == attempts >= max
=============================================================================

---------------------------- MODULE MCCaptchaImage ----------------------------
(* CaptchaImage for TLC, to scale: characters of two pixels instead of 50. *)
EXTENDS CaptchaImage

SmallBackgrounds == {<<7, 5>>, <<2, 5>>}
=============================================================================

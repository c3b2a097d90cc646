--------------------------- MODULE MCDetectEngine ---------------------------
(* Three rules over three kinds of payload: an enabled one of two conditions, *)
(* a disabled one, and one with an operator the evaluator does not know.      *)
EXTENDS DetectEngine, TLC

CONSTANTS r1, r2, r3, plain, bad, junk, isBad, isAny, isMore

MCSelection == (r1 :> {isBad, isAny}) @@ (r2 :> {isAny}) @@ (r3 :> {isMore})
MCHolds == (isBad :> {bad}) @@ (isAny :> {plain, bad}) @@ (isMore :> {plain, bad})
=============================================================================

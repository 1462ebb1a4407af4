--------------------------- MODULE MCStageHandOff ---------------------------
(* StageHandOff with a different pair of bit vectors in every execution.   *)
EXTENDS StageHandOff

LocalBits(r)  == <<1, r % 2>>
RevealBits(r) == <<0, 1>>
=============================================================================

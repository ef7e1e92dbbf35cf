----------------------------- MODULE MCFraming -----------------------------
EXTENDS Framing, TLC

CONSTANTS a, b

(* A byte is a bit: a sends frames of 2 and 1, b one frame of 1.           *)
MCStream == (a :> <<0, 0, 1, 0, 1, 1, 0, 0, 0, 1, 1>>) @@ (b :> <<0, 0, 0, 1, 1>>)
MCStart == (a :> <<0, 6, 11>>) @@ (b :> <<0, 5>>)
=============================================================================

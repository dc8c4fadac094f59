------------------------------- MODULE MCBlink -------------------------------
(***************************************************************************)
(* Two callers and one output: the handlers of the two outputs are         *)
(* independent, and every race needs two callers or a caller and a poll.   *)
(***************************************************************************)
EXTENDS Blink

MCOutputs == <<"LED">>
=============================================================================

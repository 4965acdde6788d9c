---------------------------- MODULE MCIrReceiver ----------------------------
(* Two keys of an RC-5 remote control and one of an unknown kind. *)
EXTENDS IrReceiver
ThreeKeys == [k \in Keys |-> IF k = "other" THEN "universal" ELSE "rc5"]
=============================================================================

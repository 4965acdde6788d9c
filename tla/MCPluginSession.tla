-------------------------- MODULE MCPluginSession --------------------------
(* A small instance of PluginSession for TLC. *)
EXTENDS PluginSession

TwoFiles == {"one", "broken"}
Plugins == [f \in Files |-> IF f = "one" THEN <<1>> ELSE <<>>]
=============================================================================

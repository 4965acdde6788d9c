----------------------------- MODULE MCTreeUndo -----------------------------
(* Two macros, each with one jump to the other. *)
EXTENDS TreeUndo

TwoMacros == [n \in 0..MaxId |-> CASE n = 0 -> <<1, 2>>
                                   [] n = 1 -> <<3>>
                                   [] n = 2 -> <<4>>
                                   [] OTHER -> <<>>]
TwoJumps == {<<3, 2>>, <<4, 1>>}
=============================================================================

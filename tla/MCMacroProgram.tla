--------------------------- MODULE MCMacroProgram ---------------------------
(* Trees of three macros whose jumps lead to later macros. *)
EXTENDS MacroProgram

Leaving(m, ops) == {<<op, t>> : op \in ops, t \in {n \in Macros : n > m}}
Own(ops) == {<<op, 0>> : op \in ops}
Pairs(S, T) == {<<x, y>> : x \in S, y \in T}
Ones(S) == {<<x>> : x \in S}

Macro(on, items) == [on |-> on, items |-> items]
FirstItems == Pairs(Leaving(1, {"jump", "gosub", "inplace", "restored"}) \cup Own({"plain", "lost", "repeat"}),
                    Leaving(1, {"gosub"}) \cup Own({"plain", "repeat"}))
SecondItems == {<<>>} \cup Ones(Leaving(2, {"gosub", "jump"}) \cup Own({"stop", "skip"}))
               \cup Pairs(Leaving(2, {"gosub", "jump"}) \cup Own({"plain"}), Own({"plain", "stop"}))
ThirdItems == {<<>>} \cup Ones(Own({"plain", "stopall"}))
              \cup Pairs(Own({"plain"}), Own({"repeat", "skip"}))

SmallCodes ==
  {<<Macro(TRUE, a), Macro(TRUE, b), Macro(TRUE, c)>> :
     a \in FirstItems, b \in SecondItems, c \in ThirdItems}
  \cup {<<Macro(TRUE, a), Macro(FALSE, <<<<"plain", 0>>>>), Macro(TRUE, c)>> :
     a \in FirstItems, c \in ThirdItems}

SmallHandlers == {<<1>>, <<1, 2, 3>>}
ThreeMacros == 1..3
=============================================================================

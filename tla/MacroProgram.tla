---------------------------- MODULE MacroProgram ----------------------------
(***************************************************************************)
(* eg/Core.py RunProgram and what calls it: a program is what the macro of *)
(* an event handler does, item after item.  Its program counter and return *)
(* stack are global variables (eg.programCounter, eg.programReturnStack),  *)
(* which jumps change, and which a program started inside an action (an    *)
(* event executed in place) takes over.  All of it is on the action        *)
(* thread, one step per turn of RunProgram's loop.                         *)
(*                                                                         *)
(* A place <<m, i>> is item i of macro m, and <<m, 0>> the macro itself.   *)
(* Whether a condition holds is part of the code run: a jump that is not   *)
(* taken is a plain item, as is one that raises or has no plugin started.  *)
(***************************************************************************)
EXTENDS Naturals, Sequences, FiniteSets

CONSTANTS Macros,      (* the macros, numbers from 1                       *)
          MaxLen,      (* bound on the items of a macro                    *)
          MaxRepeats,  (* bound on the repetitions while a key is held     *)
          Codes,       (* the macro trees: [on: enabled, items] per macro  *)
          HandlerLists (* the macros an event is bound to, in tree order   *)

(***************************************************************************)
(* Items <<op, target>>: `jump` and `gosub` (NewJumpIf, JumpIfElse,        *)
(* JumpIfLongPress), `lost` (a gosub whose target was deleted: it raises   *)
(* after the push), `stop` (StopMacro, FindWindow), `stopall` (StopMacro   *)
(* with ignoreReturn), `skip` (StopProcessing), `repeat` (AutoRepeat),     *)
(* `inplace` (TriggerEvent without its queue; the target handles it) and   *)
(* `restored` (the same with restoreEvent).                                *)
(***************************************************************************)
Ops == {"plain", "jump", "gosub", "lost", "stop", "stopall", "skip", "repeat",
        "inplace", "restored"}
Places == Macros \X (0..MaxLen)
None == <<0, 0>>

Leaves == {"jump", "gosub", "inplace", "restored"}
Trees == [Macros -> [on : BOOLEAN, items : Seq(Ops \X Nat)]]

ASSUME MacroAssumption ==
  /\ IsFiniteSet(Macros) /\ Macros = 1..Cardinality(Macros)
  /\ MaxLen \in Nat /\ MaxRepeats \in Nat
  /\ \A c \in Codes : c \in Trees /\ \A m \in Macros : Len(c[m].items) <= MaxLen
  /\ \A h \in HandlerLists : h \in Seq(Macros)

\* What leaves a macro leads to a later one: macros whose jumps make no circle
\* can be numbered like this.  A program that comes back to a macro it has not
\* left does so again and has no end.
ASSUME ForwardAssumption ==
  \A c \in Codes, m \in Macros : \A i \in 1..Len(c[m].items) :
    c[m].items[i][1] \in Leaves =>
      c[m].items[i][2] \in Macros /\ c[m].items[i][2] > m

VARIABLES
  code,     (* the macro tree                                              *)
  roots,    (* the handlers of the event (history)                         *)
  phase,    (* "next": Execute takes its next handler, "run": in the loop  *)
  handlers, (* activeHandlers still to come                                *)
  skip,     (* self.skipEvent                                              *)
  stale,    (* eg.event is an event executed before, not the current one   *)
  pc,       (* eg.programCounter                                           *)
  stack,    (* eg.programReturnStack                                       *)
  outer,    (* the Executes that wait for one inside their program         *)
  repeats,  (* repetitions so far                                          *)
  log       (* the places executed (history)                               *)

vars == <<code, roots, phase, handlers, skip, stale, pc, stack, outer, repeats, log>>

Items(m) == code[m].items
Op(p) == IF p[2] = 0 THEN "macro" ELSE Items(p[1])[p[2]][1]
Target(p) == Items(p[1])[p[2]][2]

TypeOK ==
  /\ phase \in {"next", "run", "done"}
  /\ handlers \in Seq(Macros)
  /\ skip \in BOOLEAN /\ stale \in BOOLEAN
  /\ pc \in Places \cup {None} /\ (phase = "run" <=> pc # None)
  /\ stack \in Seq(Places) /\ (phase # "run" => stack = <<>>)
  /\ repeats \in 0..MaxRepeats
  /\ log \in Seq(Places)
  /\ \A i \in 1..Len(outer) : outer[i] \in [handlers : Seq(Macros), skip : BOOLEAN,
                                            stale : BOOLEAN]

\* Only enabled macros handle an event: Execute goes through the handlers h.
Active(h) ==
  LET Among[k \in 0..Len(h)] ==
        IF k = 0 THEN <<>>
        ELSE IF code[h[k]].on THEN Append(Among[k - 1], h[k]) ELSE Among[k - 1]
  IN Among[Len(h)]

Init ==
  /\ code \in Codes
  /\ roots \in HandlerLists
  /\ phase = "next" /\ handlers = Active(roots) /\ skip = FALSE /\ stale = FALSE
  /\ pc = None /\ stack = <<>> /\ outer = <<>>
  /\ repeats = 0 /\ log = <<>>

-----------------------------------------------------------------------------
\* MacroItem.GetNextChild; a macro's own parent is a folder and has none.
GetNextChild(p) ==
  IF p[2] > 0 /\ p[2] < Len(Items(p[1])) THEN <<p[1], p[2] + 1>> ELSE None

\* Wrong: one return for the end of a macro.
ResumableTop(s) == {k \in {Len(s)} \ {0} : GetNextChild(s[k]) # None}

\* The entries of the return stack that have something to go on with.
Resumable(s) == {k \in 1..Len(s) : GetNextChild(s[k]) # None}

\* The end of a turn: an unchanged program counter goes to the next item, and
\* a level without one returns, to the last caller that has a next item.
Advance(p, s) ==
  LET q == IF p = pc THEN GetNextChild(p) ELSE p
      R == Resumable(s)
      k == CHOOSE i \in R : \A j \in R : j <= i
  IN /\ pc' = IF q = None /\ R # {} THEN GetNextChild(s[k]) ELSE q
     /\ stack' = IF q # None THEN s
                 ELSE IF R # {} THEN SubSeq(s, 1, k - 1) ELSE <<>>
     /\ phase' = IF q = None /\ R = {} THEN "next" ELSE "run"

Executes(ops) ==
  /\ phase = "run" /\ Op(pc) \in ops
  /\ log' = IF Op(pc) = "macro" THEN log ELSE Append(log, pc)
  /\ UNCHANGED <<code, roots>>

FirstChild(m) == IF Items(m) = <<>> THEN None ELSE <<m, 1>>

\* EventGhostEvent.Execute: the next handler's program starts on an empty
\* stack, unless an action has set skipEvent.
StartProgram ==
  /\ phase = "next" /\ handlers # <<>> /\ ~skip
  /\ pc' = <<Head(handlers), 0>> /\ stack' = <<>> /\ phase' = "run"
  /\ handlers' = Tail(handlers)
  /\ UNCHANGED <<code, roots, skip, stale, outer, repeats, log>>

\* Wrong: a disabled macro is not taken for an item that leaves the counter.
ExecuteMacroStuck ==
  /\ Executes({"macro"})
  /\ IF code[pc[1]].on THEN Advance(FirstChild(pc[1]), stack) ELSE UNCHANGED <<pc, stack, phase>>
  /\ UNCHANGED <<handlers, skip, stale, outer, repeats>>

\* MacroItem.Execute: its first item; a disabled macro leaves the counter.
ExecuteMacro ==
  /\ Executes({"macro"})
  /\ Advance(IF code[pc[1]].on THEN FirstChild(pc[1]) ELSE pc, stack)
  /\ UNCHANGED <<handlers, skip, stale, outer, repeats>>

\* StopProcessing marks the event that eg.event is.
Plain ==
  /\ Executes({"plain", "skip"})
  /\ skip' = (skip \/ (Op(pc) = "skip" /\ ~stale))
  /\ Advance(pc, stack)
  /\ UNCHANGED <<handlers, stale, outer, repeats>>

\* StopMacro: the caller goes on, or not with ignoreReturn.
Stop ==
  /\ Executes({"stop", "stopall"})
  /\ Advance(None, IF Op(pc) = "stop" THEN stack ELSE <<>>)
  /\ UNCHANGED <<handlers, skip, stale, outer, repeats>>

Jump ==
  /\ Executes({"jump", "gosub"})
  /\ Advance(<<Target(pc), 0>>, IF Op(pc) = "gosub" THEN Append(stack, pc) ELSE stack)
  /\ UNCHANGED <<handlers, skip, stale, outer, repeats>>

\* The push is done when link.target.parent raises.
LostJump ==
  /\ Executes({"lost"})
  /\ Advance(pc, Append(stack, pc))
  /\ UNCHANGED <<handlers, skip, stale, outer, repeats>>

\* AutoRepeat: back to the first item unless the event should end.
AutoRepeat ==
  /\ Executes({"repeat"})
  /\ \/ /\ repeats < MaxRepeats
        /\ repeats' = repeats + 1
        /\ Advance(FirstChild(pc[1]), stack)
     \/ /\ repeats = MaxRepeats
        /\ Advance(pc, stack)
        /\ UNCHANGED repeats
  /\ UNCHANGED <<handlers, skip, stale, outer>>

StaleAfter(op) == stale \/ op = "inplace"

\* event.Execute in an action: the handlers of the inner event run first, with
\* the same counter and stack.  Without handlers the outer program goes on.
ExecuteInPlace ==
  /\ Executes({"inplace", "restored"})
  /\ UNCHANGED repeats
  /\ \/ /\ Active(<<Target(pc)>>) # <<>>
        /\ outer' = Append(outer, [handlers |-> handlers, skip |-> skip,
                                   stale |-> StaleAfter(Op(pc))])
        /\ handlers' = Active(<<Target(pc)>>) /\ skip' = FALSE /\ stale' = FALSE
        /\ phase' = "next" /\ pc' = None /\ stack' = <<>>
     \/ /\ Active(<<Target(pc)>>) = <<>>
        /\ stale' = StaleAfter(Op(pc))
        /\ Advance(pc, stack)
        /\ UNCHANGED <<handlers, skip, outer>>

\* The inner Execute returns; the counter it left behind is None and the
\* returns are gone, so the outer program is at its end.
InnerDone ==
  /\ phase = "next" /\ (handlers = <<>> \/ skip) /\ outer # <<>>
  /\ handlers' = outer[Len(outer)].handlers
  /\ skip' = outer[Len(outer)].skip
  /\ stale' = outer[Len(outer)].stale
  /\ outer' = SubSeq(outer, 1, Len(outer) - 1)
  /\ UNCHANGED <<code, roots, phase, pc, stack, repeats, log>>

Finish ==
  /\ phase = "next" /\ (handlers = <<>> \/ skip) /\ outer = <<>>
  /\ phase' = "done"
  /\ UNCHANGED <<code, roots, handlers, skip, stale, pc, stack, outer, repeats, log>>

Next == \/ StartProgram \/ ExecuteMacro \/ Plain \/ Stop \/ Jump \/ LostJump
        \/ AutoRepeat \/ ExecuteInPlace \/ InnerDone \/ Finish

\* The action thread runs, and actions end.
Spec == Init /\ [][Next]_vars
FairSpec == Spec /\ WF_vars(Next)

-----------------------------------------------------------------------------
(***************************************************************************)
(* What a macro means, by recursion on the tree: s is what is done so far, *)
(* [log, left: repetitions left, over: the callers do not go on, skip,     *)
(* stale], and Meaning(c)[<<m, i, s>>] what is done after the items of     *)
(* macro m from item i on, in the tree c.  Turn is one item, F the rest.   *)
(***************************************************************************)
States == [log : Seq(Places), left : 0..MaxRepeats, over : BOOLEAN,
           skip : BOOLEAN, stale : BOOLEAN]
Points == Macros \X (1..MaxLen + 1) \X States

Called(F, c, m, s) == IF c[m].on THEN F[<<m, 1, s>>] ELSE s

Turn(F, c, m, i, s) ==
  IF s.over \/ i > Len(c[m].items) THEN s
  ELSE LET op == c[m].items[i][1]
           to == c[m].items[i][2]
           t == [s EXCEPT !.log = Append(@, <<m, i>>)]
           stays == s.stale \/ op = "inplace"
       IN CASE op = "jump" -> Called(F, c, to, t)
            [] op = "gosub" -> F[<<m, i + 1, Called(F, c, to, t)>>]
            [] op = "lost" -> F[<<m, i + 1, F[<<m, i + 1, t>>]>>]
            [] op = "stop" -> t
            [] op = "stopall" -> [t EXCEPT !.over = TRUE]
            [] op = "skip" -> F[<<m, i + 1, [t EXCEPT !.skip = @ \/ ~s.stale]>>]
            [] op = "repeat" /\ s.left > 0 ->
                 F[<<m, IF i = 1 THEN 2 ELSE 1, [t EXCEPT !.left = @ - 1]>>]
            [] op \in {"inplace", "restored"} /\ c[to].on ->
                 [Called(F, c, to, [t EXCEPT !.skip = FALSE, !.stale = FALSE])
                    EXCEPT !.over = TRUE, !.skip = s.skip, !.stale = stays]
            [] OTHER -> F[<<m, i + 1, [t EXCEPT !.stale = stays]>>]

Meaning(c) == LET M[x \in Points] == Turn(M, c, x[1], x[2], x[3]) IN M

\* What is done after each of the handlers h: they run in turn, until one
\* stops the event.
Handled(c, h, s) ==
  LET After[k \in 0..Len(h)] ==
        IF k = 0 THEN s
        ELSE IF After[k - 1].skip THEN After[k - 1]
        ELSE [Called(Meaning(c), c, h[k], After[k - 1]) EXCEPT !.over = FALSE]
  IN After

Start == [log |-> <<>>, left |-> MaxRepeats, over |-> FALSE, skip |-> FALSE, stale |-> FALSE]
Written(c, h) == Handled(c, h, Start)[Len(h)].log

\* A program does what its macros say (RunProgram with every kind of jump): a
\* jump leaves the macro, a jump with return comes back to the item after it,
\* however the called macro ends and whoever called the caller; what a deleted
\* target, a first item that repeats and an event in place do instead is said
\* by Meaning.  Handlers run in turn until one of them stops the event.
RunsAsWritten == phase = "done" => log = Written(code, Active(roots))

\* Every program comes to its end when no macro jumps backward: no return and
\* no macro that does nothing keeps RunProgram in its loop.
ProgramEnds == <>(phase = "done")
=============================================================================

-------------------------- MODULE MCEventPipeline --------------------------
(* Small instances of EventPipeline for TLC. *)
EXTENDS EventPipeline, TLC

CONSTANTS t1, t2, p1, p2

OnePlugin == {p1}
TwoPlugins == {p1, p2}
OneThread == {t1}
TwoThreads == {t1, t2}
BothForOne == [t \in Threads |-> p1]
OneEach == [t \in Threads |-> IF t = t1 THEN p1 ELSE p2]
\* Two threads of one plugin are interchangeable.
SwapThreads == Permutations(TwoThreads)
=============================================================================

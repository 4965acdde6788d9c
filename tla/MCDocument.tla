----------------------------- MODULE MCDocument -----------------------------
(* Small instances of Document for TLC. *)
EXTENDS Document

\* The files are interchangeable: no definition names one of them.
Symmetry == Permutations(Files)
=============================================================================

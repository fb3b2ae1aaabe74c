----------------------------- MODULE MCPublication -----------------------------
(* Small instances of Publication for TLC. *)
EXTENDS Publication, TLC

\* Sessions differ only by name, and so do chunks.
Symmetry == Permutations(Sessions) \cup Permutations(Chunks)
================================================================================

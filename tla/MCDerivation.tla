----------------------------- MODULE MCDerivation -----------------------------
(* Instances of Derivation for TLC. *)
EXTENDS Derivation, TLC

\* One tick of backoff after the first attempt, doubling with every further one.
MCBackoff == [n \in 0..MaxAttempts |-> IF n <= 1 THEN 1 ELSE 2^(n - 1)]

\* Processes, activations and Blocks are interchangeable.
Symmetry == Permutations(Proc) \cup Permutations(Worker) \cup Permutations(Block)
=============================================================================

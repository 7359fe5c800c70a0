---------------------------- MODULE MCCachelito ----------------------------
(* Cachelito for TLC: callers and waiters are interchangeable.             *)
EXTENDS Cachelito, TLC

Symmetry == Permutations(Clients) \cup Permutations(Waiters)

=============================================================================

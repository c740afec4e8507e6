-------------------------------- MODULE Sums --------------------------------
(***************************************************************************)
(* Sums over finite sets, in the form the proofs can reason about.         *)
(***************************************************************************)
EXTENDS Naturals, FiniteSets

\* The sum of term[n] over the n in S: the ways to choose an n and one of its term[n].
SumOver(S, term) == Cardinality(UNION {{n} \X (1..term[n]) : n \in S})
=============================================================================

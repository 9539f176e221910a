-------------------------------- MODULE Sums --------------------------------
(***************************************************************************)
(* Finite sums without recursion: Total(f, S) counts the units below each  *)
(* f[x].  It is the sum of f over S for a finite S and f[x] \in Nat, and,  *)
(* unlike a fold, facts about it follow from those about Cardinality.      *)
(***************************************************************************)
EXTENDS Integers, FiniteSets

Units(f, S) == UNION {{x} \X (1..f[x]) : x \in S}

Total(f, S) == Cardinality(Units(f, S))
=============================================================================

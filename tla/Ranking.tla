------------------------------ MODULE Ranking ------------------------------
(* Sorting, as several scripts do it with a key that tells all items apart. *)
EXTENDS Naturals, FiniteSets

\* Items sorted by what is above what.
InOrder(items, above) ==
  [r \in 1..Cardinality(items) |->
    CHOOSE i \in items : Cardinality({j \in items : <<j, i>> \in above}) = r - 1]
=============================================================================

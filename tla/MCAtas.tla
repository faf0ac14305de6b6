-------------------------------- MODULE MCAtas --------------------------------
(* Instances of Atas for TLC: atas, numbers, companies and transactions are    *)
(* interchangeable model values; days and amounts are small numbers. The dates *)
(* of Calendar are real ones, with a year that has a 29 February.              *)
EXTENDS Calendar, TLC

Symmetry == Permutations(Atas) \union Permutations(Numeros)
            \union Permutations(Cnpjs) \union Permutations(Requests)
=============================================================================

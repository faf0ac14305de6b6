------------------------------ MODULE MCSessions ------------------------------
(* Instances of Sessions for TLC: accounts and transactions are                *)
(* interchangeable model values, and so are the families of one kind of client.*)
EXTENDS Sessions, TLC

Symmetry == Permutations(Users) \union Permutations(SingleFlight)
            \union Permutations(Families \ SingleFlight) \union Permutations(Requests)
===============================================================================

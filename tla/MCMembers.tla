------------------------------ MODULE MCMembers ------------------------------
(* Instances of Members for TLC: accounts, addresses and transactions are    *)
(* interchangeable model values.                                             *)
EXTENDS Members, TLC

Symmetry == Permutations(Users \ Founders) \union Permutations(Founders)
            \union Permutations(People) \union Permutations(Tokens)
            \union Permutations(Requests)
=============================================================================

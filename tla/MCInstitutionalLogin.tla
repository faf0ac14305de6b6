------------------------ MODULE MCInstitutionalLogin ------------------------
(* Instances of InstitutionalLogin for TLC: every constant is a set of       *)
(* interchangeable model values.                                             *)
EXTENDS InstitutionalLogin, TLC

Symmetry == Permutations(Users) \union Permutations(People)
            \union Permutations(Subjects) \union Permutations(Browsers)
            \union Permutations(Flows) \union Permutations(Calls)
=============================================================================

------------------------------ MODULE MCLockout ------------------------------
(* Instances of Lockout for TLC: logins in progress are interchangeable.      *)
EXTENDS Lockout, TLC

Symmetry == Permutations(Attempts)
==============================================================================

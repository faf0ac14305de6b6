------------------------------ MODULE MCThrottle ------------------------------
(* Instances of Throttle for TLC: the requests are interchangeable, and so are *)
(* the proxies.                                                                *)
EXTENDS Throttle, TLC

Symmetry == Permutations(Requests) \union Permutations(Proxies)
===============================================================================

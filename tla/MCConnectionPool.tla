--------------------------- MODULE MCConnectionPool ---------------------------
(* Instances of ConnectionPool for TLC: requests and connections are model     *)
(* values. No symmetry, because the run has a liveness property.               *)
EXTENDS ConnectionPool, TLC
===============================================================================

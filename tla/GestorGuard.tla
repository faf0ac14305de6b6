---------------------------- MODULE GestorGuard ----------------------------
(***************************************************************************)
(* What member management promises about the people who can manage         *)
(* members: once the entity has an active gestor it never has none again.  *)
(* Gestores join freely; one may leave only while another remains.  The    *)
(* module knows nothing of requests, locks or transactions: Members is     *)
(* shown to implement it.                                                  *)
(***************************************************************************)
CONSTANTS Users,       \* the accounts
          Founders     \* the gestores active when observation starts

VARIABLE gestores      \* the accounts with perfil gestor and status ativo

Init == gestores = Founders

Join(u) == gestores' = gestores \union {u}

Leave(u) ==
    /\ u \in gestores
    /\ gestores \ {u} # {}
    /\ gestores' = gestores \ {u}

Next == \E u \in Users : Join(u) \/ Leave(u)

Spec == Init /\ [][Next]_gestores
=============================================================================

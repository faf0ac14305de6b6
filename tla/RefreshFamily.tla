---------------------------- MODULE RefreshFamily ----------------------------
(***************************************************************************)
(* What the session tables promise of one login, the family of refresh     *)
(* tokens it opened: it is one account's for good (DB11), its generations  *)
(* are numbered without a gap, a rotation trades one of them for the next, *)
(* and what was revoked never works again (DB10).                          *)
(***************************************************************************)
EXTENDS Naturals

CONSTANTS Users,       \* accounts
          Families,    \* logins
          MaxGen,      \* bound on the generations of a family
          Nobody       \* no account

VARIABLES dono,        \* the account of each family
          emitidas,    \* the tokens issued: a family and a generation each
          vivas        \* the ones not revoked

Gen == 1..MaxGen

Init ==
    /\ dono = [f \in Families |-> Nobody]
    /\ emitidas = {}
    /\ vivas = {}

Issue(w) == emitidas' = emitidas \union {w}

\* A login: nothing was ever issued to the family it opens.
Open(f) ==
    /\ dono[f] = Nobody
    /\ \A g \in Gen : <<f, g>> \notin emitidas
    /\ \E u \in Users : dono' = [dono EXCEPT ![f] = u]
    /\ Issue(<<f, 1>>)
    /\ vivas' = vivas \union {<<f, 1>>}

\* The token that is traded may have been revoked since it was presented; it does
\* not work afterwards either way.
Rotate(f) ==
    \E g, n \in Gen :
        /\ <<f, g>> \in emitidas
        /\ \A h \in Gen : <<f, h>> \in emitidas <=> h < n
        /\ Issue(<<f, n>>)
        /\ vivas' = (vivas \ {<<f, g>>}) \union {<<f, n>>}
        /\ UNCHANGED dono

\* Of one family, or of all those of an account.
Revoke ==
    /\ vivas' \subseteq vivas
    /\ UNCHANGED <<dono, emitidas>>

Next == Revoke \/ \E f \in Families : Open(f) \/ Rotate(f)

Spec == Init /\ [][Next]_<<dono, emitidas, vivas>>

=============================================================================

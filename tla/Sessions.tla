------------------------------ MODULE Sessions ------------------------------
(***************************************************************************)
(* Refresh-token families (services/sessions.py, repositories/session.py,  *)
(* api/auth.py, the sessao and sessao_familia tables of migration 0001).   *)
(*                                                                         *)
(* One login opens a family; every rotation revokes a generation and       *)
(* inserts the next.  A request is one READ COMMITTED transaction:         *)
(*                                                                         *)
(*   lido       the token row (login: the account) was read and is good    *)
(*   papel      _RoleOfRecord answered for the account                     *)
(*   travado    the old row's revocation is flushed, its lock is held and  *)
(*              the next generation was read                               *)
(*   inserido   the new row is flushed, its unique entry is held           *)
(*   varrendo   a revoking UPDATE has its snapshot and its rows to visit   *)
(*                                                                         *)
(* A revoking UPDATE visits the rows of its snapshot only, waits for those *)
(* another transaction holds, and skips the ones revoked meanwhile.  Its   *)
(* locks and its commit are one step, nothing can tell them apart.         *)
(***************************************************************************)
EXTENDS Naturals

CONSTANTS Users,          \* accounts
          Families,       \* ids of sessao_familia
          MaxGen,         \* bound on the generations of a family
          Requests,       \* transactions open at the same time
          Offered,        \* the operations this instance lets arrive (a bound)
          SingleFlight,   \* the families whose browser keeps its refreshes apart: it has
                          \* Web Locks and misses no answer (BrowserSession, OneTokenAlive)
          Nobody          \* no account, no row, no lock holder

ASSUME MaxGenAssumption == MaxGen \in Nat \ {0}
ASSUME SingleFlightAssumption == SingleFlight \subseteq Families
ASSUME NobodyAssumption == Nobody \notin Users \union Requests \union (Families \X (1..MaxGen))

VARIABLES ativo,          \* accounts whose status is ativo
          familia,        \* sessao_familia: the owner and whether it is marked revoked
          sessao,         \* sessao: what each generation of each family is
          trava,          \* holder of each sessao row or unique entry
          req             \* the open transactions

vars == <<ativo, familia, sessao, trava, req>>

Gen == 1..MaxGen
Rows == Families \X Gen
Motivo == {"rotacao", "logout", "replay", "desativacao", "bloqueio", "redefinicao"}

\* "vencida" is a row past expira_em that nothing revoked.
Unrevoked == {"viva", "vencida"}
State == {"ausente"} \union Unrevoked \union Motivo

RevokeOps == {"logout", "replay", "bloquear", "desativar", "redefinir"}
Op == RevokeOps \union {"login", "refresh"}
ASSUME OfferedAssumption == Offered \subseteq Op

Phase == {"livre", "lido", "papel", "travado", "inserido", "varrendo"}

Request == [op : Op \union {"nada"}, fase : Phase, usuario : Users \union {Nobody},
            linha : Rows \union {Nobody}, nova : 0..MaxGen, alvos : SUBSET Rows]

Idle == [op |-> "nada", fase |-> "livre", usuario |-> Nobody, linha |-> Nobody,
         nova |-> 0, alvos |-> {}]

NoFamily == [dono |-> Nobody, revogada |-> FALSE]

TypeOK ==
    /\ ativo \subseteq Users
    /\ familia \in [Families -> [dono : Users \union {Nobody}, revogada : BOOLEAN]]
    /\ sessao \in [Rows -> State]
    /\ trava \in [Rows -> Requests \union {Nobody}]
    /\ req \in [Requests -> Request]

Init ==
    /\ ativo = Users
    /\ familia = [f \in Families |-> NoFamily]
    /\ sessao = [w \in Rows |-> "ausente"]
    /\ trava = [w \in Rows |-> Nobody]
    /\ req = [r \in Requests |-> Idle]

-----------------------------------------------------------------------------
Owner(w) == familia[w[1]].dono
Live(w) == sessao[w] \in Unrevoked
RowsOfFamily(f) == {w \in Rows : w[1] = f}
RowsOfUser(u) == {w \in Rows : Owner(w) = u}

Open(r, fields) == req' = [req EXCEPT ![r] = fields]

\* Commit and rollback release every row and unique entry of the transaction.
Close(r) ==
    /\ req' = [req EXCEPT ![r] = Idle]
    /\ trava' = [w \in Rows |-> IF trava[w] = r THEN Nobody ELSE trava[w]]

Tables == <<ativo, familia, sessao>>

-----------------------------------------------------------------------------
(* login: the credential and the status are read, then open_session inserts  *)
(* a family and its generation one.                                          *)

ReadLogin(r) ==
    \E u \in ativo :
        /\ "login" \in Offered
        /\ req[r].fase = "livre"
        /\ Open(r, [Idle EXCEPT !.op = "login", !.fase = "papel", !.usuario = u])
        /\ UNCHANGED <<Tables, trava>>

CommitLogin(r) ==
    \E f \in Families :
        /\ req[r].op = "login"
        /\ familia[f].dono = Nobody
        /\ familia' = [familia EXCEPT ![f].dono = req[r].usuario]
        /\ sessao' = [sessao EXCEPT ![<<f, 1>>] = "viva"]
        /\ Close(r)
        /\ UNCHANGED ativo

-----------------------------------------------------------------------------
(* rotate.                                                                   *)

\* withLock of lib/session.ts lets one refresh of the browser's cookie run, as long
\* as no page is left and no answer lost in the middle of one.
MayRefresh(f) ==
    f \in SingleFlight => \A r \in Requests : req[r].op = "refresh" => req[r].linha[1] # f

\* by_hash finds the row whatever its state; a revoked one is a replay (below)
\* and an expired one is refused.
ReadToken(r) ==
    \E w \in Rows :
        /\ "refresh" \in Offered
        /\ req[r].fase = "livre"
        /\ sessao[w] = "viva"
        /\ MayRefresh(w[1])
        /\ Open(r, [Idle EXCEPT !.op = "refresh", !.fase = "lido",
                                !.usuario = Owner(w), !.linha = w])
        /\ UNCHANGED <<Tables, trava>>

\* The role taken from the token instead of the account (a mutant).
RoleOfToken(r) ==
    /\ req[r].fase = "lido"
    /\ Open(r, [req[r] EXCEPT !.fase = "papel"])
    /\ UNCHANGED <<Tables, trava>>

CheckRole(r) ==
    /\ req[r].fase = "lido"
    /\ req[r].usuario \in ativo
    /\ Open(r, [req[r] EXCEPT !.fase = "papel"])
    /\ UNCHANGED <<Tables, trava>>

\* The maximum read after the new row was added to the session (a mutant).
NextAfterInsert(f) ==
    CHOOSE n \in 2..(MaxGen + 2) :
        /\ \A g \in Gen : sessao[<<f, g>>] # "ausente" => g < n - 1
        /\ n > 2 => sessao[<<f, n - 2>>] # "ausente"

\* next_generation: one more than the largest generation committed.
NextGeneration(f) ==
    CHOOSE n \in 1..(MaxGen + 1) :
        /\ \A g \in Gen : sessao[<<f, g>>] # "ausente" => g < n
        /\ n > 1 => sessao[<<f, n - 1>>] # "ausente"

\* next_generation's SELECT autoflushes the revocation first. That UPDATE names
\* the row by its id alone, so it applies to a row revoked since it was read.
LockToken(r) ==
    /\ req[r].fase = "papel"
    /\ req[r].op = "refresh"
    /\ trava[req[r].linha] = Nobody
    /\ NextGeneration(req[r].linha[1]) \in Gen
    /\ trava' = [trava EXCEPT ![req[r].linha] = r]
    /\ Open(r, [req[r] EXCEPT !.fase = "travado", !.nova = NextGeneration(req[r].linha[1])])
    /\ UNCHANGED Tables

NewRow(r) == <<req[r].linha[1], req[r].nova>>

\* uq_sessao_geracao makes the insert wait for an uncommitted row of the same
\* generation, and fail if that row is committed (Refuse).
InsertNext(r) ==
    /\ req[r].fase = "travado"
    /\ trava[NewRow(r)] = Nobody
    /\ sessao[NewRow(r)] = "ausente"
    /\ trava' = [trava EXCEPT ![NewRow(r)] = r]
    /\ Open(r, [req[r] EXCEPT !.fase = "inserido"])
    /\ UNCHANGED Tables

\* A rotation that leaves the presented token alive (a mutant).
CommitWithoutRevoking(r) ==
    /\ req[r].fase = "inserido"
    /\ sessao' = [sessao EXCEPT ![NewRow(r)] = "viva"]
    /\ Close(r)
    /\ UNCHANGED <<ativo, familia>>

CommitRotate(r) ==
    /\ req[r].fase = "inserido"
    /\ sessao' = [sessao EXCEPT ![req[r].linha] = "rotacao", ![NewRow(r)] = "viva"]
    /\ Close(r)
    /\ UNCHANGED <<ativo, familia>>

-----------------------------------------------------------------------------
(* The revoking UPDATEs. logout revokes the family of any token it finds, a  *)
(* replay does it in a transaction of its own, and a block, a deactivation   *)
(* or a reset revokes every family of the account.                           *)

BeginRevoke(r, op, u, w, alvos) ==
    /\ op \in Offered
    /\ req[r].fase = "livre"
    /\ Open(r, [Idle EXCEPT !.op = op, !.fase = "varrendo", !.usuario = u,
                            !.linha = w, !.alvos = alvos])
    /\ UNCHANGED <<Tables, trava>>

BeginLogout(r) ==
    \E w \in Rows :
        /\ sessao[w] # "ausente"
        /\ BeginRevoke(r, "logout", Owner(w), w, {v \in RowsOfFamily(w[1]) : Live(v)})

BeginReplay(r) ==
    \E w \in Rows :
        /\ sessao[w] \in Motivo
        /\ BeginRevoke(r, "replay", Owner(w), w, {v \in RowsOfFamily(w[1]) : Live(v)})

BeginAccountRevoke(r) ==
    \E u \in ativo, op \in {"bloquear", "desativar", "redefinir"} :
        BeginRevoke(r, op, u, Nobody, {v \in RowsOfUser(u) : Live(v)})

\* A reset that writes its own name instead of the reason (a mutant).
ReasonAsOperation(op) == op

Reason(op) == [logout |-> "logout", replay |-> "replay", bloquear |-> "bloqueio",
               desativar |-> "desativacao", redefinir |-> "redefinicao"][op]

FamilyWide(op) == op \in {"logout", "replay"}

CommitRevoke(r) ==
    /\ req[r].fase = "varrendo"
    /\ \A w \in req[r].alvos : trava[w] = Nobody
    /\ sessao' = [w \in Rows |-> IF w \in req[r].alvos /\ Live(w) THEN Reason(req[r].op)
                                                                 ELSE sessao[w]]
    /\ familia' = [f \in Families |->
           IF FamilyWide(req[r].op) /\ req[r].linha[1] = f
           THEN [familia[f] EXCEPT !.revogada = TRUE] ELSE familia[f]]
    /\ ativo' = IF req[r].op \in {"bloquear", "desativar"} THEN ativo \ {req[r].usuario}
                                                           ELSE ativo
    /\ Close(r)

-----------------------------------------------------------------------------
\* An account becomes ativo again: a blocked one is unblocked, a deactivated one
\* blocked and unblocked (Members models by whom and when).
Unblock(u) ==
    /\ u \in Users \ ativo
    /\ "bloquear" \in Offered
    /\ ativo' = ativo \union {u}
    /\ UNCHANGED <<familia, sessao, trava, req>>

\* expira_em passes.
Expire(w) ==
    /\ sessao[w] = "viva"
    /\ sessao' = [sessao EXCEPT ![w] = "vencida"]
    /\ UNCHANGED <<ativo, familia, trava, req>>

\* An account that may not hold a role any more, or a generation taken.
Refuse(r) ==
    /\ \/ req[r].fase = "lido" /\ req[r].usuario \notin ativo
       \/ req[r].fase = "travado" /\ sessao[NewRow(r)] # "ausente"
    /\ Close(r)
    /\ UNCHANGED Tables

\* A lost connection, a restarted database, a deadlock victim.
Abort(r) ==
    /\ req[r].fase # "livre"
    /\ Close(r)
    /\ UNCHANGED Tables

Step(r) ==
    \/ CommitLogin(r)
    \/ CheckRole(r) \/ LockToken(r) \/ InsertNext(r) \/ CommitRotate(r)
    \/ CommitRevoke(r)
    \/ Refuse(r)

Arrive(r) ==
    \/ ReadLogin(r) \/ ReadToken(r) \/ BeginLogout(r) \/ BeginReplay(r)
    \/ BeginAccountRevoke(r)

Next ==
    \/ \E r \in Requests : Arrive(r) \/ Step(r) \/ Abort(r)
    \/ \E u \in Users : Unblock(u)
    \/ \E w \in Rows : Expire(w)

Spec == Init /\ [][Next]_vars

-----------------------------------------------------------------------------
(* Properties.                                                               *)

\* The generations of a family are gap-free whatever is rolled back and however
\* rotations of one family overlap: data-model.md, "gap-free by construction"
\* (next_generation is read without a lock, uq_sessao_geracao backs it).
GenerationsContiguous ==
    \A f \in Families, g \in Gen :
        sessao[<<f, g>>] # "ausente" =>
            /\ familia[f].dono # Nobody
            /\ \A h \in 1..g : sessao[<<f, h>>] # "ausente"

\* The tables as the tokens of RefreshFamily.
Owners == [f \in Families |-> familia[f].dono]
Issued == {w \in Rows : sessao[w] # "ausente"}
Working == {w \in Rows : Live(w)}

Family == INSTANCE RefreshFamily WITH dono <- Owners, emitidas <- Issued, vivas <- Working

\* However rotations, logins, revocations and rollbacks overlap, each login lives
\* the life RefreshFamily promises: one owner, generations without a gap, nothing
\* revoked comes back (sessions.py, data-model.md DB10 and DB11).
ImplementsFamilies == Family!Spec

\* As long as the browser's lock keeps refreshes of one cookie apart, a family
\* never has two tokens that still work, whatever logs out, is replayed, blocked
\* or rolled back in between (rotate revokes the old row and inserts the new one).
OneLiveToken ==
    \A v, w \in Rows :
        v[1] = w[1] /\ v[1] \in SingleFlight /\ Live(v) /\ Live(w) => v = w

\* u is out: not ativo, nothing left to refresh, and no request is past the
\* check that u may enter.
Out(u) ==
    /\ u \notin ativo
    /\ \A w \in RowsOfUser(u) : ~Live(w)
    /\ \A r \in Requests : req[r].usuario = u => req[r].fase \notin {"papel", "travado", "inserido"}

\* A blocked account that is out stays out until somebody unblocks it, the
\* refreshes that read their token before the block included (AC-0001-08 and
\* _RoleOfRecord: "a refresh is a fresh authorisation decision").
BlockedStaysOut ==
    [][\A u \in Users : Out(u) /\ u \notin ativo' => Out(u)']_vars

=============================================================================

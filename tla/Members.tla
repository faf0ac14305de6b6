------------------------------ MODULE Members ------------------------------
(***************************************************************************)
(* Accounts, credential grants and the last-gestor guard                   *)
(* (services/members.py, services/credentials.py, core/authorization.py,   *)
(* the usuario and token_credencial tables of migration 0001).             *)
(*                                                                         *)
(* A request is one PostgreSQL transaction under READ COMMITTED: it reads  *)
(* committed rows, takes the advisory lock and row locks, and everything   *)
(* it writes becomes visible at its commit (core/db.py get_session).  The  *)
(* steps below are the points where another request can come in between:   *)
(*                                                                         *)
(*   autorizado  the caller's token and perfil were checked                *)
(*   travado     the transaction holds the gestores advisory lock          *)
(*   resgate     the grant was validated, its row is the first to be locked *)
(*   lido        the rows the decision rests on were read                  *)
(*   na_linha    the flush holds the row lock on the target                *)
(*   gatilho     fn_ultimo_gestor locks the gestores who stay, one by one  *)
(*   cancela     the UPDATE of cancel_open has its snapshot                *)
(*   cancelado   cancel_open is done, the INSERT of the grant is next      *)
(*   escrito     the flush is done; the audit row and the commit are next  *)
(*   auditado    deactivate only: the audit row is in, the anonymising     *)
(*               flush is next                                             *)
(*   recusado    a DomainError is on its way out, get_session rolls back   *)
(*                                                                         *)
(* sessao is abstracted to the set of accounts that hold a live refresh    *)
(* row; module Sessions models the families themselves.                    *)
(***************************************************************************)
CONSTANTS Users,         \* account ids (rows of usuario)
          People,        \* institutional addresses, one per person
          Tokens,        \* rows of token_credencial
          Requests,      \* transactions that may be open at the same time
          Founders,      \* accounts that are already active gestores
          Offered,       \* the operations and events of this instance (a bound)
          Development,   \* APP_ENV is "development" (seed_dev_admin allowed)
          UpdateLocksKey, \* any UPDATE of usuario locks the row FOR UPDATE
          Nobody         \* no account, no address, no grant, no lock holder

ASSUME NobodyAssumption == Nobody \notin Users \union People \union Tokens \union Requests
ASSUME FoundersAssumption == Founders \subseteq Users
ASSUME DevelopmentAssumption == Development \in BOOLEAN
ASSUME UpdateLocksKeyAssumption == UpdateLocksKey \in BOOLEAN

VARIABLES usuario,       \* the usuario table, committed
          token,         \* the token_credencial table, committed
          sessaoViva,    \* accounts with an unrevoked refresh row
          gestorLock,    \* holder of the advisory lock GESTOR_LOCK
          rowLock,       \* holder of each usuario row's update lock
          req,           \* the open transactions
          trilha         \* the historico_movimentacao row the latest step committed

vars == <<usuario, token, sessaoViva, gestorLock, rowLock, req, trilha>>

-----------------------------------------------------------------------------
Perfil == {"gestor", "servidor"}     \* auditor manages nobody, like servidor
Status == {"ausente", "pendente", "ativo", "bloqueado", "desativado"}

\* `person` is whose account it is; the e-mail column holds that address until
\* anonymisation clears it, so the column is Email(row).
Row == [status : Status, perfil : Perfil, person : People \union {Nobody},
        senha : BOOLEAN, anonimizado : BOOLEAN]

NoRow == [status |-> "ausente", perfil |-> "servidor", person |-> Nobody,
          senha |-> FALSE, anonimizado |-> FALSE]

Email(row) == IF row.anonimizado THEN Nobody ELSE row.person

ByEmail(p) == {u \in Users : usuario[u].status # "ausente" /\ Email(usuario[u]) = p}

GrantKind == {"convite", "redefinicao"}
GrantState == {"livre", "aberto", "vencido", "utilizado", "cancelado"}

Grant == [alvo : Users \union {Nobody}, tipo : GrantKind, estado : GrantState]

NoGrant == [alvo |-> Nobody, tipo |-> "convite", estado |-> "livre"]

ChangeOps == {"bloquear", "desativar"}
RedeemOps == {"ativar", "redefinir"}
RowOps    == ChangeOps \union RedeemOps \union {"desbloquear"}
GrantOps  == {"reemitir", "solicitar"}
NewOps    == {"convidar", "bootstrap", "semear"}
EnterOps  == {"login", "refresh"}
Op        == RowOps \union GrantOps \union NewOps \union EnterOps
ASSUME OfferedAssumption == Offered \subseteq Op \union {"logout", "expirar"}

Phase == {"livre", "autorizado", "travado", "resgate", "lido", "na_linha", "gatilho",
          "cancela", "cancelado", "escrito", "auditado", "recusado"}

Request == [op : Op \union {"nada"}, fase : Phase, ator : Users \union {Nobody},
            alvo : Users \union {Nobody}, token : Tokens \union {Nobody},
            person : People \union {Nobody}, perfil : Perfil, visto : Status,
            senha : BOOLEAN, falta : SUBSET Users]

Idle == [op |-> "nada", fase |-> "livre", ator |-> Nobody, alvo |-> Nobody,
         token |-> Nobody, person |-> Nobody, perfil |-> "servidor",
         visto |-> "ausente", senha |-> FALSE, falta |-> {}]

AuditRow == [acao : Op \union {"nada", "ultimo_gestor", "logout"}, ator : Users \union {Nobody},
             alvo : Users \union {Nobody}, anterior : Status]

NoAudit == [acao |-> "nada", ator |-> Nobody, alvo |-> Nobody, anterior |-> "ausente"]

TypeOK ==
    /\ usuario \in [Users -> Row]
    /\ token \in [Tokens -> Grant]
    /\ sessaoViva \subseteq Users
    /\ gestorLock \in Requests \union {Nobody}
    /\ rowLock \in [Users -> Requests \union {Nobody}]
    /\ req \in [Requests -> Request]
    /\ trilha \in AuditRow

-----------------------------------------------------------------------------
IsActiveGestor(row) == row.perfil = "gestor" /\ row.status = "ativo"

\* count_active_gestores and the count of the fn_ultimo_gestor trigger: the
\* same predicate, written once in Python and once in plpgsql.
ActiveGestores == {u \in Users : IsActiveGestor(usuario[u])}
\* The count without its status predicate (a mutant).
OtherGestoresOfAnyStatus(u) == {v \in Users : usuario[v].perfil = "gestor"} \ {u}

OtherActiveGestores(u) == ActiveGestores \ {u}

\* ck_usuario_anonimizado left out of the migration (a mutant).
PendingCheckOnly(row) == row.status = "pendente" => ~row.senha

\* The row constraints of migration 0001 a flush is checked against.
ChecksHold(row) ==
    /\ row.status = "pendente" => ~row.senha
    /\ row.anonimizado => ~row.senha

KindOf(op) == IF op \in {"ativar", "reemitir", "convidar"} THEN "convite" ELSE "redefinicao"

\* A grant ux_token_credencial_aberto counts: neither used nor cancelled.
Outstanding(t, u, kind) ==
    /\ token[t].alvo = u
    /\ token[t].tipo = kind
    /\ token[t].estado \in {"aberto", "vencido"}

Open(r, fields) == req' = [req EXCEPT ![r] = fields]
Move(r, fase)   == req' = [req EXCEPT ![r].fase = fase]

\* A session closed without ending its transaction (a mutant).
CloseKeepingLocks(r) == req' = [req EXCEPT ![r] = Idle] /\ UNCHANGED <<gestorLock, rowLock>>

\* Commit and rollback both end the transaction and release what it locked.
Close(r) ==
    /\ req' = [req EXCEPT ![r] = Idle]
    /\ gestorLock' = IF gestorLock = r THEN Nobody ELSE gestorLock
    /\ rowLock' = [u \in Users |-> IF rowLock[u] = r THEN Nobody ELSE rowLock[u]]

Audit(acao, ator, alvo, anterior) ==
    trilha' = [acao |-> acao, ator |-> ator, alvo |-> alvo, anterior |-> anterior]

Unaudited == trilha' = NoAudit
ReadOnly == UNCHANGED <<usuario, token, sessaoViva>> /\ Unaudited
Locks  == <<gestorLock, rowLock>>

-----------------------------------------------------------------------------
(* Locks. rowLock is the update lock of a usuario row: FOR NO KEY UPDATE for *)
(* a flush, FOR UPDATE where the trigger takes it, and for every flush under *)
(* UpdateLocksKey (a server that counts the generated pseudonimo as a key).  *)
(* A foreign key takes FOR KEY SHARE on the row it names, which only FOR     *)
(* UPDATE excludes. Who holds a key share or a grant's row follows from the  *)
(* phases.                                                                   *)

\* Whose account the audit row names: redemptions and logins are their own actors.
Actor(r) == IF req[r].op \in RedeemOps \union EnterOps THEN req[r].alvo ELSE req[r].ator

\* The new grant shares the key of its account, the audit row that of the actor;
\* one that nothing else waits behind is taken by the commit itself.
KeyShare(u) ==
    {s \in Requests : \/ req[s].op \in GrantOps /\ req[s].fase = "escrito" /\ req[s].alvo = u
                      \/ req[s].fase = "auditado" /\ req[s].ator = u}

GrantHolders(t) ==
    {s \in Requests : /\ req[s].token = t
                      /\ \/ req[s].op \in RedeemOps /\ req[s].fase # "resgate"
                         \/ req[s].op \in GrantOps /\ req[s].fase \in {"cancelado", "escrito"}}

\* The transactions r has to wait for before it may lock: FOR KEY SHARE,
\* FOR UPDATE, the lock of a flush, a grant's row.
ShareBlockers(u, r) ==
    {s \in Requests \ {r} : /\ u \in Users
                            /\ rowLock[u] = s
                            /\ UpdateLocksKey \/ u # req[s].alvo}
KeyBlockers(u, r)   == {s \in Requests \ {r} : rowLock[u] = s \/ s \in KeyShare(u)}
FlushBlockers(u, r) == {s \in KeyBlockers(u, r) : UpdateLocksKey \/ rowLock[u] = s}
GrantBlockers(r)    == GrantHolders(req[r].token) \ {r}

\* An INSERT waits for the transaction that inserted its index entry before it.
InsertBlockers(r) ==
    ShareBlockers(req[r].alvo, r) \union
    {s \in KeyShare(req[r].alvo) \ {r} : req[s].op = req[r].op}

Init ==
    /\ \E f \in [Founders -> People] :
          /\ \A u, v \in Founders : f[u] = f[v] => u = v
          /\ usuario = [u \in Users |->
                 IF u \in Founders
                 THEN [status |-> "ativo", perfil |-> "gestor", person |-> f[u],
                       senha |-> TRUE, anonimizado |-> FALSE]
                 ELSE NoRow]
    /\ token = [t \in Tokens |-> NoGrant]
    /\ sessaoViva = {}
    /\ gestorLock = Nobody
    /\ rowLock = [u \in Users |-> Nobody]
    /\ req = [r \in Requests |-> Idle]
    /\ trilha = NoAudit

-----------------------------------------------------------------------------
(* The caller. current_usuario and Requires("gestor") read the account once, *)
(* when the request arrives; the handler runs later on that answer.          *)

Begin(r, a, op, u) ==
    /\ req[r].fase = "livre"
    /\ IsActiveGestor(usuario[a])
    /\ Open(r, [Idle EXCEPT !.op = op, !.fase = "autorizado", !.ator = a, !.alvo = u,
                            !.senha = usuario[a].senha])
    /\ ReadOnly /\ UNCHANGED Locks

BeginMemberChange(r) ==
    \E a, u \in Users, op \in ChangeOps \union {"desbloquear"} \union GrantOps :
        /\ op \in Offered
        /\ usuario[u].status # "ausente"
        /\ Begin(r, a, op, u)

BeginInvite(r) ==
    \E a \in Users, p \in People, perfil \in Perfil :
        /\ "convidar" \in Offered
        /\ req[r].fase = "livre"
        /\ IsActiveGestor(usuario[a])
        /\ Open(r, [Idle EXCEPT !.op = "convidar", !.fase = "autorizado", !.ator = a,
                                !.person = p, !.perfil = perfil])
        /\ ReadOnly /\ UNCHANGED Locks

\* The operator's command line: no actor and no authorisation.
BeginBootstrap(r) ==
    \E p \in People, senha \in BOOLEAN :
        /\ "bootstrap" \in Offered
        /\ req[r].fase = "livre"
        /\ Open(r, [Idle EXCEPT !.op = "bootstrap", !.fase = "autorizado",
                                !.person = p, !.perfil = "gestor", !.senha = senha])
        /\ ReadOnly /\ UNCHANGED Locks

-----------------------------------------------------------------------------
(* block and deactivate: _change_status.                                     *)

\* The count read without the advisory lock (a mutant).
CountWithoutWaiting(r) ==
    /\ req[r].fase = "autorizado"
    /\ req[r].op \in ChangeOps \union {"bootstrap"}
    /\ gestorLock' = r
    /\ Move(r, "travado")
    /\ ReadOnly /\ UNCHANGED rowLock

LockGestores(r) ==
    /\ req[r].fase = "autorizado"
    /\ req[r].op \in ChangeOps \union {"bootstrap"}
    /\ gestorLock = Nobody
    /\ gestorLock' = r
    /\ Move(r, "travado")
    /\ ReadOnly /\ UNCHANGED rowLock

\* repo.by_id answers from the session's identity map, so a gestor acting on
\* their own account sees the status of the authorisation, not the committed one.
StatusSeen(r) == IF req[r].alvo = req[r].ator THEN "ativo" ELSE usuario[req[r].alvo].status
SenhaSeen(r)  == IF req[r].alvo = req[r].ator THEN req[r].senha
                                              ELSE usuario[req[r].alvo].senha

\* A status ck_usuario_status does not know (a mutant).
StatusOutsideTheCheck(op) == IF op = "bloquear" THEN "suspenso" ELSE "desativado"

NewStatus(op) == IF op = "bloquear" THEN "bloqueado" ELSE "desativado"

WouldEmptyGestores(r) ==
    /\ usuario[req[r].alvo].perfil = "gestor"
    /\ StatusSeen(r) = "ativo"
    /\ OtherActiveGestores(req[r].alvo) = {}

\* previous == new_status: nothing is written and the empty transaction commits.
NothingToChange(r) ==
    /\ req[r].fase = "travado"
    /\ req[r].op \in ChangeOps
    /\ StatusSeen(r) = NewStatus(req[r].op)
    /\ Close(r)
    /\ ReadOnly

\* The audit row goes into the request's own session, then LastGestor is raised.
RefuseLastGestor(r) ==
    /\ req[r].fase = "travado"
    /\ req[r].op \in ChangeOps
    /\ StatusSeen(r) # NewStatus(req[r].op)
    /\ WouldEmptyGestores(r)
    /\ Move(r, "recusado")
    /\ ReadOnly /\ UNCHANGED Locks

DecideChange(r) ==
    /\ req[r].fase = "travado"
    /\ req[r].op \in ChangeOps
    /\ StatusSeen(r) # NewStatus(req[r].op)
    /\ ~WouldEmptyGestores(r)
    /\ Open(r, [req[r] EXCEPT !.fase = "lido", !.visto = StatusSeen(r),
                              !.senha = SenhaSeen(r)])
    /\ ReadOnly /\ UNCHANGED Locks

-----------------------------------------------------------------------------
(* unblock: by_id and the status check, no lock of any kind. The identity    *)
(* map makes a gestor's own account read as ativo here too.                  *)

ReadUnblock(r) ==
    /\ req[r].fase = "autorizado"
    /\ req[r].op = "desbloquear"
    /\ StatusSeen(r) = "bloqueado"
    /\ Open(r, [req[r] EXCEPT !.fase = "lido", !.visto = "bloqueado"])
    /\ ReadOnly /\ UNCHANGED Locks

(* activate and redeem_reset: credentials.redeem validates the grant without *)
(* locking or spending it, then the account is read. No caller to authorise. *)

ReadGrant(r) ==
    \E t \in Tokens, op \in RedeemOps \intersect Offered :
        /\ req[r].fase = "livre"
        /\ token[t].estado = "aberto"
        /\ token[t].tipo = KindOf(op)
        /\ Open(r, [Idle EXCEPT !.op = op, !.fase = "resgate", !.alvo = token[t].alvo,
                                !.token = t, !.visto = usuario[token[t].alvo].status])
        /\ ReadOnly /\ UNCHANGED Locks

\* mark_used sets the grant and flushes. The account is written by the same
\* flush, after the grant: the ORM takes the two classes in the order of their
\* names. The UPDATE names the row by id, whatever became of it meanwhile.
SpendGrant(r) ==
    /\ req[r].fase = "resgate"
    /\ GrantBlockers(r) = {}
    /\ Move(r, "lido")
    /\ ReadOnly /\ UNCHANGED Locks

-----------------------------------------------------------------------------
(* The flush of a usuario UPDATE: row lock, trigger and CHECKs, then the     *)
(* commit makes the new row visible.                                         *)

LockRow(r) ==
    /\ req[r].fase = "lido"
    /\ req[r].op \in RowOps
    /\ FlushBlockers(req[r].alvo, r) = {}
    /\ rowLock' = [rowLock EXCEPT ![req[r].alvo] = r]
    /\ Move(r, "na_linha")
    /\ ReadOnly /\ UNCHANGED gestorLock

\* The ORM writes the columns the handler changed, on the row as it now is.
\* A column that already had the new value when it was read is left out of the
\* UPDATE: status for activate, senha_hash for deactivate.
NewRow(r) ==
    LET row == usuario[req[r].alvo]
        op  == req[r].op
    IN [row EXCEPT
          !.status      = IF op \in ChangeOps THEN NewStatus(op)
                          ELSE IF op = "desbloquear" THEN "ativo"
                          ELSE IF op = "ativar" /\ req[r].visto # "ativo" THEN "ativo"
                          ELSE row.status,
          !.senha       = IF op = "desativar" /\ req[r].senha THEN FALSE
                          ELSE IF op \in RedeemOps THEN TRUE
                          ELSE row.senha,
          !.anonimizado = IF op = "desativar" THEN TRUE ELSE row.anonimizado]

LeavesGestores(r) ==
    /\ IsActiveGestor(usuario[req[r].alvo])
    /\ ~IsActiveGestor(NewRow(r))

\* deactivate's first flush writes only that the account is desativado, which no
\* CHECK is about.
FlushChecked(r) == req[r].op = "desativar" \/ ChecksHold(NewRow(r))

\* A flush that is none of the trigger's concern.
FlushRow(r) ==
    /\ req[r].fase = "na_linha"
    /\ ~LeavesGestores(r)
    /\ FlushChecked(r)
    /\ Move(r, "escrito")
    /\ ReadOnly /\ UNCHANGED Locks

\* fn_ultimo_gestor selects the remaining active gestores, then locks their rows
\* FOR UPDATE one at a time (in the order of their ids: here, in any order) and
\* counts those that are still active gestores once locked.
Trigger(r) ==
    /\ req[r].fase = "na_linha"
    /\ LeavesGestores(r)
    /\ Open(r, [req[r] EXCEPT !.fase = "gatilho", !.falta = OtherActiveGestores(req[r].alvo)])
    /\ ReadOnly /\ UNCHANGED Locks

LockOther(r) ==
    \E g \in req[r].falta :
        /\ req[r].fase = "gatilho"
        /\ KeyBlockers(g, r) = {}
        /\ rowLock' = [rowLock EXCEPT ![g] = r]
        /\ Open(r, [req[r] EXCEPT !.falta = @ \ {g}])
        /\ ReadOnly /\ UNCHANGED gestorLock

Restantes(r) == {g \in OtherActiveGestores(req[r].alvo) : rowLock[g] = r}

TriggerPasses(r) ==
    /\ req[r].fase = "gatilho"
    /\ req[r].falta = {}
    /\ Restantes(r) # {}
    /\ FlushChecked(r)
    /\ Move(r, "escrito")
    /\ ReadOnly /\ UNCHANGED Locks

\* SI005: nobody would remain.
TriggerRefuses(r) ==
    /\ req[r].fase = "gatilho"
    /\ req[r].falta = {}
    /\ Restantes(r) = {}

\* deactivate records the change before it anonymises the row, and record flushes.
RecordDeactivation(r) ==
    /\ req[r].fase = "escrito"
    /\ req[r].op = "desativar"
    /\ ShareBlockers(req[r].ator, r) = {}
    /\ Move(r, "auditado")
    /\ ReadOnly /\ UNCHANGED Locks

\* What the commit of each operation makes of the grants and the sessions.
\* activate opens a session in the same transaction (api/invites.py).
TokenAfter(r) ==
    IF req[r].op \in RedeemOps THEN [token EXCEPT ![req[r].token].estado = "utilizado"]
                               ELSE token

SessionsAfter(r) ==
    IF req[r].op \in ChangeOps \union {"redefinir"} THEN sessaoViva \ {req[r].alvo}
    ELSE IF req[r].op = "ativar" THEN sessaoViva \union {req[r].alvo}
    ELSE sessaoViva

\* activate is always audited as if the status before had been pendente; a reset
\* records no status.
Previous(r) == IF req[r].op = "ativar" THEN "pendente"
               ELSE IF req[r].op = "redefinir" THEN "ausente"
               ELSE req[r].visto

\* The last statement of deactivate clears email and oidc_subject, columns of
\* unique indexes: it needs the row FOR UPDATE and is checked by the CHECKs. For
\* the other operations the last statement is the insert of the audit row.
LastStatement(r) ==
    \/ /\ req[r].fase = "auditado"
       /\ KeyBlockers(req[r].alvo, r) = {}
       /\ ChecksHold(NewRow(r))
    \/ /\ req[r].fase = "escrito"
       /\ req[r].op # "desativar"
       /\ ShareBlockers(Actor(r), r) = {}

CommitRow(r) ==
    /\ req[r].op \in RowOps
    /\ LastStatement(r)
    /\ usuario' = [usuario EXCEPT ![req[r].alvo] = NewRow(r)]
    /\ token' = TokenAfter(r)
    /\ sessaoViva' = SessionsAfter(r)
    /\ Audit(req[r].op, Actor(r), req[r].alvo, Previous(r))
    /\ Close(r)

-----------------------------------------------------------------------------
(* reissue_invite and trigger_reset: read the account, then credentials.issue *)
(* cancels the open grant of the kind and inserts a new one.                  *)

ReadForGrant(r) ==
    /\ req[r].fase = "autorizado"
    /\ req[r].op \in GrantOps
    /\ req[r].op = "reemitir" => StatusSeen(r) = "pendente"
    /\ Move(r, "lido")
    /\ ReadOnly /\ UNCHANGED Locks

\* The UPDATE of cancel_open finds the rows its snapshot shows.
CancelOpen(r) ==
    LET open == {t \in Tokens : Outstanding(t, req[r].alvo, KindOf(req[r].op))}
    IN /\ req[r].fase = "lido"
       /\ req[r].op \in GrantOps
       /\ \/ open = {} /\ Move(r, "cancelado")
          \/ \E t \in open : Open(r, [req[r] EXCEPT !.fase = "cancela", !.token = t])
       /\ ReadOnly /\ UNCHANGED Locks

\* Once it holds the row it cancels it, unless the row was spent or cancelled
\* while it waited.
LockGrant(r) ==
    /\ req[r].fase = "cancela"
    /\ GrantBlockers(r) = {}
    /\ Open(r, [req[r] EXCEPT
                  !.fase = "cancelado",
                  !.token = IF Outstanding(@, req[r].alvo, KindOf(req[r].op)) THEN @ ELSE Nobody])
    /\ ReadOnly /\ UNCHANGED Locks

\* token_credencial without ux_token_credencial_aberto (a mutant).
AnyNumberOfGrants(r) == req[r].alvo \in Users

\* ux_token_credencial_aberto: a grant the cancelling did not see makes the insert fail.
NoneOutstanding(r) ==
    \A t \in Tokens : Outstanding(t, req[r].alvo, KindOf(req[r].op)) => t = req[r].token

InsertGrant(r) ==
    /\ req[r].fase = "cancelado"
    /\ InsertBlockers(r) = {}
    /\ NoneOutstanding(r)
    /\ Move(r, "escrito")
    /\ ReadOnly /\ UNCHANGED Locks

\* The grant `new` opened for u, and `old`, if there was one, cancelled.
Issued(u, kind, new, old) ==
    [t \in Tokens |->
        IF t = new THEN [alvo |-> u, tipo |-> kind, estado |-> "aberto"]
        ELSE IF t = old THEN [token[t] EXCEPT !.estado = "cancelado"]
        ELSE token[t]]

CommitGrant(r) ==
    \E t \in Tokens :
        /\ req[r].fase = "escrito"
        /\ req[r].op \in GrantOps
        /\ token[t].estado = "livre"
        /\ ShareBlockers(req[r].ator, r) = {}
        /\ token' = Issued(req[r].alvo, KindOf(req[r].op), t, req[r].token)
        /\ Audit(req[r].op, req[r].ator, req[r].alvo, "ausente")
        /\ Close(r)
        /\ UNCHANGED <<usuario, sessaoViva>>

-----------------------------------------------------------------------------
(* invite, bootstrap_gestor and seed_dev_admin insert an account.            *)

CheckInvite(r) ==
    /\ req[r].fase = "autorizado"
    /\ req[r].op = "convidar"
    /\ ByEmail(req[r].person) = {}
    /\ Move(r, "escrito")
    /\ ReadOnly /\ UNCHANGED Locks

CheckBootstrap(r) ==
    /\ req[r].fase = "travado"
    /\ req[r].op = "bootstrap"
    /\ ActiveGestores = {}
    /\ ByEmail(req[r].person) = {}
    /\ Move(r, "escrito")
    /\ ReadOnly /\ UNCHANGED Locks

CheckSeed(r) ==
    \E p \in People :
        /\ "semear" \in Offered
        /\ Development
        /\ req[r].fase = "livre"
        /\ ByEmail(p) = {}
        /\ Open(r, [Idle EXCEPT !.op = "semear", !.fase = "escrito", !.person = p,
                                !.perfil = "gestor", !.senha = TRUE])
        /\ ReadOnly /\ UNCHANGED Locks

\* usuario.email without its UNIQUE (a mutant).
AnyAddress(p) == p \in People

\* usuario.email is UNIQUE: the insert of an address that is taken by now fails.
AddressFree(p) == ByEmail(p) = {}

NewAccount(r) ==
    [status |-> IF req[r].op = "convidar" THEN "pendente" ELSE "ativo",
     perfil |-> req[r].perfil, person |-> req[r].person,
     senha |-> req[r].senha, anonimizado |-> FALSE]

\* The invitation grant of the new account, if it is invited.
GrantsForNew(r) ==
    IF req[r].op = "convidar" THEN {t \in Tokens : token[t].estado = "livre"} ELSE {Nobody}

TokenForNew(r, u, t) ==
    IF req[r].op = "convidar" THEN Issued(u, "convite", t, Nobody) ELSE token

CommitNew(r) ==
    \E u \in Users, t \in GrantsForNew(r) :
        /\ req[r].fase = "escrito"
        /\ req[r].op \in NewOps
        /\ usuario[u].status = "ausente"
        /\ AddressFree(req[r].person)
        /\ ShareBlockers(req[r].ator, r) = {}
        /\ usuario' = [usuario EXCEPT ![u] = NewAccount(r)]
        /\ token' = TokenForNew(r, u, t)
        /\ Audit(req[r].op, req[r].ator, u, "ausente")
        /\ Close(r)
        /\ UNCHANGED sessaoViva

-----------------------------------------------------------------------------
(* Sessions, as far as members cares: a login reads the credential and the   *)
(* status, a refresh reads the status, and each inserts its row later.       *)

ReadToEnter(r) ==
    \E u \in Users, op \in EnterOps \intersect Offered :
        /\ req[r].fase = "livre"
        /\ usuario[u].status = "ativo"
        /\ op = "login" => usuario[u].senha
        /\ op = "refresh" => u \in sessaoViva
        /\ Open(r, [Idle EXCEPT !.op = op, !.fase = "escrito", !.alvo = u])
        /\ ReadOnly /\ UNCHANGED Locks

CommitEntry(r) ==
    /\ req[r].fase = "escrito"
    /\ req[r].op \in EnterOps
    /\ ShareBlockers(req[r].alvo, r) = {}
    /\ sessaoViva' = sessaoViva \union {req[r].alvo}
    /\ IF req[r].op = "login"
       THEN Audit("login", req[r].alvo, req[r].alvo, "ausente")
       ELSE Unaudited
    /\ Close(r)
    /\ UNCHANGED <<usuario, token>>

\* Logging out of one's only family.
Logout(u) ==
    /\ "logout" \in Offered
    /\ u \in sessaoViva
    /\ sessaoViva' = sessaoViva \ {u}
    /\ Audit("logout", u, u, "ausente")
    /\ UNCHANGED <<usuario, token, Locks, req>>

-----------------------------------------------------------------------------
(* Time and failure.                                                         *)

Expire(t) ==
    /\ "expirar" \in Offered
    /\ token[t].estado = "aberto"
    /\ token' = [token EXCEPT ![t].estado = "vencido"]
    /\ Unaudited
    /\ UNCHANGED <<usuario, sessaoViva, Locks, req>>

\* An insert for which the finite tables of the model have no row left (a bound).
TableFull(r) ==
    /\ req[r].fase = "escrito"
    /\ \/ req[r].op \in GrantOps \union {"convidar"} /\ \A t \in Tokens : token[t].estado # "livre"
       \/ req[r].op \in NewOps /\ \A u \in Users : usuario[u].status # "ausente"

\* The outcomes the handler itself turns into an error: a DomainError, a CHECK,
\* the trigger's SI005, a UNIQUE violation.
Refused(r) ==
    \/ req[r].fase = "recusado"
    \/ req[r].fase = "autorizado" /\ req[r].op = "desbloquear"
                                  /\ StatusSeen(r) # "bloqueado"
    \/ req[r].fase = "autorizado" /\ req[r].op = "reemitir"
                                  /\ StatusSeen(r) # "pendente"
    \/ req[r].fase = "autorizado" /\ req[r].op = "convidar"
                                  /\ ByEmail(req[r].person) # {}
    \/ req[r].fase = "travado" /\ req[r].op = "bootstrap"
                               /\ (ActiveGestores # {} \/ ByEmail(req[r].person) # {})
    \/ req[r].fase = "na_linha" /\ ~LeavesGestores(r) /\ ~FlushChecked(r)
    \/ req[r].fase = "gatilho" /\ req[r].falta = {} /\ ~FlushChecked(r)
    \/ req[r].fase = "auditado" /\ KeyBlockers(req[r].alvo, r) = {} /\ ~ChecksHold(NewRow(r))
    \/ TriggerRefuses(r)
    \/ req[r].fase = "cancelado" /\ ~NoneOutstanding(r)
    \/ req[r].fase = "escrito" /\ req[r].op \in NewOps /\ ~AddressFree(req[r].person)
    \/ TableFull(r)

\* get_session: any exception rolls the whole transaction back.
Refuse(r) ==
    /\ Refused(r)
    /\ Close(r)
    /\ ReadOnly

\* A weak password, a lost connection, a restarted database or a transaction
\* chosen as a deadlock victim: the same rollback at any point.
Abort(r) ==
    /\ req[r].fase # "livre"
    /\ Close(r)
    /\ ReadOnly

-----------------------------------------------------------------------------
Step(r) ==
    \/ LockGestores(r) \/ NothingToChange(r) \/ RefuseLastGestor(r) \/ DecideChange(r)
    \/ ReadUnblock(r) \/ ReadForGrant(r) \/ CheckInvite(r) \/ CheckBootstrap(r)
    \/ SpendGrant(r) \/ LockRow(r) \/ FlushRow(r) \/ Trigger(r) \/ LockOther(r)
    \/ TriggerPasses(r) \/ RecordDeactivation(r)
    \/ CancelOpen(r) \/ LockGrant(r) \/ InsertGrant(r)
    \/ CommitRow(r) \/ CommitGrant(r) \/ CommitNew(r) \/ CommitEntry(r)
    \/ Refuse(r)

Arrive(r) ==
    \/ BeginMemberChange(r) \/ BeginInvite(r) \/ BeginBootstrap(r)
    \/ ReadGrant(r) \/ CheckSeed(r) \/ ReadToEnter(r)

Next ==
    \/ \E r \in Requests : Arrive(r) \/ Step(r) \/ Abort(r)
    \/ \E t \in Tokens : Expire(t)
    \/ \E u \in Users : Logout(u)

Spec == Init /\ [][Next]_vars

-----------------------------------------------------------------------------
(* Waiting, and what the database does about it.                             *)

\* r's next statement waits for a lock that s holds.
WaitsFor(r, s) ==
    /\ r # s
    /\ \/ req[r].fase = "autorizado" /\ req[r].op \in ChangeOps \union {"bootstrap"}
                                     /\ gestorLock = s
       \/ req[r].fase \in {"resgate", "cancela"} /\ s \in GrantBlockers(r)
       \/ req[r].fase = "lido" /\ req[r].op \in RowOps /\ s \in FlushBlockers(req[r].alvo, r)
       \/ req[r].fase = "gatilho" /\ \E g \in req[r].falta : s \in KeyBlockers(g, r)
       \/ req[r].fase = "cancelado" /\ s \in InsertBlockers(r)
       \/ req[r].fase = "escrito" /\ s \in ShareBlockers(Actor(r), r)
       \/ req[r].fase = "auditado" /\ s \in KeyBlockers(req[r].alvo, r)

\* Each waits for one of them and is waited for by one of them.
Circle(S) ==
    /\ S # {}
    /\ \A r \in S : (\E s \in S : WaitsFor(r, s)) /\ (\E s \in S : WaitsFor(s, r))

\* After deadlock_timeout PostgreSQL rolls back a transaction of a circle (40P01).
BreakDeadlock ==
    \E S \in SUBSET Requests : Circle(S) /\ \E r \in S : Abort(r)

\* The database answers an open transaction: it grants the locks a request waits
\* for in turn, a transaction that can go on goes on, and a circle is broken.
\* Nothing makes anyone call the API, so arrivals carry no fairness; neither do
\* the other failures.
Fairness ==
    /\ \A r \in Requests : SF_vars(Step(r))
    /\ WF_vars(BreakDeadlock)

FairSpec == Spec /\ Fairness

-----------------------------------------------------------------------------
(* Properties.                                                               *)

\* The accounts able to manage members, stated apart from the code's own count.
Managers == {u \in Users : usuario[u].status = "ativo" /\ usuario[u].perfil = "gestor"}

Guard == INSTANCE GestorGuard WITH gestores <- Managers

\* However blocks, deactivations, unblocks and activations of the same people
\* interleave, the committed table never goes from some active gestor to none
\* (AC-0001-29, DB13: _change_status and fn_ultimo_gestor).
ImplementsGestorGuard == Guard!Spec

\* The trigger stays a backstop: with the advisory lock taken before the count,
\* no request gets as far as being refused by SI005 (user.py lock_gestores),
\* though unblock and activate change statuses without that lock.
TriggerIsBackstop == \A r \in Requests : ~TriggerRefuses(r)

\* Two removals never wait for each other, not even through other requests, and
\* activations, resets, logins, invitations and bootstraps are in no circle of
\* waiting transactions: with lock_gestores taken first (user.py; 39 of 40
\* measured races of two removals ended in 40P01 without it) all that is left is
\* one removal among unblocks and issued links.
RemovalsDoNotDeadlock ==
    \A S \in SUBSET Requests : Circle(S) =>
        /\ \A r \in S : req[r].op \in ChangeOps \union GrantOps \union {"desbloquear"}
        /\ \A r, s \in S : req[r].op \in ChangeOps /\ req[s].op \in ChangeOps => r = s

\* An invited account has no password before it is activated and an anonymised
\* one never has one again, although a reset redeemed in the middle of a
\* deactivation writes the password after the row was anonymised.
PasswordConsistency ==
    \A u \in Users : /\ usuario[u].status = "pendente" => ~usuario[u].senha
                     /\ usuario[u].anonimizado => ~usuario[u].senha

\* Two invitations of one address that both passed the duplicate check still
\* leave one account holding it (by_email is read before the insert).
AddressUnique ==
    \A u, v \in Users :
        Email(usuario[u]) = Email(usuario[v]) /\ Email(usuario[u]) # Nobody => u = v

\* What an account is entered with, an address and a password, names one account
\* and opens none that is not activated yet or anonymised, whatever invitations,
\* resets and deactivations overlap.
CredentialConsistency == AddressUnique /\ PasswordConsistency

\* However many links are issued for one account at once, and whatever is redeemed
\* or expires between the cancelling and the insert, one of a kind is outstanding
\* at most (credentials.issue, ux_token_credencial_aberto).
OneOpenGrant ==
    \A u \in Users, kind \in GrantKind, t1, t2 \in Tokens :
        Outstanding(t1, u, kind) /\ Outstanding(t2, u, kind) => t1 = t2

\* bootstrap_gestor creates an account only while nobody can manage members,
\* two operators running it at once included (AC-0001-34, -35).
BootstrapOnlyWithoutGestor ==
    [][trilha'.acao = "bootstrap" => Managers = {}]_vars

\* Every request the API accepted is answered: no lock is left behind, and whoever
\* waits is served or, in a circle, freed by the transaction that is rolled back.
RequestsFinish ==
    \A r \in Requests : req[r].fase # "livre" ~> req[r].fase = "livre"

-----------------------------------------------------------------------------
(* What the documentation claims and the code does not do.                   *)

\* "the request's session still commits": a refused removal of the last gestor
\* leaves its usuario.ultimo_gestor row (members.py _audit_last_gestor).
RefusalIsRecorded ==
    [][\A r \in Requests : req[r].fase = "recusado" /\ req'[r].fase = "livre"
                           => trilha'.acao = "ultimo_gestor"]_vars

\* "Single use is enforced here and by the unique index": no redemption commits
\* on a grant that is already spent (credentials.consume).
GrantSpentOnce ==
    [][\A r \in Requests : CommitRow(r) /\ req[r].op \in RedeemOps
                           => token[req[r].token].estado # "utilizado"]_vars

=============================================================================

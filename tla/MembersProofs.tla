--------------------------- MODULE MembersProofs ---------------------------
(***************************************************************************)
(* The theorems about Members, for every set of accounts, addresses,       *)
(* grants and transactions.  The safety theorems rest on one fact: between *)
(* a request's flush and its commit nobody else changes the rows it has    *)
(* locked, so what fn_ultimo_gestor and the CHECKs saw is still true when  *)
(* the transaction becomes visible.                                        *)
(***************************************************************************)
EXTENDS Members, TLAPS

USE NobodyAssumption, FoundersAssumption, DevelopmentAssumption, OfferedAssumption

-----------------------------------------------------------------------------
(* Type correctness. TypeOK alone is not inductive: a request writes to the  *)
(* account it names, and a redemption takes its account from the grant, so   *)
(* the invariant adds that both name accounts that exist.                    *)

Exists(u) == u \in Users /\ usuario[u].status # "ausente"

PhaseFits(op, fase) ==
    /\ fase = "resgate" => op \in RedeemOps
    /\ fase = "lido" => op \in RowOps \union GrantOps
    /\ fase \in {"na_linha", "gatilho"} => op \in RowOps
    /\ fase = "auditado" => op = "desativar"
    /\ fase \in {"cancela", "cancelado"} => op \in GrantOps

RequestOK(q) ==
    /\ q \in Request
    /\ q.op \in RowOps \union GrantOps \union EnterOps => Exists(q.alvo)
    /\ q.op \in RedeemOps => q.token \in Tokens
    /\ q.token \in Tokens => token[q.token].estado # "livre"
    /\ PhaseFits(q.op, q.fase)
    /\ q.op = "convidar" => ~q.senha
    /\ q.op \in {"bootstrap", "semear"} => q.ator = Nobody
    /\ \A g \in q.falta : Exists(g)

GrantsNameAccounts == \A t \in Tokens : token[t].estado # "livre" => Exists(token[t].alvo)

TInv ==
    /\ TypeOK
    /\ \A r \in Requests : RequestOK(req[r])
    /\ GrantsNameAccounts

\* No operation deletes a row of either table.
Persist ==
    /\ \A u \in Users : Exists(u) => Exists(u)'
    /\ \A t \in Tokens : token[t].estado # "livre" => token'[t].estado # "livre"

LEMMA OpSets ==
    /\ RowOps = {"bloquear", "desativar", "ativar", "redefinir", "desbloquear"}
    /\ ChangeOps = {"bloquear", "desativar"}
    /\ RedeemOps = {"ativar", "redefinir"}
    /\ GrantOps = {"reemitir", "solicitar"}
    /\ NewOps = {"convidar", "bootstrap", "semear"}
    /\ EnterOps = {"login", "refresh"}
    /\ Op = {"bloquear", "desativar", "ativar", "redefinir", "desbloquear", "reemitir",
             "solicitar", "convidar", "bootstrap", "semear", "login", "refresh"}
  BY DEF RowOps, ChangeOps, RedeemOps, GrantOps, NewOps, EnterOps, Op

LEMMA IdleOK == RequestOK(Idle) /\ Idle \in Request /\ NoAudit \in AuditRow
  BY OpSets DEF RequestOK, PhaseFits, Idle, Request, Phase, Perfil, Status, NoAudit, AuditRow

\* A transaction that goes on: one request moves, the database stays.
LEMMA OpenOK ==
    ASSUME TInv, NEW r \in Requests, NEW q, RequestOK(q), Open(r, q), ReadOnly,
           gestorLock' \in Requests \union {Nobody},
           rowLock' \in [Users -> Requests \union {Nobody}]
    PROVE  TInv'
<1>1. /\ usuario' = usuario /\ token' = token /\ sessaoViva' = sessaoViva
      /\ trilha' = NoAudit
  BY DEF ReadOnly, Unaudited
<1>2. req' \in [Requests -> Request] /\ \A s \in Requests : req'[s] \in {req[s], q}
  BY DEF TInv, TypeOK, Open, RequestOK
<1>3. \A s \in Requests : RequestOK(req'[s])
  BY <1>2 DEF TInv
<1>4. \A s \in Requests : RequestOK(req[s])'
  BY <1>1, <1>3 DEF RequestOK, Exists
<1>5. TypeOK'
  BY <1>1, <1>2, IdleOK DEF TInv, TypeOK
<1>6. QED
  BY <1>1, <1>4, <1>5 DEF TInv, GrantsNameAccounts, Exists

LEMMA MoveOK ==
    ASSUME TInv, NEW r \in Requests, NEW fase \in Phase, Move(r, fase), ReadOnly,
           PhaseFits(req[r].op, fase),
           gestorLock' \in Requests \union {Nobody},
           rowLock' \in [Users -> Requests \union {Nobody}]
    PROVE  TInv'
<1> DEFINE q == [req[r] EXCEPT !.fase = fase]
<1>1. RequestOK(req[r])
  BY DEF TInv
<1>2. RequestOK(q)
  BY <1>1 DEF RequestOK, Request
<1>3. Open(r, q)
  BY DEF Move, Open, TInv, TypeOK
<1>4. QED
  BY <1>2, <1>3, OpenOK

\* A transaction that ends: the tables may have changed, the locks are freed.
LEMMA CloseOK ==
    ASSUME TInv, NEW r \in Requests, Close(r), Persist,
           usuario' \in [Users -> Row], token' \in [Tokens -> Grant],
           sessaoViva' \subseteq Users, trilha' \in AuditRow,
           GrantsNameAccounts'
    PROVE  TInv'
<1>1. /\ req' \in [Requests -> Request]
      /\ \A s \in Requests : req'[s] = req[s] \/ req'[s] = Idle
  BY IdleOK DEF TInv, TypeOK, Close
<1>2. \A s \in Requests : RequestOK(req[s])'
  <2>1. SUFFICES ASSUME NEW s \in Requests PROVE RequestOK(req[s])'
    OBVIOUS
  <2>2. CASE req'[s] = Idle
    BY <2>2, IdleOK, OpSets DEF RequestOK, PhaseFits, Idle
  <2>3. CASE req'[s] = req[s]
    BY <2>3 DEF TInv, RequestOK, PhaseFits, Persist, Exists
  <2>4. QED
    BY <1>1, <2>2, <2>3
<1>3. TypeOK'
  BY <1>1 DEF TInv, TypeOK, Close
<1>4. QED
  BY <1>2, <1>3 DEF TInv

LEMMA ReadOnlyClose ==
    ASSUME TInv, NEW r \in Requests, Close(r), ReadOnly
    PROVE  TInv'
<1>1. /\ usuario' = usuario /\ token' = token /\ sessaoViva' = sessaoViva
      /\ trilha' \in AuditRow /\ Persist
  BY IdleOK DEF ReadOnly, Unaudited, Persist, Exists
<1>2. GrantsNameAccounts'
  BY <1>1 DEF TInv, GrantsNameAccounts, Exists
<1>3. QED
  BY <1>1, <1>2, CloseOK DEF TInv, TypeOK

\* What a flush writes is a row of the table, and it removes nobody.
LEMMA NewRowType ==
    ASSUME TInv, NEW r \in Requests, req[r].op \in RowOps
    PROVE  /\ NewRow(r) \in Row
           /\ NewRow(r).status # "ausente"
           /\ NewRow(r).perfil = usuario[req[r].alvo].perfil
           /\ NewRow(r).person = usuario[req[r].alvo].person
<1>1. usuario[req[r].alvo] \in Row /\ usuario[req[r].alvo].status # "ausente"
  BY DEF TInv, TypeOK, RequestOK, Exists
<1> DEFINE row == usuario[req[r].alvo]
<1>2. /\ row = [status |-> row.status, perfil |-> row.perfil, person |-> row.person,
                senha |-> row.senha, anonimizado |-> row.anonimizado]
      /\ row.status \in Status /\ row.perfil \in Perfil
      /\ row.person \in People \union {Nobody}
      /\ row.senha \in BOOLEAN /\ row.anonimizado \in BOOLEAN
  BY <1>1 DEF Row
<1>3. QED
  BY <1>1, <1>2 DEF NewRow, NewStatus, Row, Status

-----------------------------------------------------------------------------
(* One step per action of the specification.                                 *)

LEMMA AuditOK ==
    ASSUME NEW acao \in Op \union {"logout"}, NEW ator \in Users \union {Nobody},
           NEW alvo \in Users \union {Nobody}, NEW anterior \in Status,
           Audit(acao, ator, alvo, anterior)
    PROVE  trilha' \in AuditRow
  BY DEF Audit, AuditRow

LEMMA ArriveType ==
    ASSUME TInv, NEW r \in Requests, Arrive(r)
    PROVE  TInv'
<1>0. /\ usuario \in [Users -> Row] /\ token \in [Tokens -> Grant]
      /\ gestorLock \in Requests \union {Nobody}
      /\ rowLock \in [Users -> Requests \union {Nobody}]
      /\ GrantsNameAccounts
  BY DEF TInv, TypeOK
<1>1. CASE BeginMemberChange(r)
  <2>1. PICK a \in Users, u \in Users, op \in ChangeOps \union {"desbloquear"} \union GrantOps :
            usuario[u].status # "ausente" /\ Begin(r, a, op, u)
    BY <1>1 DEF BeginMemberChange
  <2> DEFINE q == [Idle EXCEPT !.op = op, !.fase = "autorizado", !.ator = a, !.alvo = u,
                               !.senha = usuario[a].senha]
  <2>2. RequestOK(q)
    <3>1. usuario[a].senha \in BOOLEAN
      BY <1>0 DEF Row
    <3>2. q \in Request
      BY <3>1, OpSets DEF Idle, Request, Phase, Perfil, Status
    <3>3. QED
      BY <2>1, <3>2, OpSets DEF RequestOK, PhaseFits, Idle, Exists
  <2>3. QED
    BY <1>0, <2>1, <2>2, OpenOK DEF Begin, Locks
<1>2. CASE BeginInvite(r)
  <2>1. PICK a \in Users, p \in People, perfil \in Perfil :
            Open(r, [Idle EXCEPT !.op = "convidar", !.fase = "autorizado", !.ator = a,
                                 !.person = p, !.perfil = perfil])
    BY <1>2 DEF BeginInvite
  <2>2. RequestOK([Idle EXCEPT !.op = "convidar", !.fase = "autorizado", !.ator = a,
                               !.person = p, !.perfil = perfil])
    BY OpSets DEF RequestOK, PhaseFits, Idle, Request, Phase, Status
  <2>3. QED
    BY <1>0, <1>2, <2>1, <2>2, OpenOK DEF BeginInvite, Locks
<1>3. CASE BeginBootstrap(r)
  <2>1. PICK p \in People, senha \in BOOLEAN :
            Open(r, [Idle EXCEPT !.op = "bootstrap", !.fase = "autorizado",
                                 !.person = p, !.perfil = "gestor", !.senha = senha])
    BY <1>3 DEF BeginBootstrap
  <2>2. RequestOK([Idle EXCEPT !.op = "bootstrap", !.fase = "autorizado",
                               !.person = p, !.perfil = "gestor", !.senha = senha])
    BY OpSets DEF RequestOK, PhaseFits, Idle, Request, Phase, Perfil, Status
  <2>3. QED
    BY <1>0, <1>3, <2>1, <2>2, OpenOK DEF BeginBootstrap, Locks
<1>4. CASE ReadGrant(r)
  <2>1. PICK t \in Tokens, op \in RedeemOps \intersect Offered :
            /\ token[t].estado = "aberto"
            /\ Open(r, [Idle EXCEPT !.op = op, !.fase = "resgate", !.alvo = token[t].alvo,
                                    !.token = t, !.visto = usuario[token[t].alvo].status])
    BY <1>4 DEF ReadGrant
  <2>2. Exists(token[t].alvo) /\ token[t].alvo \in Users
    BY <1>0, <2>1 DEF GrantsNameAccounts, Exists
  <2>3. usuario[token[t].alvo].status \in Status
    BY <1>0, <2>2 DEF Row
  <2>4. RequestOK([Idle EXCEPT !.op = op, !.fase = "resgate", !.alvo = token[t].alvo,
                               !.token = t, !.visto = usuario[token[t].alvo].status])
    BY <2>1, <2>2, <2>3, OpSets DEF RequestOK, PhaseFits, Idle, Request, Phase, Perfil
  <2>5. QED
    BY <1>0, <1>4, <2>1, <2>4, OpenOK DEF ReadGrant, Locks
<1>5. CASE CheckSeed(r)
  <2>1. PICK p \in People :
            Open(r, [Idle EXCEPT !.op = "semear", !.fase = "escrito", !.person = p,
                                 !.perfil = "gestor", !.senha = TRUE])
    BY <1>5 DEF CheckSeed
  <2>2. RequestOK([Idle EXCEPT !.op = "semear", !.fase = "escrito", !.person = p,
                               !.perfil = "gestor", !.senha = TRUE])
    BY OpSets DEF RequestOK, PhaseFits, Idle, Request, Phase, Perfil, Status
  <2>3. QED
    BY <1>0, <1>5, <2>1, <2>2, OpenOK DEF CheckSeed, Locks
<1>6. CASE ReadToEnter(r)
  <2>1. PICK u \in Users, op \in EnterOps \intersect Offered :
            /\ usuario[u].status = "ativo"
            /\ Open(r, [Idle EXCEPT !.op = op, !.fase = "escrito", !.alvo = u])
    BY <1>6 DEF ReadToEnter
  <2>2. RequestOK([Idle EXCEPT !.op = op, !.fase = "escrito", !.alvo = u])
    BY <2>1, OpSets DEF RequestOK, PhaseFits, Idle, Request, Phase, Perfil, Status, Exists
  <2>3. QED
    BY <1>0, <1>6, <2>1, <2>2, OpenOK DEF ReadToEnter, Locks
<1>7. QED
  BY <1>1, <1>2, <1>3, <1>4, <1>5, <1>6 DEF Arrive

LEMMA IssuedType ==
    ASSUME TInv, NEW u \in Users, Exists(u)',
           \A v \in Users : Exists(v) => Exists(v)', NEW kind \in GrantKind, NEW new \in Tokens,
           NEW old, old \in Tokens => token[old].estado # "livre",
           token' = Issued(u, kind, new, old)
    PROVE  token' \in [Tokens -> Grant] /\ GrantsNameAccounts' /\ Persist
<1>1. token \in [Tokens -> Grant] /\ GrantsNameAccounts
  BY DEF TInv, TypeOK
<1>2. [alvo |-> u, tipo |-> kind, estado |-> "aberto"] \in Grant
  BY DEF Grant, GrantState
<1>3. \A t \in Tokens : [token[t] EXCEPT !.estado = "cancelado"] \in Grant
  BY <1>1 DEF Grant, GrantState
<1>4. token' \in [Tokens -> Grant]
  BY <1>1, <1>2, <1>3 DEF Issued
<1>5. GrantsNameAccounts'
  <2>1. SUFFICES ASSUME NEW t \in Tokens, token'[t].estado # "livre"
                 PROVE  Exists(token[t].alvo)'
    BY DEF GrantsNameAccounts
  <2>2. CASE t = new
    BY <2>2 DEF Issued, Exists
  <2>3. CASE t # new /\ t = old
    <3>1. token'[t] = [token[t] EXCEPT !.estado = "cancelado"]
      BY <2>3 DEF Issued
    <3>2. token'[t].alvo = token[t].alvo
      BY <1>1, <3>1 DEF Grant
    <3>3. QED
      BY <1>1, <2>3, <3>2 DEF GrantsNameAccounts, Exists
  <2>4. CASE t # new /\ t # old
    <3>1. token'[t] = token[t]
      BY <2>4 DEF Issued
    <3>2. QED
      BY <1>1, <2>1, <3>1 DEF GrantsNameAccounts, Exists
  <2>5. QED
    BY <2>2, <2>3, <2>4
<1>6. \A t \in Tokens : token'[t].estado # "livre" \/ token'[t] = token[t]
  BY <1>1 DEF Issued, Grant
<1>7. QED
  BY <1>4, <1>5, <1>6 DEF Persist

LEMMA CommitRowType ==
    ASSUME TInv, NEW r \in Requests, CommitRow(r)
    PROVE  TInv'
<1>0. /\ usuario \in [Users -> Row] /\ token \in [Tokens -> Grant] /\ sessaoViva \subseteq Users
      /\ GrantsNameAccounts /\ RequestOK(req[r]) /\ req[r] \in Request
  BY DEF TInv, TypeOK, RequestOK
<1>1. req[r].op \in RowOps /\ Exists(req[r].alvo) /\ req[r].alvo \in Users
  BY <1>0 DEF CommitRow, RequestOK, Exists
<1>2. NewRow(r) \in Row /\ NewRow(r).status # "ausente"
  BY <1>1, NewRowType
<1>3. usuario' = [usuario EXCEPT ![req[r].alvo] = NewRow(r)]
  BY DEF CommitRow
<1>4. usuario' \in [Users -> Row] /\ \A u \in Users : Exists(u) => Exists(u)'
  BY <1>0, <1>1, <1>2, <1>3 DEF Exists
<1>5. token' \in [Tokens -> Grant] /\ GrantsNameAccounts' /\ Persist
  <2>1. CASE req[r].op \in RedeemOps
    <3>1. /\ token' = [token EXCEPT ![req[r].token].estado = "utilizado"]
          /\ req[r].token \in Tokens /\ token[req[r].token].estado # "livre"
      BY <1>0, <2>1 DEF CommitRow, TokenAfter, RequestOK
    <3>2. token' \in [Tokens -> Grant]
      BY <1>0, <3>1 DEF Grant, GrantState
    <3>3. \A t \in Tokens : /\ token'[t].alvo = token[t].alvo
                             /\ (t # req[r].token => token'[t] = token[t])
                             /\ (t = req[r].token => token'[t].estado = "utilizado")
      BY <1>0, <3>1 DEF Grant
    <3>4. QED
      BY <1>0, <1>4, <3>1, <3>2, <3>3 DEF GrantsNameAccounts, Persist, Exists
  <2>2. CASE req[r].op \notin RedeemOps
    BY <1>0, <1>4, <2>2 DEF CommitRow, TokenAfter, GrantsNameAccounts, Persist, Exists
  <2>3. QED
    BY <2>1, <2>2
<1>6. sessaoViva' \subseteq Users
  BY <1>0, <1>1 DEF CommitRow, SessionsAfter
<1>7. trilha' \in AuditRow
  <2>1. /\ req[r].op \in Op /\ Actor(r) \in Users \union {Nobody}
        /\ req[r].alvo \in Users \union {Nobody} /\ Previous(r) \in Status
    BY <1>0, <1>1, OpSets DEF Actor, Previous, Request, Status
  <2>2. QED
    BY <2>1, AuditOK DEF CommitRow
<1>8. QED
  BY <1>4, <1>5, <1>6, <1>7, CloseOK DEF CommitRow

LEMMA StepType ==
    ASSUME TInv, NEW r \in Requests, Step(r)
    PROVE  TInv'
<1>0. /\ usuario \in [Users -> Row] /\ token \in [Tokens -> Grant] /\ sessaoViva \subseteq Users
      /\ gestorLock \in Requests \union {Nobody}
      /\ rowLock \in [Users -> Requests \union {Nobody}]
      /\ GrantsNameAccounts /\ RequestOK(req[r]) /\ req[r] \in Request
  BY DEF TInv, TypeOK, RequestOK
<1>1. CASE LockGestores(r)
  BY <1>0, <1>1, MoveOK DEF LockGestores, Phase, PhaseFits
<1>2. CASE NothingToChange(r)
  BY <1>2, ReadOnlyClose DEF NothingToChange
<1>3. CASE RefuseLastGestor(r)
  BY <1>0, <1>3, MoveOK DEF RefuseLastGestor, Phase, PhaseFits, Locks
<1>4. CASE DecideChange(r)
  <2> DEFINE q == [req[r] EXCEPT !.fase = "lido", !.visto = StatusSeen(r), !.senha = SenhaSeen(r)]
  <2>1. req[r].op \in RowOps /\ Exists(req[r].alvo) /\ req[r].alvo \in Users
    BY <1>0, <1>4, OpSets DEF DecideChange, RequestOK, Exists
  <2>2. StatusSeen(r) \in Status /\ SenhaSeen(r) \in BOOLEAN
    BY <1>0, <2>1 DEF StatusSeen, SenhaSeen, Row, Request, Status
  <2>3. /\ q \in Request /\ q.op = req[r].op /\ q.alvo = req[r].alvo /\ q.token = req[r].token
        /\ q.fase = "lido" /\ q.falta = req[r].falta
    BY <1>0, <2>2 DEF Request, Phase
  <2>4. RequestOK(q)
    BY <1>0, <1>4, <2>1, <2>3, OpSets DEF DecideChange, RequestOK, PhaseFits
  <2>5. QED
    BY <1>0, <1>4, <2>4, OpenOK DEF DecideChange, Locks
<1>5. CASE ReadUnblock(r)
  <2> DEFINE q == [req[r] EXCEPT !.fase = "lido", !.visto = "bloqueado"]
  <2>1. /\ q \in Request /\ q.op = req[r].op /\ q.alvo = req[r].alvo /\ q.token = req[r].token
        /\ q.fase = "lido" /\ q.falta = req[r].falta
    BY <1>0 DEF Request, Phase, Status
  <2>2. RequestOK(q)
    BY <1>0, <1>5, <2>1, OpSets DEF ReadUnblock, RequestOK, PhaseFits
  <2>3. QED
    BY <1>0, <1>5, <2>2, OpenOK DEF ReadUnblock, Locks
<1>6. CASE ReadForGrant(r) \/ CheckInvite(r) \/ CheckBootstrap(r) \/ SpendGrant(r)
  <2>1. PICK fase \in {"lido", "escrito"} : Move(r, fase)
    BY <1>6 DEF ReadForGrant, CheckInvite, CheckBootstrap, SpendGrant
  <2>2. PhaseFits(req[r].op, fase)
    <3>1. CASE ReadForGrant(r)
      BY <3>1, <2>1, OpSets DEF ReadForGrant, PhaseFits
    <3>2. CASE SpendGrant(r)
      BY <1>0, <3>2, <2>1, OpSets DEF SpendGrant, RequestOK, PhaseFits
    <3>3. CASE CheckInvite(r) \/ CheckBootstrap(r)
      <4>1. fase = "escrito"
        BY <1>0, <2>1, <3>3 DEF CheckInvite, CheckBootstrap, Move, TInv, TypeOK, Request
      <4>2. QED
        BY <4>1 DEF PhaseFits
    <3>4. QED
      BY <1>6, <3>1, <3>2, <3>3
  <2>3. ReadOnly /\ UNCHANGED Locks
    BY <1>6 DEF ReadForGrant, CheckInvite, CheckBootstrap, SpendGrant
  <2>4. QED
    BY <1>0, <2>1, <2>2, <2>3, MoveOK DEF Phase, Locks
<1>7. CASE LockRow(r)
  <2>1. req[r].op \in RowOps /\ rowLock' \in [Users -> Requests \union {Nobody}]
    BY <1>0, <1>7 DEF LockRow
  <2>2. QED
    BY <1>0, <1>7, <2>1, MoveOK DEF LockRow, Phase, PhaseFits
<1>8. CASE FlushRow(r) \/ TriggerPasses(r) \/ RecordDeactivation(r) \/ InsertGrant(r)
  <2>1. PICK fase \in {"escrito", "auditado"} :
            /\ Move(r, fase) /\ ReadOnly /\ UNCHANGED Locks
            /\ fase = "auditado" => req[r].op = "desativar"
    BY <1>8 DEF FlushRow, TriggerPasses, RecordDeactivation, InsertGrant
  <2>2. QED
    BY <1>0, <2>1, MoveOK DEF Phase, PhaseFits, Locks
<1>9. CASE Trigger(r)
  <2> DEFINE q == [req[r] EXCEPT !.fase = "gatilho", !.falta = OtherActiveGestores(req[r].alvo)]
  <2>1. req[r].fase = "na_linha" /\ OtherActiveGestores(req[r].alvo) \subseteq Users
    BY <1>9 DEF Trigger, OtherActiveGestores, ActiveGestores
  <2>2. /\ q \in Request /\ q.op = req[r].op /\ q.alvo = req[r].alvo /\ q.token = req[r].token
        /\ q.fase = "gatilho" /\ q.senha = req[r].senha /\ q.ator = req[r].ator
        /\ q.falta = OtherActiveGestores(req[r].alvo)
    BY <1>0, <2>1 DEF Request, Phase
  <2>3. \A g \in q.falta : Exists(g)
    BY <2>2 DEF OtherActiveGestores, ActiveGestores, IsActiveGestor, Exists
  <2>4. RequestOK(q)
    BY <1>0, <2>1, <2>2, <2>3 DEF RequestOK, PhaseFits
  <2>5. QED
    BY <1>0, <1>9, <2>4, OpenOK DEF Trigger, Locks
<1>10. CASE LockOther(r)
  <2>1. PICK g \in req[r].falta :
            /\ req[r].fase = "gatilho" /\ rowLock' = [rowLock EXCEPT ![g] = r]
            /\ Open(r, [req[r] EXCEPT !.falta = @ \ {g}])
            /\ ReadOnly /\ gestorLock' = gestorLock
    BY <1>10 DEF LockOther
  <2> DEFINE q == [req[r] EXCEPT !.falta = @ \ {g}]
  <2>2. /\ q \in Request /\ q.op = req[r].op /\ q.alvo = req[r].alvo /\ q.token = req[r].token
        /\ q.fase = req[r].fase /\ q.senha = req[r].senha /\ q.ator = req[r].ator
        /\ q.falta = req[r].falta \ {g}
    BY <1>0 DEF Request
  <2>3. RequestOK(q)
    BY <1>0, <2>2 DEF RequestOK
  <2>4. rowLock' \in [Users -> Requests \union {Nobody}]
    BY <1>0, <2>1
  <2>5. QED
    BY <1>0, <2>1, <2>3, <2>4, OpenOK
<1>11. CASE CancelOpen(r) \/ LockGrant(r)
  <2>1. PICK fase \in {"cancela", "cancelado"}, t \in Tokens \union {Nobody} :
            /\ req[r].op \in GrantOps
            /\ Open(r, [req[r] EXCEPT !.fase = fase, !.token = t])
            /\ t \in Tokens => token[t].estado # "livre"
            /\ ReadOnly /\ UNCHANGED Locks
    <3>1. CASE CancelOpen(r)
      <4>1. CASE Move(r, "cancelado")
        <5>1. req[r] = [req[r] EXCEPT !.token = req[r].token]
          BY <1>0 DEF Request
        <5>2. Open(r, [req[r] EXCEPT !.fase = "cancelado", !.token = req[r].token])
          BY <1>0, <4>1 DEF Move, Open, Request, TInv, TypeOK
        <5>3. req[r].token \in Tokens \union {Nobody}
          BY <1>0 DEF Request
        <5>4. QED
          BY <1>0, <3>1, <5>2, <5>3 DEF CancelOpen, RequestOK
      <4>2. CASE ~Move(r, "cancelado")
        BY <3>1, <4>2 DEF CancelOpen, Outstanding
      <4>3. QED
        BY <4>1, <4>2
    <3>2. CASE LockGrant(r)
      <4>1. req[r].token \in Tokens \union {Nobody} /\ req[r].op \in GrantOps
        BY <1>0, <3>2 DEF LockGrant, Request, RequestOK, PhaseFits
      <4>2. QED
        BY <1>0, <3>2, <4>1 DEF LockGrant, RequestOK
    <3>3. QED
      BY <1>11, <3>1, <3>2
  <2> DEFINE q == [req[r] EXCEPT !.fase = fase, !.token = t]
  <2>2. /\ q \in Request /\ q.op = req[r].op /\ q.alvo = req[r].alvo /\ q.token = t
        /\ q.fase = fase /\ q.senha = req[r].senha /\ q.ator = req[r].ator
    BY <1>0 DEF Request, Phase
  <2>3. RequestOK(q)
    BY <1>0, <2>1, <2>2, OpSets DEF RequestOK, PhaseFits
  <2>4. QED
    BY <1>0, <2>1, <2>3, OpenOK DEF Locks
<1>12. CASE CommitRow(r)
  BY <1>12, CommitRowType
<1>13. CASE CommitGrant(r)
  <2>1. PICK t \in Tokens :
            /\ token' = Issued(req[r].alvo, KindOf(req[r].op), t, req[r].token)
            /\ Audit(req[r].op, req[r].ator, req[r].alvo, "ausente")
            /\ Close(r) /\ usuario' = usuario /\ sessaoViva' = sessaoViva
            /\ req[r].op \in GrantOps
    BY <1>13 DEF CommitGrant
  <2>2. Exists(req[r].alvo) /\ req[r].alvo \in Users
    BY <1>0, <2>1 DEF RequestOK, Exists
  <2>3. token' \in [Tokens -> Grant] /\ GrantsNameAccounts' /\ Persist
    BY <1>0, <2>1, <2>2, IssuedType DEF Exists, GrantKind, KindOf, RequestOK
  <2>4. trilha' \in AuditRow
    BY <1>0, <2>1, AuditOK, OpSets DEF Request, Status
  <2>5. QED
    BY <1>0, <2>1, <2>3, <2>4, CloseOK
<1>14. CASE CommitNew(r)
  <2>1. PICK u \in Users, t \in GrantsForNew(r) :
            /\ req[r].op \in NewOps /\ usuario[u].status = "ausente"
            /\ usuario' = [usuario EXCEPT ![u] = NewAccount(r)]
            /\ token' = TokenForNew(r, u, t)
            /\ Audit(req[r].op, req[r].ator, u, "ausente")
            /\ Close(r) /\ sessaoViva' = sessaoViva
    BY <1>14 DEF CommitNew
  <2>2. NewAccount(r) \in Row /\ NewAccount(r).status # "ausente"
    BY <1>0 DEF NewAccount, Row, Request, Status
  <2>3. usuario' \in [Users -> Row] /\ Exists(u)' /\ \A v \in Users : Exists(v) => Exists(v)'
    BY <1>0, <2>1, <2>2 DEF Exists
  <2>4. token' \in [Tokens -> Grant] /\ GrantsNameAccounts' /\ Persist
    <3>1. CASE req[r].op = "convidar"
      BY <2>1, <2>3, <3>1, IssuedType DEF TokenForNew, GrantsForNew, GrantKind
    <3>2. CASE req[r].op # "convidar"
      BY <1>0, <2>1, <2>3, <3>2 DEF TokenForNew, GrantsNameAccounts, Persist, Exists
    <3>3. QED
      BY <3>1, <3>2
  <2>5. trilha' \in AuditRow
    BY <1>0, <2>1, AuditOK, OpSets DEF Request, Status
  <2>6. QED
    BY <1>0, <2>1, <2>3, <2>4, <2>5, CloseOK
<1>15. CASE CommitEntry(r)
  <2>1. Exists(req[r].alvo) /\ req[r].alvo \in Users
    BY <1>0, <1>15 DEF CommitEntry, RequestOK, Exists
  <2>2. trilha' \in AuditRow
    BY <1>15, <2>1, AuditOK, IdleOK, OpSets DEF CommitEntry, Unaudited, Status
  <2>3. /\ Close(r) /\ usuario' = usuario /\ token' = token
        /\ sessaoViva' = sessaoViva \union {req[r].alvo}
    BY <1>15 DEF CommitEntry
  <2>4. GrantsNameAccounts' /\ Persist
    BY <1>0, <2>3 DEF GrantsNameAccounts, Persist, Exists
  <2>5. QED
    BY <1>0, <2>1, <2>2, <2>3, <2>4, CloseOK
<1>16. CASE Refuse(r)
  BY <1>16, ReadOnlyClose DEF Refuse
<1>17. QED
  BY <1>1, <1>2, <1>3, <1>4, <1>5, <1>6, <1>7, <1>8, <1>9, <1>10,
     <1>11, <1>12, <1>13, <1>14, <1>15, <1>16 DEF Step

LEMMA InitType == Init => TInv
<1> SUFFICES ASSUME Init PROVE TInv
  OBVIOUS
<1>1. PICK f \in [Founders -> People] :
          usuario = [u \in Users |->
              IF u \in Founders
              THEN [status |-> "ativo", perfil |-> "gestor", person |-> f[u],
                    senha |-> TRUE, anonimizado |-> FALSE]
              ELSE NoRow]
  BY DEF Init
<1>2. usuario \in [Users -> Row]
  BY <1>1 DEF Row, NoRow, Status, Perfil
<1>3. token \in [Tokens -> Grant] /\ GrantsNameAccounts
  BY DEF Init, NoGrant, Grant, GrantKind, GrantState, GrantsNameAccounts
<1>4. \A r \in Requests : req[r] = Idle
  BY DEF Init
<1>5. \A r \in Requests : RequestOK(req[r])
  BY <1>4, IdleOK
<1>6. TypeOK
  BY <1>2, <1>3, IdleOK DEF Init, TypeOK
<1>7. QED
  BY <1>3, <1>5, <1>6 DEF TInv

LEMMA NextType == TInv /\ [Next]_vars => TInv'
<1> SUFFICES ASSUME TInv, [Next]_vars PROVE TInv'
  OBVIOUS
<1>1. CASE \E r \in Requests : Arrive(r)
  BY <1>1, ArriveType
<1>2. CASE \E r \in Requests : Step(r)
  BY <1>2, StepType
<1>3. CASE \E r \in Requests : Abort(r)
  BY <1>3, ReadOnlyClose DEF Abort
<1>4. CASE \E t \in Tokens : Expire(t)
  <2>1. PICK t \in Tokens : Expire(t)
    BY <1>4
  <2>2. /\ token \in [Tokens -> Grant] /\ token[t].estado = "aberto"
        /\ token' = [token EXCEPT ![t].estado = "vencido"]
        /\ usuario' = usuario /\ sessaoViva' = sessaoViva /\ req' = req
        /\ gestorLock' = gestorLock /\ rowLock' = rowLock /\ trilha' = NoAudit
    BY <2>1 DEF Expire, Unaudited, Locks, TInv, TypeOK
  <2>3. /\ token' \in [Tokens -> Grant]
        /\ \A s \in Tokens : token'[s].alvo = token[s].alvo
        /\ \A s \in Tokens : (token'[s].estado # "livre") <=> (token[s].estado # "livre")
    BY <2>2 DEF Grant, GrantState
  <2>4. TypeOK' /\ GrantsNameAccounts'
    BY <2>2, <2>3, IdleOK DEF TInv, TypeOK, GrantsNameAccounts, Exists
  <2>5. \A r \in Requests : RequestOK(req[r])'
    BY <2>2, <2>3 DEF TInv, RequestOK, Exists
  <2>6. QED
    BY <2>4, <2>5 DEF TInv
<1>5. CASE \E u \in Users : Logout(u)
  <2>1. PICK u \in Users : Logout(u)
    BY <1>5
  <2>2. /\ sessaoViva' = sessaoViva \ {u}
        /\ usuario' = usuario /\ token' = token /\ req' = req
        /\ gestorLock' = gestorLock /\ rowLock' = rowLock
        /\ Audit("logout", u, u, "ausente")
    BY <2>1 DEF Logout, Locks
  <2>3. trilha' \in AuditRow
    BY <2>2, AuditOK DEF Status
  <2>4. TypeOK' /\ GrantsNameAccounts'
    BY <2>2, <2>3 DEF TInv, TypeOK, GrantsNameAccounts, Exists
  <2>5. \A r \in Requests : RequestOK(req[r])'
    BY <2>2 DEF TInv, RequestOK, Exists
  <2>6. QED
    BY <2>4, <2>5 DEF TInv
<1>6. CASE UNCHANGED vars
  BY <1>6 DEF vars, TInv, TypeOK, RequestOK, GrantsNameAccounts, Exists
<1>7. QED
  BY <1>1, <1>2, <1>3, <1>4, <1>5, <1>6 DEF Next

\* In every reachable state the tables, the locks and the open transactions have
\* their types, and whatever a request or a grant names exists: nothing the
\* services write leaves the columns' ranges (models.py, migration 0001).
THEOREM TypeCorrect == Spec => []TypeOK
<1>1. TInv => TypeOK
  BY DEF TInv
<1>2. QED
  BY InitType, NextType, <1>1, PTL DEF Spec

-----------------------------------------------------------------------------
(* The shape of a step: a transaction goes on and the database stays, or it  *)
(* ends.                                                                     *)

Advances(r) ==
    /\ ReadOnly
    /\ \A s \in Requests : s # r => req'[s] = req[s]
    /\ req'[r].op = req[r].op /\ req'[r].alvo = req[r].alvo
    /\ req'[r].ator = req[r].ator /\ req'[r].perfil = req[r].perfil

LEMMA MoveAdvances ==
    ASSUME TInv, NEW r \in Requests, NEW fase, Move(r, fase), ReadOnly
    PROVE  /\ Advances(r) /\ req'[r].fase = fase
           /\ req'[r].visto = req[r].visto /\ req'[r].senha = req[r].senha
           /\ req'[r].token = req[r].token /\ req'[r].falta = req[r].falta
  BY DEF Move, Advances, TInv, TypeOK, Request

LEMMA CloseOthers ==
    ASSUME TInv, NEW r \in Requests, Close(r)
    PROVE  /\ req'[r] = Idle
           /\ \A s \in Requests : s # r => req'[s] = req[s]
           /\ \A u \in Users : rowLock'[u] = IF rowLock[u] = r THEN Nobody ELSE rowLock[u]
  BY DEF Close, TInv, TypeOK

\* The steps that open nothing for the request but the next phase.
LEMMA DecideAdvances ==
    ASSUME TInv, NEW r \in Requests, DecideChange(r) \/ ReadUnblock(r)
    PROVE  Advances(r) /\ req'[r].fase = "lido" /\ UNCHANGED Locks
<1>0. req \in [Requests -> Request] /\ req[r] \in Request
  BY DEF TInv, TypeOK
<1>1. CASE DecideChange(r)
  BY <1>0, <1>1 DEF DecideChange, Open, Advances, Request
<1>2. CASE ReadUnblock(r)
  BY <1>0, <1>2 DEF ReadUnblock, Open, Advances, Request
<1>3. QED
  BY <1>1, <1>2

LEMMA TriggerAdvances ==
    ASSUME TInv, NEW r \in Requests, Trigger(r)
    PROVE  /\ Advances(r) /\ req'[r].fase = "gatilho" /\ UNCHANGED Locks
           /\ req'[r].falta = OtherActiveGestores(req[r].alvo)
           /\ req'[r].visto = req[r].visto /\ req'[r].senha = req[r].senha
  BY DEF Trigger, Open, Advances, TInv, TypeOK, Request

LEMMA LockOtherAdvances ==
    ASSUME TInv, NEW r \in Requests, NEW g \in req[r].falta, ReadOnly,
           Open(r, [req[r] EXCEPT !.falta = @ \ {g}])
    PROVE  /\ Advances(r) /\ req'[r].fase = req[r].fase
           /\ req'[r].falta = req[r].falta \ {g}
           /\ req'[r].visto = req[r].visto /\ req'[r].senha = req[r].senha
  BY DEF Open, Advances, TInv, TypeOK, Request

LEMMA CancelAdvances ==
    ASSUME TInv, NEW r \in Requests, CancelOpen(r) \/ LockGrant(r)
    PROVE  Advances(r) /\ req'[r].fase \in {"cancela", "cancelado"} /\ UNCHANGED Locks
<1>0. req \in [Requests -> Request] /\ req[r] \in Request
  BY DEF TInv, TypeOK
<1>1. CASE CancelOpen(r)
  <2>1. CASE Move(r, "cancelado")
    BY <1>1, <2>1, MoveAdvances DEF CancelOpen
  <2>2. CASE ~Move(r, "cancelado")
    <3>1. PICK t \in Tokens : Open(r, [req[r] EXCEPT !.fase = "cancela", !.token = t])
      BY <1>1, <2>2 DEF CancelOpen
    <3>2. QED
      BY <1>0, <1>1, <3>1 DEF CancelOpen, Open, Advances, Request
  <2>3. QED
    BY <2>1, <2>2
<1>2. CASE LockGrant(r)
  BY <1>0, <1>2 DEF LockGrant, Open, Advances, Request
<1>3. QED
  BY <1>1, <1>2

\* A step of an open transaction advances it or ends it.
LEMMA Progress ==
    ASSUME TInv, NEW r \in Requests, Step(r) \/ Abort(r)
    PROVE  \/ Advances(r)
           \/ Close(r) /\ ReadOnly
           \/ CommitRow(r) \/ CommitGrant(r) \/ CommitNew(r) \/ CommitEntry(r)
<1>1. CASE LockOther(r)
  BY <1>1, LockOtherAdvances DEF LockOther
<1>2. CASE \E fase : Move(r, fase) /\ ReadOnly
  BY <1>2, MoveAdvances
<1>3. QED
  BY <1>1, <1>2, DecideAdvances, TriggerAdvances, CancelAdvances
     DEF Step, Abort, LockGestores, NothingToChange, RefuseLastGestor, ReadForGrant, CheckInvite,
         CheckBootstrap, SpendGrant, LockRow, FlushRow, TriggerPasses, RecordDeactivation,
         InsertGrant, Refuse

\* A request that arrives was idle, and is the only one to change.
LEMMA Arrival ==
    ASSUME TInv, NEW r \in Requests, Arrive(r)
    PROVE  /\ ReadOnly /\ UNCHANGED Locks /\ req[r].fase = "livre"
           /\ \A s \in Requests : s # r => req'[s] = req[s]
           /\ req'[r].fase \in {"autorizado", "resgate", "escrito"}
           /\ req'[r].fase = "escrito" => req'[r].op \in NewOps \union EnterOps
<1>0. req \in [Requests -> Request]
  BY DEF TInv, TypeOK
<1>1. CASE BeginMemberChange(r)
  BY <1>0, <1>1 DEF BeginMemberChange, Begin, Open, Idle
<1>2. CASE BeginInvite(r)
  BY <1>0, <1>2 DEF BeginInvite, Open, Idle
<1>3. CASE BeginBootstrap(r)
  BY <1>0, <1>3 DEF BeginBootstrap, Open, Idle
<1>4. CASE ReadGrant(r)
  BY <1>0, <1>4 DEF ReadGrant, Open, Idle
<1>5. CASE CheckSeed(r)
  BY <1>0, <1>5, OpSets DEF CheckSeed, Open, Idle
<1>6. CASE ReadToEnter(r)
  BY <1>0, <1>6, OpSets DEF ReadToEnter, Open, Idle
<1>7. QED
  BY <1>1, <1>2, <1>3, <1>4, <1>5, <1>6 DEF Arrive

\* The steps that leave the usuario table alone.
LEMMA TableSteps ==
    ASSUME TInv, [Next]_vars
    PROVE  \/ usuario' = usuario
           \/ \E r \in Requests : CommitRow(r)
           \/ \E r \in Requests : CommitNew(r)
<1>1. ASSUME NEW r \in Requests, Step(r) \/ Abort(r)
      PROVE  usuario' = usuario \/ CommitRow(r) \/ CommitNew(r)
  BY <1>1, Progress DEF Advances, ReadOnly, CommitGrant, CommitEntry
<1>2. ASSUME NEW r \in Requests, Arrive(r) PROVE usuario' = usuario
  BY <1>2, Arrival DEF ReadOnly
<1>3. QED
  BY <1>1, <1>2 DEF Next, vars, Expire, Logout

-----------------------------------------------------------------------------
(* What the row locks of a request guarantee until it ends.                  *)

Flushed(r) == /\ req[r].op \in RowOps
              /\ req[r].fase \in {"na_linha", "gatilho", "escrito", "auditado"}
Written(r) == /\ req[r].op \in RowOps
              /\ req[r].fase \in {"escrito", "auditado"}

\* A flush holds the row lock on its target.
HoldsTarget(r) == Flushed(r) => rowLock[req[r].alvo] = r

\* A write that removes an active gestor holds the row of one who stays.
HoldsKeeper(r) ==
    Written(r) /\ LeavesGestores(r)
        => \E g \in OtherActiveGestores(req[r].alvo) : rowLock[g] = r

\* A write that is ready to commit satisfies the CHECKs of the table; what
\* deactivate still has to write is checked at its last statement.
PassedChecks(r) ==
    Written(r) /\ req[r].op # "desativar" => ChecksHold(NewRow(r))

LockedRowsExist == \A u \in Users : rowLock[u] # Nobody => Exists(u)

LInv ==
    /\ TInv
    /\ \A r \in Requests : HoldsTarget(r) /\ HoldsKeeper(r) /\ PassedChecks(r)
    /\ LockedRowsExist

\* A step that leaves request r alone, keeps its row locks and does not touch
\* the rows it has locked keeps what r was promised.
LEMMA Undisturbed ==
    ASSUME LInv, NEW r \in Requests, req'[r] = req[r],
           \A u \in Users : rowLock[u] = r => rowLock'[u] = r /\ usuario'[u] = usuario[u]
    PROVE  /\ HoldsTarget(r)' /\ HoldsKeeper(r)' /\ PassedChecks(r)'
<1>1. RequestOK(req[r]) /\ HoldsTarget(r) /\ HoldsKeeper(r) /\ PassedChecks(r)
  BY DEF LInv, TInv
<1>2. HoldsTarget(r)'
  BY <1>1 DEF HoldsTarget, Flushed, RequestOK, Exists
<1>3. SUFFICES ASSUME Written(r)' PROVE HoldsKeeper(r)' /\ PassedChecks(r)'
  BY <1>2 DEF HoldsKeeper, PassedChecks
<1>4. Written(r) /\ Flushed(r) /\ req[r].alvo \in Users
  BY <1>1, <1>3 DEF Written, Flushed, RequestOK, Exists
<1>5. usuario'[req[r].alvo] = usuario[req[r].alvo]
  BY <1>1, <1>4 DEF HoldsTarget
<1>6. NewRow(r)' = NewRow(r) /\ LeavesGestores(r)' = LeavesGestores(r)
  BY <1>5 DEF NewRow, LeavesGestores
<1>7. PassedChecks(r)'
  BY <1>1, <1>4, <1>6 DEF PassedChecks
<1>8. HoldsKeeper(r)'
  <2>1. SUFFICES ASSUME LeavesGestores(r)
                 PROVE  (\E g \in OtherActiveGestores(req[r].alvo) : rowLock[g] = r)'
    BY <1>6 DEF HoldsKeeper
  <2>2. PICK g \in OtherActiveGestores(req[r].alvo) : rowLock[g] = r
    BY <1>1, <1>4, <2>1 DEF HoldsKeeper
  <2>3. g \in Users /\ IsActiveGestor(usuario[g]) /\ g # req[r].alvo
    BY DEF OtherActiveGestores, ActiveGestores
  <2>4. rowLock'[g] = r /\ usuario'[g] = usuario[g]
    BY <2>2, <2>3
  <2>5. g \in OtherActiveGestores(req[r].alvo)'
    BY <2>3, <2>4 DEF OtherActiveGestores, ActiveGestores
  <2>6. QED
    BY <2>4, <2>5
<1>9. QED
  BY <1>2, <1>7, <1>8

\* A request that is not past its flush was promised nothing yet.
LEMMA NotFlushed ==
    ASSUME NEW r \in Requests, ~Flushed(r)'
    PROVE  HoldsTarget(r)' /\ HoldsKeeper(r)' /\ PassedChecks(r)'
  BY DEF Flushed, Written, HoldsTarget, HoldsKeeper, PassedChecks

\* A step that changes no row of usuario and no row lock, and takes request r
\* to a state that is not past its flush.
LEMMA QuietStep ==
    ASSUME LInv, TInv', NEW r \in Requests, ~Flushed(r)',
           \A s \in Requests : s # r => req'[s] = req[s],
           usuario' = usuario, rowLock' = rowLock
    PROVE  LInv'
<1>1. \A s \in Requests : HoldsTarget(s)' /\ HoldsKeeper(s)' /\ PassedChecks(s)'
  BY NotFlushed, Undisturbed
<1>2. LockedRowsExist'
  BY DEF LInv, LockedRowsExist, Exists
<1>3. QED
  BY <1>1, <1>2 DEF LInv

\* The end of a transaction: rows change only where it holds the lock or where
\* no account was.
LEMMA CloseStep ==
    ASSUME LInv, TInv', Persist, NEW r \in Requests, Close(r),
           \A u \in Users : usuario'[u] = usuario[u] \/ rowLock[u] = r \/ ~Exists(u)
    PROVE  LInv'
<1>1. \A s \in Requests : HoldsTarget(s)' /\ HoldsKeeper(s)' /\ PassedChecks(s)'
  <2>1. SUFFICES ASSUME NEW s \in Requests
                 PROVE  HoldsTarget(s)' /\ HoldsKeeper(s)' /\ PassedChecks(s)'
    OBVIOUS
  <2>2. CASE s = r
    BY <2>2, CloseOthers, NotFlushed DEF LInv, Flushed, Idle
  <2>3. CASE s # r
    <3>1. req'[s] = req[s] /\ s # Nobody
      BY <2>3, CloseOthers DEF LInv
    <3>2. ASSUME NEW u \in Users, rowLock[u] = s
          PROVE  rowLock'[u] = s /\ usuario'[u] = usuario[u]
      BY <2>3, <3>1, <3>2, CloseOthers DEF LInv, LockedRowsExist
    <3>3. QED
      BY <3>1, <3>2, Undisturbed
  <2>4. QED
    BY <2>2, <2>3
<1>2. LockedRowsExist'
  BY CloseOthers DEF LInv, LockedRowsExist, Persist
<1>3. QED
  BY <1>1, <1>2 DEF LInv

LEMMA ReadOnlyCloseStep ==
    ASSUME LInv, TInv', NEW r \in Requests, Close(r), ReadOnly
    PROVE  LInv'
<1>1. usuario' = usuario /\ token' = token
  BY DEF ReadOnly
<1>2. Persist
  BY <1>1 DEF Persist, Exists
<1>3. QED
  BY <1>1, <1>2, CloseStep

-----------------------------------------------------------------------------
(* One step per action.                                                      *)

LEMMA ArriveLocks ==
    ASSUME LInv, TInv', NEW r \in Requests, Arrive(r)
    PROVE  LInv'
<1>1. ~Flushed(r)'
  BY Arrival, OpSets DEF LInv, Flushed
<1>2. usuario' = usuario /\ rowLock' = rowLock
  BY Arrival DEF LInv, ReadOnly, Locks
<1>3. QED
  BY <1>1, <1>2, Arrival, QuietStep DEF LInv

\* A step that gives r at most the lock of one more row.
LEMMA LockingStep ==
    ASSUME LInv, TInv', NEW r \in Requests, NEW u \in Users, Exists(u), Advances(r),
           rowLock[u] \in {Nobody, r}, rowLock' \in {rowLock, [rowLock EXCEPT ![u] = r]},
           HoldsTarget(r)', HoldsKeeper(r)', PassedChecks(r)'
    PROVE  LInv'
<1>0. rowLock \in [Users -> Requests \union {Nobody}] /\ usuario' = usuario
  BY DEF LInv, TInv, TypeOK, Advances, ReadOnly
<1>1. ASSUME NEW s \in Requests, s # r
      PROVE  HoldsTarget(s)' /\ HoldsKeeper(s)' /\ PassedChecks(s)'
  <2>1. \A v \in Users : rowLock[v] = s => rowLock'[v] = s /\ usuario'[v] = usuario[v]
    BY <1>0, <1>1
  <2>2. QED
    BY <1>1, <2>1, Undisturbed DEF Advances
<1>2. LockedRowsExist'
  BY <1>0 DEF LInv, LockedRowsExist, Exists
<1>3. QED
  BY <1>1, <1>2 DEF LInv

\* What the flush is about to write stays while only the request's phase changes.
LEMMA SameWrite ==
    ASSUME TInv, NEW r \in Requests, Advances(r),
           req'[r].visto = req[r].visto, req'[r].senha = req[r].senha
    PROVE  /\ NewRow(r)' = NewRow(r) /\ LeavesGestores(r)' = LeavesGestores(r)
           /\ OtherActiveGestores(req[r].alvo)' = OtherActiveGestores(req[r].alvo)
  BY DEF Advances, ReadOnly, NewRow, LeavesGestores, OtherActiveGestores, ActiveGestores

LEMMA LockRowLocks ==
    ASSUME LInv, TInv', NEW r \in Requests, LockRow(r)
    PROVE  LInv'
<1>0. /\ rowLock \in [Users -> Requests \union {Nobody}] /\ RequestOK(req[r]) /\ TInv
  BY DEF LInv, TInv, TypeOK
<1>1. /\ req[r].op \in RowOps /\ Exists(req[r].alvo) /\ req[r].alvo \in Users
      /\ FlushBlockers(req[r].alvo, r) = {}
      /\ rowLock' = [rowLock EXCEPT ![req[r].alvo] = r]
      /\ Move(r, "na_linha") /\ ReadOnly
  BY <1>0 DEF LockRow, RequestOK, Exists
<1>2. rowLock[req[r].alvo] \in {Nobody, r}
  BY <1>0, <1>1 DEF FlushBlockers, KeyBlockers
<1>3. Advances(r) /\ req'[r].fase = "na_linha" /\ req'[r].alvo = req[r].alvo
  BY <1>0, <1>1, MoveAdvances DEF Advances
<1>4. HoldsTarget(r)' /\ HoldsKeeper(r)' /\ PassedChecks(r)'
  BY <1>0, <1>1, <1>3 DEF HoldsTarget, HoldsKeeper, PassedChecks, Written
<1>5. QED
  BY <1>1, <1>2, <1>3, <1>4, LockingStep

\* The flush that is none of the trigger's concern passed the CHECKs.
LEMMA FlushRowLocks ==
    ASSUME LInv, TInv', NEW r \in Requests, FlushRow(r)
    PROVE  LInv'
<1>0. TInv /\ RequestOK(req[r]) /\ HoldsTarget(r) /\ req[r] \in Request
  BY DEF LInv, TInv, TypeOK
<1>1. /\ Move(r, "escrito") /\ ReadOnly /\ rowLock' = rowLock
      /\ req[r].fase = "na_linha" /\ ~LeavesGestores(r) /\ FlushChecked(r)
  BY DEF FlushRow, Locks
<1>2. /\ Advances(r) /\ req'[r].visto = req[r].visto /\ req'[r].senha = req[r].senha
  BY <1>0, <1>1, MoveAdvances DEF Advances
<1>3. NewRow(r)' = NewRow(r) /\ LeavesGestores(r)' = LeavesGestores(r)
  BY <1>0, <1>2, SameWrite
<1>4. req[r].op \in RowOps /\ Exists(req[r].alvo) /\ rowLock[req[r].alvo] = r
  BY <1>0, <1>1 DEF RequestOK, PhaseFits, HoldsTarget, Flushed
<1>5. HoldsTarget(r)' /\ HoldsKeeper(r)' /\ PassedChecks(r)'
  BY <1>1, <1>2, <1>3, <1>4 DEF HoldsTarget, HoldsKeeper, PassedChecks, FlushChecked, Advances
<1>6. QED
  BY <1>1, <1>2, <1>4, <1>5, LockingStep DEF Exists

LEMMA TriggerLocks ==
    ASSUME LInv, TInv', NEW r \in Requests, Trigger(r)
    PROVE  LInv'
<1>0. TInv /\ RequestOK(req[r]) /\ HoldsTarget(r)
  BY DEF LInv, TInv
<1>1. req[r].op \in RowOps /\ Exists(req[r].alvo) /\ rowLock[req[r].alvo] = r
  BY <1>0 DEF Trigger, RequestOK, PhaseFits, HoldsTarget, Flushed
<1>2. Advances(r) /\ req'[r].fase = "gatilho" /\ rowLock' = rowLock
  BY <1>0, TriggerAdvances DEF Locks
<1>3. HoldsTarget(r)' /\ HoldsKeeper(r)' /\ PassedChecks(r)'
  BY <1>1, <1>2 DEF HoldsTarget, HoldsKeeper, PassedChecks, Written, Advances
<1>4. QED
  BY <1>1, <1>2, <1>3, LockingStep DEF Exists

LEMMA LockOtherLocks ==
    ASSUME LInv, TInv', NEW r \in Requests, LockOther(r)
    PROVE  LInv'
<1>0. /\ TInv /\ RequestOK(req[r]) /\ HoldsTarget(r)
      /\ rowLock \in [Users -> Requests \union {Nobody}]
  BY DEF LInv, TInv, TypeOK
<1>1. PICK g \in req[r].falta :
          /\ req[r].fase = "gatilho" /\ KeyBlockers(g, r) = {}
          /\ rowLock' = [rowLock EXCEPT ![g] = r]
          /\ Open(r, [req[r] EXCEPT !.falta = @ \ {g}]) /\ ReadOnly
  BY DEF LockOther
<1>2. Exists(g) /\ g \in Users /\ rowLock[g] \in {Nobody, r}
  BY <1>0, <1>1 DEF RequestOK, Exists, KeyBlockers
<1>3. Advances(r) /\ req'[r].fase = "gatilho"
  BY <1>0, <1>1, LockOtherAdvances
<1>4. req[r].op \in RowOps /\ Exists(req[r].alvo) /\ rowLock[req[r].alvo] = r
  BY <1>0, <1>1 DEF RequestOK, PhaseFits, HoldsTarget, Flushed
<1>5. HoldsTarget(r)' /\ HoldsKeeper(r)' /\ PassedChecks(r)'
  BY <1>0, <1>1, <1>3, <1>4 DEF HoldsTarget, HoldsKeeper, PassedChecks, Written, Advances, Exists
<1>6. QED
  BY <1>1, <1>2, <1>3, <1>5, LockingStep

\* The trigger lets a removal through only after it has locked a gestor who stays.
LEMMA TriggerPassesLocks ==
    ASSUME LInv, TInv', NEW r \in Requests, TriggerPasses(r)
    PROVE  LInv'
<1>0. TInv /\ RequestOK(req[r]) /\ HoldsTarget(r) /\ req[r] \in Request
  BY DEF LInv, TInv, TypeOK
<1>1. /\ Move(r, "escrito") /\ ReadOnly /\ rowLock' = rowLock
      /\ req[r].fase = "gatilho" /\ Restantes(r) # {} /\ FlushChecked(r)
  BY DEF TriggerPasses, Locks
<1>2. /\ Advances(r) /\ req'[r].visto = req[r].visto /\ req'[r].senha = req[r].senha
      /\ req'[r].alvo = req[r].alvo /\ req'[r].op = req[r].op
  BY <1>0, <1>1, MoveAdvances DEF Advances
<1>3. /\ NewRow(r)' = NewRow(r)
      /\ OtherActiveGestores(req[r].alvo)' = OtherActiveGestores(req[r].alvo)
  BY <1>0, <1>2, SameWrite
<1>4. req[r].op \in RowOps /\ Exists(req[r].alvo) /\ rowLock[req[r].alvo] = r
  BY <1>0, <1>1 DEF RequestOK, PhaseFits, HoldsTarget, Flushed
<1>5. HoldsTarget(r)' /\ PassedChecks(r)'
  BY <1>1, <1>2, <1>3, <1>4 DEF HoldsTarget, PassedChecks, FlushChecked
<1>6. HoldsKeeper(r)'
  BY <1>1, <1>3 DEF HoldsKeeper, Restantes
<1>7. QED
  BY <1>1, <1>2, <1>4, <1>5, <1>6, LockingStep DEF Exists

LEMMA RecordLocks ==
    ASSUME LInv, TInv', NEW r \in Requests, RecordDeactivation(r)
    PROVE  LInv'
<1>0. TInv /\ RequestOK(req[r]) /\ HoldsTarget(r) /\ HoldsKeeper(r) /\ req[r] \in Request
  BY DEF LInv, TInv, TypeOK
<1>1. /\ Move(r, "auditado") /\ ReadOnly /\ rowLock' = rowLock
      /\ req[r].fase = "escrito" /\ req[r].op = "desativar" /\ req[r].op \in RowOps
  BY OpSets DEF RecordDeactivation, Locks
<1>2. /\ Advances(r) /\ req'[r].visto = req[r].visto /\ req'[r].senha = req[r].senha
      /\ req'[r].alvo = req[r].alvo /\ req'[r].op = req[r].op
  BY <1>0, <1>1, MoveAdvances DEF Advances
<1>3. /\ LeavesGestores(r)' = LeavesGestores(r)
      /\ OtherActiveGestores(req[r].alvo)' = OtherActiveGestores(req[r].alvo)
  BY <1>0, <1>2, SameWrite
<1>4. Exists(req[r].alvo) /\ rowLock[req[r].alvo] = r
  BY <1>0, <1>1 DEF RequestOK, HoldsTarget, Flushed
<1>5. HoldsTarget(r)' /\ PassedChecks(r)'
  BY <1>1, <1>2, <1>4 DEF HoldsTarget, PassedChecks
<1>6. HoldsKeeper(r)'
  BY <1>0, <1>1, <1>3 DEF HoldsKeeper, Written
<1>7. QED
  BY <1>1, <1>2, <1>4, <1>5, <1>6, LockingStep DEF Exists

LEMMA CommitRowLocks ==
    ASSUME LInv, TInv', NEW r \in Requests, CommitRow(r)
    PROVE  LInv' /\ Persist
<1>0. TInv /\ RequestOK(req[r]) /\ HoldsTarget(r) /\ usuario \in [Users -> Row]
      /\ token \in [Tokens -> Grant]
  BY DEF LInv, TInv, TypeOK
<1>1. /\ req[r].op \in RowOps /\ req[r].alvo \in Users /\ rowLock[req[r].alvo] = r
      /\ usuario' = [usuario EXCEPT ![req[r].alvo] = NewRow(r)] /\ Close(r)
  BY <1>0 DEF CommitRow, LastStatement, HoldsTarget, Flushed, RequestOK, Exists
<1>2. Persist
  <2>1. NewRow(r).status # "ausente"
    BY <1>0, <1>1, NewRowType
  <2>2. \A u \in Users : Exists(u) => Exists(u)'
    BY <1>0, <1>1, <2>1 DEF Exists
  <2>3. token' = token \/ token' = [token EXCEPT ![req[r].token].estado = "utilizado"]
    BY DEF CommitRow, TokenAfter
  <2>4. \A t \in Tokens : token[t].estado # "livre" => token'[t].estado # "livre"
    BY <1>0, <2>3 DEF Grant
  <2>5. QED
    BY <2>2, <2>4 DEF Persist
<1>3. \A u \in Users : usuario'[u] = usuario[u] \/ rowLock[u] = r
  BY <1>0, <1>1
<1>4. QED
  BY <1>1, <1>2, <1>3, CloseStep

LEMMA CommitNewLocks ==
    ASSUME LInv, TInv', NEW r \in Requests, CommitNew(r)
    PROVE  LInv'
<1>0. TInv /\ RequestOK(req[r]) /\ usuario \in [Users -> Row] /\ token \in [Tokens -> Grant]
  BY DEF LInv, TInv, TypeOK
<1>1. PICK u \in Users, t \in GrantsForNew(r) :
          /\ usuario[u].status = "ausente"
          /\ usuario' = [usuario EXCEPT ![u] = NewAccount(r)]
          /\ token' = TokenForNew(r, u, t) /\ Close(r)
  BY DEF CommitNew
<1>2. NewAccount(r).status # "ausente"
  BY DEF NewAccount
<1>3. \A v \in Users : Exists(v) => Exists(v)'
  BY <1>0, <1>1, <1>2 DEF Exists
<1>4. Exists(u)'
  BY <1>0, <1>1, <1>2 DEF Exists
<1>5. Persist
  BY <1>0, <1>1, <1>3, <1>4, IssuedType DEF TokenForNew, GrantsForNew, Persist, GrantKind
<1>6. \A v \in Users : usuario'[v] = usuario[v] \/ ~Exists(v)
  BY <1>0, <1>1 DEF Exists
<1>7. QED
  BY <1>1, <1>5, <1>6, CloseStep

LEMMA StepLocks ==
    ASSUME LInv, TInv', NEW r \in Requests, Step(r)
    PROVE  LInv'
<1>0. TInv /\ RequestOK(req[r]) /\ req \in [Requests -> Request]
      /\ token \in [Tokens -> Grant]
  BY DEF LInv, TInv, TypeOK
<1>1. CASE \/ LockGestores(r) \/ RefuseLastGestor(r) \/ ReadForGrant(r) \/ CheckInvite(r)
         \/ CheckBootstrap(r) \/ SpendGrant(r) \/ InsertGrant(r)
  <2>1. PICK fase \in {"travado", "recusado", "lido", "escrito"} :
            /\ Move(r, fase) /\ ReadOnly /\ rowLock' = rowLock
            /\ fase = "escrito" => req[r].op \notin RowOps
    <3>1. CASE InsertGrant(r)
      BY <1>0, <3>1, OpSets DEF InsertGrant, RequestOK, PhaseFits, Locks
    <3>2. CASE ~InsertGrant(r)
      BY <1>1, <3>2, OpSets
         DEF LockGestores, RefuseLastGestor, ReadForGrant, CheckInvite, CheckBootstrap,
             SpendGrant, Locks
    <3>3. QED
      BY <3>1, <3>2
  <2>2. Advances(r) /\ req'[r].fase = fase
    BY <1>0, <2>1, MoveAdvances
  <2>3. QED
    BY <2>1, <2>2, QuietStep DEF Flushed, Advances, ReadOnly
<1>2. CASE DecideChange(r) \/ ReadUnblock(r) \/ CancelOpen(r) \/ LockGrant(r)
  <2>1. /\ Advances(r) /\ req'[r].fase \in {"lido", "cancela", "cancelado"}
        /\ rowLock' = rowLock
    BY <1>0, <1>2, DecideAdvances, CancelAdvances DEF Locks
  <2>2. QED
    BY <2>1, QuietStep DEF Flushed, Advances, ReadOnly
<1>3. CASE LockRow(r) \/ FlushRow(r)
  BY <1>3, LockRowLocks, FlushRowLocks
<1>4. CASE Trigger(r) \/ LockOther(r) \/ TriggerPasses(r)
  BY <1>4, TriggerLocks, LockOtherLocks, TriggerPassesLocks
<1>5. CASE RecordDeactivation(r)
  BY <1>5, RecordLocks
<1>6. CASE CommitRow(r)
  BY <1>6, CommitRowLocks
<1>7. CASE CommitNew(r)
  BY <1>7, CommitNewLocks
<1>8. CASE CommitEntry(r)
  <2>1. usuario' = usuario /\ token' = token /\ Close(r)
    BY <1>8 DEF CommitEntry
  <2>2. Persist
    BY <2>1 DEF Persist, Exists
  <2>3. QED
    BY <2>1, <2>2, CloseStep
<1>9. CASE CommitGrant(r)
  <2>1. PICK t \in Tokens :
            token' = Issued(req[r].alvo, KindOf(req[r].op), t, req[r].token)
    BY <1>9 DEF CommitGrant
  <2>2. usuario' = usuario /\ Close(r) /\ req[r].op \in GrantOps
    BY <1>9 DEF CommitGrant
  <2>3. /\ req[r].alvo \in Users /\ usuario'[req[r].alvo].status # "ausente"
        /\ \A v \in Users : Exists(v) => Exists(v)'
    BY <1>0, <2>2 DEF RequestOK, Exists
  <2>4. Persist
    BY <1>0, <2>1, <2>3, IssuedType DEF GrantKind, KindOf, RequestOK, Exists
  <2>5. QED
    BY <2>2, <2>4, CloseStep
<1>10. CASE NothingToChange(r) \/ Refuse(r)
  BY <1>10, ReadOnlyCloseStep DEF NothingToChange, Refuse
<1>11. QED
  BY <1>1, <1>5, <1>2, <1>3, <1>4, <1>6, <1>7, <1>8, <1>9, <1>10 DEF Step

LEMMA InitLocks == Init => LInv
<1> SUFFICES ASSUME Init PROVE LInv
  OBVIOUS
<1>1. \A r \in Requests : ~Flushed(r)
  BY DEF Init, Idle, Flushed
<1>2. QED
  BY <1>1, InitType DEF Init, LInv, Flushed, Written, HoldsTarget, HoldsKeeper, PassedChecks,
                        LockedRowsExist

LEMMA NextLocks == LInv /\ [Next]_vars => LInv'
<1> SUFFICES ASSUME LInv, [Next]_vars PROVE LInv'
  OBVIOUS
<1>0. TInv'
  BY NextType DEF LInv
<1>1. CASE \E r \in Requests : Arrive(r)
  BY <1>0, <1>1, ArriveLocks
<1>2. CASE \E r \in Requests : Step(r)
  BY <1>0, <1>2, StepLocks
<1>3. CASE \E r \in Requests : Abort(r)
  BY <1>0, <1>3, ReadOnlyCloseStep DEF Abort
<1>4. CASE (\E t \in Tokens : Expire(t)) \/ (\E u \in Users : Logout(u)) \/ UNCHANGED vars
  <2>1. usuario' = usuario /\ rowLock' = rowLock /\ req' = req
    BY <1>4 DEF Expire, Logout, Locks, vars
  <2>2. \A s \in Requests : HoldsTarget(s)' /\ HoldsKeeper(s)' /\ PassedChecks(s)'
    BY <2>1, Undisturbed
  <2>3. QED
    BY <1>0, <2>1, <2>2 DEF LInv, LockedRowsExist, Exists
<1>5. QED
  BY <1>1, <1>2, <1>3, <1>4 DEF Next

-----------------------------------------------------------------------------
(* The last gestor.                                                          *)

\* Whoever commits, the active gestores change by one person at most, and the
\* last of them never leaves.
LEMMA GuardStep ==
    ASSUME LInv, TInv', [Next]_vars
    PROVE  [Guard!Next]_Managers
<1>0. TInv /\ usuario \in [Users -> Row]
  BY DEF LInv, TInv, TypeOK
<1>1. CASE usuario' = usuario
  BY <1>1 DEF Managers
<1>2. ASSUME NEW r \in Requests, CommitRow(r) PROVE [Guard!Next]_Managers
  <2> DEFINE u == req[r].alvo
  <2>1. /\ u \in Users /\ req[r].op \in RowOps /\ Written(r)
        /\ usuario' = [usuario EXCEPT ![u] = NewRow(r)]
    BY <1>2, <1>0 DEF CommitRow, LastStatement, LInv, TInv, RequestOK, Written, Exists
  <2>2. CASE LeavesGestores(r)
    <3>1. PICK g \in OtherActiveGestores(u) : rowLock[g] = r
      BY <1>2, <2>1, <2>2 DEF LInv, HoldsKeeper
    <3>2. u \in Managers /\ g \in Managers \ {u}
      BY <2>1, <2>2 DEF LeavesGestores, IsActiveGestor, Managers, OtherActiveGestores, ActiveGestores
    <3>3. Managers' = Managers \ {u}
      BY <1>0, <2>1, <2>2 DEF LeavesGestores, IsActiveGestor, Managers
    <3>4. QED
      BY <2>1, <3>2, <3>3 DEF Guard!Next, Guard!Leave
  <2>3. CASE ~LeavesGestores(r)
    <3>1. Managers' = Managers \/ Managers' = Managers \union {u}
      BY <1>0, <2>1, <2>3 DEF LeavesGestores, IsActiveGestor, Managers
    <3>2. QED
      BY <2>1, <3>1 DEF Guard!Next, Guard!Join
  <2>4. QED
    BY <2>2, <2>3
<1>3. ASSUME NEW r \in Requests, CommitNew(r) PROVE [Guard!Next]_Managers
  <2>1. PICK u \in Users : /\ usuario[u].status = "ausente"
                           /\ usuario' = [usuario EXCEPT ![u] = NewAccount(r)]
    BY <1>3 DEF CommitNew
  <2>2. Managers' = Managers \/ Managers' = Managers \union {u}
    BY <1>0, <2>1 DEF Managers
  <2>3. QED
    BY <2>1, <2>2 DEF Guard!Next, Guard!Join
<1>4. QED
  BY <1>0, <1>1, <1>2, <1>3, TableSteps

LEMMA GuardInit == Init => Guard!Init
<1> SUFFICES ASSUME Init PROVE Managers = Founders
  BY DEF Guard!Init
<1>1. PICK f \in [Founders -> People] :
          usuario = [u \in Users |->
              IF u \in Founders
              THEN [status |-> "ativo", perfil |-> "gestor", person |-> f[u],
                    senha |-> TRUE, anonimizado |-> FALSE]
              ELSE NoRow]
  BY DEF Init
<1>2. \A u \in Users : u \in Managers <=> u \in Founders
  BY <1>1 DEF Managers, NoRow
<1>3. QED
  BY <1>2, FoundersAssumption DEF Managers

\* Whatever blocks, deactivations, unblocks, activations and bootstraps run at
\* the same time, and for any number of them, the entity that has an active
\* gestor keeps one (AC-0001-29, DB13: _change_status and fn_ultimo_gestor).
THEOREM LastGestorRemains == Spec => ImplementsGestorGuard
<1>1. LInv /\ LInv' /\ [Next]_vars => [Guard!Next]_Managers
  BY GuardStep DEF LInv
<1>2. QED
  BY InitLocks, NextLocks, GuardInit, <1>1, PTL DEF Spec, ImplementsGestorGuard, Guard!Spec

-----------------------------------------------------------------------------
(* Credentials and addresses.                                                *)

\* No interleaving of a reset, an activation and a deactivation leaves a password
\* on an anonymised or a pending account (the CHECKs of migration 0001 hold of
\* the row as committed, not only of the row as read).
LEMMA PasswordsConsistent == Spec => []PasswordConsistency
<1>1. Init => PasswordConsistency
  <2> SUFFICES ASSUME Init, NEW u \in Users PROVE ChecksHold(usuario[u])
    BY DEF PasswordConsistency, ChecksHold
  <2>1. \/ usuario[u] = NoRow
        \/ usuario[u].status = "ativo" /\ usuario[u].anonimizado = FALSE
    BY DEF Init
  <2>2. QED
    BY <2>1 DEF ChecksHold, NoRow
<1>2. LInv /\ PasswordConsistency /\ [Next]_vars => PasswordConsistency'
  <2> SUFFICES ASSUME LInv, PasswordConsistency, [Next]_vars PROVE PasswordConsistency'
    OBVIOUS
  <2>0. TInv /\ usuario \in [Users -> Row]
    BY DEF LInv, TInv, TypeOK
  <2>1. CASE usuario' = usuario
    BY <2>1 DEF PasswordConsistency
  <2>2. ASSUME NEW r \in Requests, CommitRow(r) PROVE PasswordConsistency'
    <3>1. /\ ChecksHold(NewRow(r))
          /\ usuario' = [usuario EXCEPT ![req[r].alvo] = NewRow(r)]
      BY <2>2 DEF CommitRow, LastStatement, LInv, PassedChecks, Written
    <3>2. QED
      BY <2>0, <3>1 DEF PasswordConsistency, ChecksHold
  <2>3. ASSUME NEW r \in Requests, CommitNew(r) PROVE PasswordConsistency'
    <3>1. PICK u \in Users : usuario' = [usuario EXCEPT ![u] = NewAccount(r)]
      BY <2>3 DEF CommitNew
    <3>2. req[r].op = "convidar" => ~req[r].senha
      BY <2>0 DEF TInv, RequestOK
    <3>3. ChecksHold(NewAccount(r))
      BY <3>2 DEF NewAccount, ChecksHold
    <3>4. QED
      BY <2>0, <3>1, <3>3 DEF PasswordConsistency, ChecksHold
  <2>4. QED
    BY <2>0, <2>1, <2>2, <2>3, TableSteps
<1>3. QED
  BY InitLocks, NextLocks, <1>1, <1>2, PTL DEF Spec

\* Two accounts never hold one address at the same time, however many
\* invitations of it are open (usuario.email UNIQUE; deactivate only clears it).
LEMMA AddressesUnique == Spec => []AddressUnique
<1> DEFINE AInv == AddressUnique /\ \A u \in Users : usuario[u].status = "ausente"
                                                    => Email(usuario[u]) = Nobody
<1>1. Init => AInv
  <2> SUFFICES ASSUME Init PROVE AInv
    OBVIOUS
  <2>1. PICK f \in [Founders -> People] :
            /\ \A u, v \in Founders : f[u] = f[v] => u = v
            /\ usuario = [u \in Users |->
                   IF u \in Founders
                   THEN [status |-> "ativo", perfil |-> "gestor", person |-> f[u],
                         senha |-> TRUE, anonimizado |-> FALSE]
                   ELSE NoRow]
    BY DEF Init
  <2>2. \A u \in Users : Email(usuario[u]) = IF u \in Founders THEN f[u] ELSE Nobody
    BY <2>1 DEF Email, NoRow
  <2>3. \A u \in Users : usuario[u].status = "ausente" => u \notin Founders
    BY <2>1
  <2>4. QED
    BY <2>1, <2>2, <2>3 DEF AddressUnique
<1>2. LInv /\ AInv /\ [Next]_vars => AInv'
  <2> SUFFICES ASSUME LInv, AInv, [Next]_vars PROVE AInv'
    OBVIOUS
  <2>0. TInv /\ usuario \in [Users -> Row] /\ \A r \in Requests : RequestOK(req[r])
    BY DEF LInv, TInv, TypeOK
  <2>1. CASE usuario' = usuario
    BY <2>1 DEF AddressUnique
  <2>2. ASSUME NEW r \in Requests, CommitRow(r) PROVE AInv'
    <3> DEFINE u == req[r].alvo
    <3>1. /\ req[r].op \in RowOps /\ u \in Users
          /\ usuario' = [usuario EXCEPT ![u] = NewRow(r)]
      BY <2>0, <2>2 DEF CommitRow, RequestOK, Exists
    <3>2. /\ NewRow(r).person = usuario[u].person /\ NewRow(r).status # "ausente"
      BY <2>0, <3>1, NewRowType
    <3>0. usuario[u] \in Row
      BY <2>0, <3>1
    <3>3. NewRow(r).anonimizado = usuario[u].anonimizado \/ NewRow(r).anonimizado = TRUE
      BY <3>0 DEF NewRow, Row
    <3>4. Email(NewRow(r)) \in {Email(usuario[u]), Nobody}
      BY <3>2, <3>3 DEF Email
    <3>5. \A v \in Users : Email(usuario'[v]) \in {Email(usuario[v]), Nobody}
      BY <2>0, <3>1, <3>4
    <3>6. \A v \in Users : usuario'[v].status = "ausente" => usuario[v] = usuario'[v]
      BY <2>0, <3>1, <3>2
    <3>7. QED
      BY <3>5, <3>6 DEF AddressUnique
  <2>3. ASSUME NEW r \in Requests, CommitNew(r) PROVE AInv'
    <3>1. PICK u \in Users : /\ usuario[u].status = "ausente"
                             /\ AddressFree(req[r].person)
                             /\ usuario' = [usuario EXCEPT ![u] = NewAccount(r)]
      BY <2>3 DEF CommitNew
    <3>2. Email(NewAccount(r)) = req[r].person /\ NewAccount(r).status # "ausente"
      BY DEF Email, NewAccount
    <3>3. \A v \in Users : Email(usuario[v]) = req[r].person => req[r].person = Nobody
      BY <3>1 DEF AddressFree, ByEmail
    <3>4. \A v \in Users : /\ v # u => usuario'[v] = usuario[v]
                           /\ v = u => usuario'[v] = NewAccount(r)
      BY <2>0, <3>1
    <3>5. QED
      BY <3>2, <3>3, <3>4 DEF AddressUnique
  <2>4. QED
    BY <2>0, <2>1, <2>2, <2>3, TableSteps
<1>3. AInv => AddressUnique
  OBVIOUS
<1>4. QED
  BY InitLocks, NextLocks, <1>1, <1>2, <1>3, PTL DEF Spec

\* An address and a password enter one account at most, and none that is pending
\* or anonymised (usuario.email UNIQUE, the CHECKs of migration 0001), for any
\* overlap of invitations, resets, activations and deactivations.
THEOREM CredentialsConsistent == Spec => []CredentialConsistency
  BY PasswordsConsistent, AddressesUnique, PTL DEF CredentialConsistency

-----------------------------------------------------------------------------
(* Grants. The insert of a grant waits for the transaction that inserted one *)
(* of the same kind before it, so from the insert on a request is the only   *)
(* one to open a grant of its kind for its account, and the one grant it may *)
(* still find outstanding is the one it cancels.                             *)

Issuing(r) == req[r].op \in GrantOps /\ req[r].fase = "escrito"

IssuesAlone ==
    \A r \in Requests : Issuing(r) =>
        /\ NoneOutstanding(r)
        /\ \A s \in Requests : Issuing(s) /\ req[s].alvo = req[r].alvo /\ req[s].op = req[r].op
                              => s = r

GInv == OneOpenGrant /\ IssuesAlone

\* Steps that open no grant keep those that are outstanding in their places.
LEMMA FewerGrants ==
    ASSUME TInv, GInv,
           \A t \in Tokens, u \in Users, kind \in GrantKind :
               Outstanding(t, u, kind)' => Outstanding(t, u, kind),
           \A r \in Requests : Issuing(r)' => Issuing(r) /\ req'[r] = req[r]
    PROVE  GInv'
<1>1. OneOpenGrant'
  BY DEF GInv, OneOpenGrant
<1>2. ASSUME NEW r \in Requests, Issuing(r)' PROVE NoneOutstanding(r)'
  <2>1. /\ NoneOutstanding(r) /\ req'[r] = req[r] /\ req[r].alvo \in Users
        /\ KindOf(req[r].op) \in GrantKind
    BY <1>2 DEF GInv, IssuesAlone, Issuing, TInv, RequestOK, Exists, KindOf, GrantKind
  <2>2. QED
    BY <2>1 DEF NoneOutstanding
<1>3. QED
  BY <1>1, <1>2 DEF GInv, IssuesAlone, Issuing

\* A step that commits nothing and inserts no grant.
LEMMA SameGrants ==
    ASSUME TInv, GInv, NEW r \in Requests, token' = token, ~Issuing(r)',
           \A s \in Requests : s # r => req'[s] = req[s]
    PROVE  GInv'
<1>1. \A s \in Requests : Issuing(s)' => Issuing(s) /\ req'[s] = req[s]
  BY DEF Issuing
<1>2. QED
  BY <1>1, FewerGrants DEF Outstanding

\* A new grant of u: the only other one of its kind that may be outstanding is
\* the one that is cancelled.
LEMMA NewGrant ==
    ASSUME TInv, GInv, NEW r \in Requests, NEW u \in Users, NEW kind \in GrantKind,
           NEW new \in Tokens, token[new].estado = "livre", NEW old,
           token' = Issued(u, kind, new, old), Close(r),
           \A t \in Tokens : Outstanding(t, u, kind) => t = old,
           \A s \in Requests : s # r /\ Issuing(s) => req[s].alvo # u \/ KindOf(req[s].op) # kind
    PROVE  GInv'
<1>0. token \in [Tokens -> Grant]
  BY DEF TInv, TypeOK
<1>1. \A t \in Tokens, v \in Users, k \in GrantKind :
          Outstanding(t, v, k)' => \/ Outstanding(t, v, k) /\ t # old
                                   \/ t = new /\ v = u /\ k = kind
  <2>1. SUFFICES ASSUME NEW t \in Tokens, NEW v \in Users, NEW k \in GrantKind,
                        Outstanding(t, v, k)'
                 PROVE  \/ Outstanding(t, v, k) /\ t # old
                        \/ t = new /\ v = u /\ k = kind
    OBVIOUS
  <2>2. CASE t = new
    BY <2>1, <2>2 DEF Issued, Outstanding
  <2>3. CASE t # new /\ t = old
    BY <1>0, <2>1, <2>3 DEF Issued, Outstanding, Grant
  <2>4. CASE t # new /\ t # old
    BY <2>1, <2>4 DEF Issued, Outstanding
  <2>5. QED
    BY <2>2, <2>3, <2>4
<1>2. OneOpenGrant'
  BY <1>1 DEF GInv, OneOpenGrant
<1>3. \A s \in Requests : Issuing(s)' => s # r /\ Issuing(s) /\ req'[s] = req[s]
  BY CloseOthers, OpSets DEF Issuing, Idle
<1>4. ASSUME NEW s \in Requests, Issuing(s)' PROVE NoneOutstanding(s)'
  <2>1. /\ NoneOutstanding(s) /\ req'[s] = req[s] /\ req[s].alvo \in Users
        /\ KindOf(req[s].op) \in GrantKind
        /\ req[s].alvo # u \/ KindOf(req[s].op) # kind
    BY <1>3, <1>4 DEF GInv, IssuesAlone, Issuing, TInv, RequestOK, Exists, KindOf, GrantKind
  <2>2. QED
    BY <1>1, <2>1 DEF NoneOutstanding
<1>5. QED
  BY <1>2, <1>3, <1>4 DEF GInv, IssuesAlone

LEMMA InsertGrantAlone ==
    ASSUME TInv, GInv, NEW r \in Requests, InsertGrant(r)
    PROVE  GInv'
<1>1. /\ Advances(r) /\ req'[r].fase = "escrito" /\ req'[r].token = req[r].token
      /\ token' = token /\ NoneOutstanding(r) /\ req[r].op \in GrantOps
      /\ req'[r].op = req[r].op /\ req'[r].alvo = req[r].alvo
      /\ \A s \in Requests : s # r => req'[s] = req[s]
  BY MoveAdvances DEF InsertGrant, Advances, ReadOnly, TInv, RequestOK, PhaseFits
<1>2. \A s \in Requests : s # r /\ Issuing(s) /\ req[s].alvo = req[r].alvo => req[s].op # req[r].op
  BY DEF InsertGrant, InsertBlockers, KeyShare, Issuing
<1>3. NoneOutstanding(r)'
  BY <1>1 DEF NoneOutstanding, Outstanding
<1>4. ASSUME NEW s \in Requests, s # r, Issuing(s)' PROVE NoneOutstanding(s)' /\ Issuing(s)
  BY <1>1, <1>4 DEF GInv, IssuesAlone, Issuing, NoneOutstanding, Outstanding
<1>5. OneOpenGrant'
  BY <1>1 DEF GInv, OneOpenGrant, Outstanding
<1>6. IssuesAlone'
  BY <1>1, <1>2, <1>3, <1>4 DEF GInv, IssuesAlone, Issuing
<1>7. QED
  BY <1>5, <1>6 DEF GInv

\* Only InsertGrant takes an issue to its commit.
LEMMA GrantsMove ==
    ASSUME TInv, NEW r \in Requests, Step(r) \/ Abort(r), ~Close(r), ~InsertGrant(r),
           req[r].op \in GrantOps
    PROVE  req'[r].fase # "escrito"
<1>0. RequestOK(req[r])
  BY DEF TInv
<1>1. CASE ReadForGrant(r)
  BY <1>1, MoveAdvances DEF ReadForGrant
<1>2. CASE CancelOpen(r) \/ LockGrant(r)
  BY <1>2, CancelAdvances
<1>3. req[r].op \notin ChangeOps \union RowOps \union RedeemOps
                       \union {"bootstrap", "convidar", "desbloquear", "desativar"}
  BY OpSets
<1>4. QED
  BY <1>0, <1>1, <1>2, <1>3
     DEF Step, Abort, LockGestores, NothingToChange, RefuseLastGestor, DecideChange, ReadUnblock,
         CheckInvite, CheckBootstrap, SpendGrant, LockRow, FlushRow, Trigger, LockOther,
         TriggerPasses, RecordDeactivation, CommitRow, CommitGrant, CommitNew, CommitEntry,
         Refuse, RequestOK, PhaseFits

LEMMA StepGrants ==
    ASSUME TInv, GInv, NEW r \in Requests, Step(r) \/ Abort(r)
    PROVE  GInv'
<1>0. RequestOK(req[r]) /\ token \in [Tokens -> Grant] /\ GrantsNameAccounts
  BY DEF TInv, TypeOK
<1>1. CASE Close(r) /\ token' = token
  BY <1>1, CloseOthers, SameGrants, OpSets DEF Issuing, Idle
<1>2. CASE CommitRow(r)
  <2>1. \/ token' = token
        \/ token' = [token EXCEPT ![req[r].token].estado = "utilizado"]
    BY <1>2 DEF CommitRow, TokenAfter
  <2>2. \A t \in Tokens, u \in Users, kind \in GrantKind :
            Outstanding(t, u, kind)' => Outstanding(t, u, kind)
    BY <1>0, <2>1 DEF Outstanding, Grant
  <2>3. \A s \in Requests : Issuing(s)' => Issuing(s) /\ req'[s] = req[s]
    BY <1>2, CloseOthers, OpSets DEF CommitRow, Issuing, Idle
  <2>4. QED
    BY <2>2, <2>3, FewerGrants
<1>3. CASE CommitGrant(r)
  <2>1. PICK t \in Tokens :
            /\ token[t].estado = "livre" /\ Close(r) /\ Issuing(r)
            /\ token' = Issued(req[r].alvo, KindOf(req[r].op), t, req[r].token)
    BY <1>3 DEF CommitGrant, Issuing
  <2>2. /\ req[r].alvo \in Users /\ KindOf(req[r].op) \in GrantKind
        /\ req[r].op \in {"reemitir", "solicitar"} /\ NoneOutstanding(r)
    BY <1>0, <2>1, OpSets
       DEF Issuing, GInv, IssuesAlone, RequestOK, Exists, KindOf, GrantKind
  <2>3. ASSUME NEW s \in Requests, s # r, Issuing(s)
        PROVE  req[s].alvo # req[r].alvo \/ KindOf(req[s].op) # KindOf(req[r].op)
    <3>1. req[s].op \in {"reemitir", "solicitar"}
      BY <2>3, OpSets DEF Issuing
    <3>2. req[s].op # req[r].op => KindOf(req[s].op) # KindOf(req[r].op)
      BY <2>2, <3>1 DEF KindOf
    <3>3. QED
      BY <2>1, <2>3, <3>2 DEF GInv, IssuesAlone
  <2>4. QED
    BY <2>1, <2>2, <2>3, NewGrant DEF NoneOutstanding
<1>4. CASE CommitNew(r)
  <2>1. PICK u \in Users, t \in GrantsForNew(r) :
            /\ usuario[u].status = "ausente" /\ Close(r)
            /\ token' = TokenForNew(r, u, t)
    BY <1>4 DEF CommitNew
  <2>2. CASE req[r].op = "convidar"
    <3>1. /\ t \in Tokens /\ token[t].estado = "livre"
          /\ token' = Issued(u, "convite", t, Nobody)
      BY <2>1, <2>2 DEF GrantsForNew, TokenForNew
    <3>2. \A k \in Tokens : ~Outstanding(k, u, "convite")
      BY <1>0, <2>1 DEF GrantsNameAccounts, Outstanding, Exists
    <3>3. \A s \in Requests : Issuing(s) => req[s].alvo # u
      BY <2>1 DEF Issuing, TInv, RequestOK, Exists
    <3>4. "convite" \in GrantKind
      BY DEF GrantKind
    <3>5. QED
      BY <2>1, <3>1, <3>2, <3>3, <3>4, NewGrant
  <2>3. CASE req[r].op # "convidar"
    BY <1>1, <2>1, <2>3 DEF TokenForNew
  <2>4. QED
    BY <2>2, <2>3
<1>5. CASE CommitEntry(r)
  BY <1>1, <1>5 DEF CommitEntry
<1>6. CASE InsertGrant(r)
  BY <1>6, InsertGrantAlone
<1>7. CASE Advances(r) /\ ~InsertGrant(r)
  <2>1. CASE Close(r)
    BY <1>1, <1>7, <2>1 DEF Advances, ReadOnly
  <2>2. CASE ~Close(r)
    <3>1. req[r].op \in GrantOps => req'[r].fase # "escrito"
      BY <1>0, <1>7, <2>2, GrantsMove
    <3>2. QED
      BY <1>7, <3>1, SameGrants DEF Advances, ReadOnly, Issuing
  <2>3. QED
    BY <2>1, <2>2
<1>8. QED
  BY <1>1, <1>2, <1>3, <1>4, <1>5, <1>6, <1>7, Progress DEF ReadOnly

LEMMA NextGrants == TInv /\ GInv /\ [Next]_vars => GInv'
<1> SUFFICES ASSUME TInv, GInv, [Next]_vars PROVE GInv'
  OBVIOUS
<1>0. token \in [Tokens -> Grant]
  BY DEF TInv, TypeOK
<1>1. ASSUME NEW r \in Requests, Arrive(r) PROVE GInv'
  <2>1. ~Issuing(r)' /\ token' = token /\ \A s \in Requests : s # r => req'[s] = req[s]
    BY <1>1, Arrival, OpSets DEF Issuing, ReadOnly
  <2>2. QED
    BY <2>1, SameGrants
<1>2. ASSUME NEW t \in Tokens, Expire(t) PROVE GInv'
  <2>1. token[t].estado = "aberto" /\ token' = [token EXCEPT ![t].estado = "vencido"] /\ req' = req
    BY <1>2 DEF Expire
  <2>2. \A k \in Tokens, u \in Users, kind \in GrantKind :
            Outstanding(k, u, kind)' => Outstanding(k, u, kind)
    BY <1>0, <2>1 DEF Outstanding, Grant
  <2>3. QED
    BY <2>1, <2>2, FewerGrants DEF Issuing
<1>3. CASE (\E u \in Users : Logout(u)) \/ UNCHANGED vars
  <2>1. token' = token /\ req' = req
    BY <1>3 DEF Logout, vars
  <2>2. QED
    BY <2>1, FewerGrants DEF Outstanding, Issuing
<1>4. QED
  BY <1>1, <1>2, <1>3, StepGrants DEF Next

\* However many links of a kind are issued for one account at once, and whatever
\* is redeemed or expires meanwhile, one is outstanding at most: the cancelling
\* comes from a snapshot, ux_token_credencial_aberto refuses what it missed
\* (credentials.issue).
THEOREM OneGrantOpen == Spec => []OneOpenGrant
<1>1. Init => GInv
  <2>1. Init => \A t \in Tokens : token[t] = NoGrant
    BY DEF Init
  <2>2. Init => \A r \in Requests : req[r].op = "nada"
    BY DEF Init, Idle
  <2>3. QED
    BY <2>1, <2>2, OpSets DEF GInv, OneOpenGrant, IssuesAlone, Issuing, Outstanding, NoGrant
<1>2. GInv => OneOpenGrant
  BY DEF GInv
<1>3. QED
  BY InitType, NextType, NextGrants, <1>1, <1>2, PTL DEF Spec

-----------------------------------------------------------------------------
(* The advisory lock. From the moment it holds GESTOR_LOCK until it ends, a  *)
(* block or deactivation is the only request that can remove a gestor, so    *)
(* the gestor it counted is still there when the trigger counts again.       *)

Decided(r)  == /\ req[r].op \in ChangeOps
               /\ req[r].fase \in {"lido", "na_linha", "gatilho", "escrito", "auditado"}
Deciding(r) == Decided(r) \/ (req[r].op \in ChangeOps /\ req[r].fase = "travado")

\* In the trigger, one of the gestores who stay is still to be locked or locked.
TriggerStands(r) ==
    req[r].fase = "gatilho" =>
        /\ req[r].op \in ChangeOps
        /\ \E g \in OtherActiveGestores(req[r].alvo) : g \in req[r].falta \/ rowLock[g] = r

CountStands(r) ==
    /\ TriggerStands(r)
    /\ req[r].op \in ChangeOps => Managers # {}
    /\ Deciding(r) => gestorLock = r
    /\ Decided(r) /\ usuario[req[r].alvo].perfil = "gestor"
          => OtherActiveGestores(req[r].alvo) # {}

BInv == LInv /\ \A r \in Requests : CountStands(r)

LEMMA ManagersRemain ==
    ASSUME LInv, TInv', [Next]_vars, Managers # {}
    PROVE  Managers' # {}
  BY GuardStep DEF Guard!Next, Guard!Join, Guard!Leave

\* Nobody's perfil changes.
LEMMA PerfilKept ==
    ASSUME LInv, [Next]_vars, NEW u \in Users, Exists(u)
    PROVE  usuario'[u].perfil = usuario[u].perfil
<1>0. TInv /\ usuario \in [Users -> Row] /\ \A r \in Requests : RequestOK(req[r])
  BY DEF LInv, TInv, TypeOK
<1>1. ASSUME NEW r \in Requests, CommitRow(r) PROVE usuario'[u].perfil = usuario[u].perfil
  BY <1>0, <1>1, NewRowType DEF CommitRow
<1>2. ASSUME NEW r \in Requests, CommitNew(r) PROVE usuario'[u].perfil = usuario[u].perfil
  BY <1>0, <1>2 DEF CommitNew, Exists
<1>3. QED
  BY <1>0, <1>1, <1>2, TableSteps

\* Only block and deactivate take a gestor away.
LEMMA OnlyChangesRemove ==
    ASSUME LInv, [Next]_vars
    PROVE  \/ ActiveGestores \subseteq ActiveGestores'
           \/ \E s \in Requests : CommitRow(s) /\ Deciding(s)
<1>0. TInv /\ usuario \in [Users -> Row] /\ \A r \in Requests : RequestOK(req[r])
  BY DEF LInv, TInv, TypeOK
<1>1. CASE usuario' = usuario
  BY <1>1 DEF ActiveGestores
<1>2. ASSUME NEW r \in Requests, CommitRow(r), ~Deciding(r)
      PROVE  ActiveGestores \subseteq ActiveGestores'
  <2>1. /\ req[r].op \in {"ativar", "redefinir", "desbloquear"} /\ req[r].alvo \in Users
        /\ usuario' = [usuario EXCEPT ![req[r].alvo] = NewRow(r)]
    BY <1>0, <1>2, OpSets DEF CommitRow, LastStatement, Deciding, Decided, RequestOK, Exists
  <2>2. usuario[req[r].alvo] \in Row
    BY <1>0, <2>1
  <2>3. NewRow(r).perfil = usuario[req[r].alvo].perfil
    BY <1>0, <1>2, NewRowType DEF CommitRow
  <2>4. usuario[req[r].alvo].status = "ativo" => NewRow(r).status = "ativo"
    BY <2>1, <2>2, OpSets DEF NewRow, Row
  <2>5. QED
    BY <1>0, <2>1, <2>3, <2>4 DEF ActiveGestores, IsActiveGestor
<1>3. ASSUME NEW r \in Requests, CommitNew(r) PROVE ActiveGestores \subseteq ActiveGestores'
  BY <1>0, <1>3 DEF CommitNew, ActiveGestores, IsActiveGestor
<1>4. QED
  BY <1>0, <1>1, <1>2, <1>3, TableSteps

\* The steps that take or free a lock.
LEMMA LockSteps ==
    ASSUME TInv, NEW r \in Requests, Step(r) \/ Abort(r)
    PROVE  \/ Close(r) \/ UNCHANGED Locks
           \/ LockGestores(r) \/ LockRow(r) \/ LockOther(r)
  BY DecideAdvances, CancelAdvances
     DEF Step, Abort, NothingToChange, RefuseLastGestor, ReadForGrant, CheckInvite,
         CheckBootstrap, SpendGrant, FlushRow, Trigger, TriggerPasses, RecordDeactivation,
         InsertGrant, CommitRow, CommitGrant, CommitNew, CommitEntry, Refuse

\* A request moves only itself, and neither takes a lock another one holds nor
\* takes one for another.
LEMMA OneActor ==
    ASSUME LInv, NEW s \in Requests, Arrive(s) \/ Step(s) \/ Abort(s),
           NEW r \in Requests, r # s
    PROVE  /\ req'[r] = req[r] /\ (gestorLock' = r <=> gestorLock = r)
           /\ \A u \in Users : rowLock'[u] = r <=> rowLock[u] = r
<1>0. /\ TInv /\ RequestOK(req[s]) /\ req[s] \in Request /\ r # Nobody
      /\ rowLock \in [Users -> Requests \union {Nobody}]
  BY DEF LInv, TInv, TypeOK
<1>1. req'[r] = req[r]
  BY <1>0, Arrival, Progress, CloseOthers
     DEF Advances, CommitRow, CommitGrant, CommitNew, CommitEntry
<1>2. CASE UNCHANGED Locks
  BY <1>1, <1>2 DEF Locks
<1>3. CASE Close(s)
  BY <1>0, <1>1, <1>3 DEF Close
<1>4. CASE LockGestores(s)
  BY <1>0, <1>1, <1>4 DEF LockGestores
<1>5. CASE LockRow(s)
  <2>1. req[s].alvo \in Users
    BY <1>0, <1>5 DEF LockRow, RequestOK, Exists
  <2>2. rowLock[req[s].alvo] # r
    BY <1>5 DEF LockRow, FlushBlockers, KeyBlockers
  <2>3. QED
    BY <1>0, <1>1, <1>5, <2>1, <2>2 DEF LockRow
<1>6. CASE LockOther(s)
  <2>1. PICK g \in req[s].falta : KeyBlockers(g, s) = {} /\ rowLock' = [rowLock EXCEPT ![g] = s]
    BY <1>6 DEF LockOther
  <2>2. g \in Users /\ rowLock[g] # r
    BY <1>0, <2>1 DEF KeyBlockers, RequestOK, Exists
  <2>3. QED
    BY <1>0, <1>1, <1>6, <2>1, <2>2 DEF LockOther
<1>7. QED
  BY <1>0, <1>2, <1>3, <1>4, <1>5, <1>6, Arrival, LockSteps

\* What r counted stands while others move.
LEMMA CountUndisturbed ==
    ASSUME BInv, LInv', [Next]_vars, NEW r \in Requests, req'[r] = req[r],
           gestorLock = r => gestorLock' = r,
           \A u \in Users : rowLock[u] = r => rowLock'[u] = r,
           ~(CommitRow(r) /\ Deciding(r))
    PROVE  CountStands(r)'
<1>1. CountStands(r) /\ RequestOK(req[r]) /\ TInv' /\ LInv
  BY DEF BInv, LInv, TInv
<1>2. req[r].op \in ChangeOps => Managers' # {}
  BY <1>1, ManagersRemain DEF CountStands
<1>3. Deciding(r) => gestorLock' = r
  BY <1>1 DEF CountStands
<1>4. ASSUME Decided(r)
      PROVE  OtherActiveGestores(req[r].alvo) \subseteq OtherActiveGestores(req[r].alvo)'
  <2>1. ASSUME NEW s \in Requests, CommitRow(s), Deciding(s) PROVE FALSE
    BY <1>1, <1>4, <2>1 DEF BInv, CountStands, Deciding
  <2>2. ActiveGestores \subseteq ActiveGestores'
    BY <1>1, <2>1, OnlyChangesRemove
  <2>3. QED
    BY <1>1, <2>2 DEF OtherActiveGestores
<1>5. ASSUME Decided(r), usuario'[req[r].alvo].perfil = "gestor"
      PROVE  (OtherActiveGestores(req[r].alvo) # {})'
  <2>1. Exists(req[r].alvo) /\ req[r].alvo \in Users
    BY <1>1, <1>5, OpSets DEF Decided, RequestOK, Exists
  <2>2. usuario[req[r].alvo].perfil = "gestor"
    BY <1>1, <1>5, <2>1, PerfilKept
  <2>3. QED
    BY <1>1, <1>4, <1>5, <2>2 DEF CountStands
<1>6. TriggerStands(r)'
  <2>1. SUFFICES ASSUME req[r].fase = "gatilho"
                 PROVE  /\ req[r].op \in ChangeOps
                        /\ (\E g \in OtherActiveGestores(req[r].alvo) :
                               g \in req[r].falta \/ rowLock[g] = r)'
    BY DEF TriggerStands
  <2>2. /\ req[r].op \in ChangeOps
        /\ \E g \in OtherActiveGestores(req[r].alvo) : g \in req[r].falta \/ rowLock[g] = r
    BY <1>1, <2>1 DEF CountStands, TriggerStands
  <2>3. Decided(r)
    BY <2>1, <2>2 DEF Decided
  <2>4. OtherActiveGestores(req[r].alvo) \subseteq Users
    BY DEF OtherActiveGestores, ActiveGestores
  <2>5. QED
    BY <1>4, <2>2, <2>3, <2>4
<1>7. QED
  BY <1>2, <1>3, <1>5, <1>6 DEF CountStands, Deciding, Decided

\* Of the writes, only block and deactivate take a gestor away.
LEMMA OnlyChangesLeave ==
    ASSUME TInv, NEW r \in Requests, req[r].op \in RowOps, LeavesGestores(r)
    PROVE  req[r].op \in ChangeOps
<1> SUFFICES ASSUME req[r].op \notin ChangeOps PROVE FALSE
  OBVIOUS
<1>1. usuario[req[r].alvo] \in Row
  BY DEF TInv, TypeOK, RequestOK, Exists
<1>2. NewRow(r).perfil = usuario[req[r].alvo].perfil
  BY NewRowType
<1>3. usuario[req[r].alvo].status = "ativo" => NewRow(r).status = "ativo"
  BY <1>1, OpSets DEF NewRow, Row
<1>4. QED
  BY <1>2, <1>3 DEF LeavesGestores, IsActiveGestor

\* A request that only moves on keeps its count.
LEMMA CountKept ==
    ASSUME BInv, NEW r \in Requests, Advances(r), gestorLock' = gestorLock,
           req'[r].fase # "gatilho", Decided(r)' => Decided(r), Deciding(r)' => Deciding(r)
    PROVE  CountStands(r)'
<1>1. CountStands(r)
  BY DEF BInv
<1>2. /\ Managers' = Managers /\ usuario' = usuario
      /\ OtherActiveGestores(req[r].alvo)' = OtherActiveGestores(req[r].alvo)
      /\ req'[r].op = req[r].op /\ req'[r].alvo = req[r].alvo
  BY DEF Advances, ReadOnly, Managers, OtherActiveGestores, ActiveGestores
<1>3. QED
  BY <1>1, <1>2 DEF CountStands, TriggerStands

\* A request that starts, moves or ends counts for itself.
LEMMA CountOwn ==
    ASSUME BInv, LInv', NEW r \in Requests, Arrive(r) \/ Step(r) \/ Abort(r)
    PROVE  CountStands(r)'
<1>0. /\ req \in [Requests -> Request] /\ req[r] \in Request /\ RequestOK(req[r])
      /\ CountStands(r) /\ TInv /\ rowLock \in [Users -> Requests \union {Nobody}]
  BY DEF BInv, LInv, TInv, TypeOK
<1>1. CASE Close(r)
  BY <1>0, <1>1, CloseOthers, OpSets DEF CountStands, TriggerStands, Deciding, Decided, Idle
<1>2. CASE Arrive(r)
  <2>1. Managers' = Managers /\ req'[r].fase \in {"autorizado", "resgate", "escrito"}
    BY <1>0, <1>2, Arrival DEF ReadOnly, Managers
  <2>2. CASE BeginMemberChange(r)
    <3>1. Managers # {} /\ req'[r].fase = "autorizado"
      BY <1>0, <2>2 DEF BeginMemberChange, Begin, Open, Idle, Managers, IsActiveGestor
    <3>2. QED
      BY <2>1, <3>1 DEF CountStands, TriggerStands, Deciding, Decided
  <2>3. CASE ~BeginMemberChange(r)
    <3>1. req'[r].op \notin ChangeOps
      <4>1. CASE BeginInvite(r)
        BY <1>0, <4>1, OpSets DEF BeginInvite, Open, Idle
      <4>2. CASE BeginBootstrap(r)
        BY <1>0, <4>2, OpSets DEF BeginBootstrap, Open, Idle
      <4>3. CASE CheckSeed(r)
        BY <1>0, <4>3, OpSets DEF CheckSeed, Open, Idle
      <4>4. CASE ReadGrant(r)
        BY <1>0, <4>4, OpSets DEF ReadGrant, Open, Idle
      <4>5. CASE ReadToEnter(r)
        BY <1>0, <4>5, OpSets DEF ReadToEnter, Open, Idle
      <4>6. QED
        BY <1>2, <2>3, <4>1, <4>2, <4>3, <4>4, <4>5 DEF Arrive
    <3>2. QED
      BY <2>1, <3>1 DEF CountStands, TriggerStands, Deciding, Decided
  <2>4. QED
    BY <2>2, <2>3
<1>3. CASE LockGestores(r)
  <2>1. /\ Advances(r) /\ req'[r].fase = "travado" /\ gestorLock' = r
    BY <1>0, <1>3, MoveAdvances DEF LockGestores
  <2>2. QED
    BY <1>0, <2>1
       DEF CountStands, TriggerStands, Deciding, Decided, Managers, Advances, ReadOnly
<1>4. CASE DecideChange(r)
  <2>1. /\ req'[r].op = req[r].op /\ req'[r].alvo = req[r].alvo /\ req'[r].fase = "lido"
        /\ gestorLock' = gestorLock /\ usuario' = usuario
        /\ req[r].op \in ChangeOps /\ req[r].fase = "travado"
    BY <1>0, <1>4, DecideAdvances DEF DecideChange, Advances, ReadOnly, Locks
  <2>2. Managers # {} /\ Managers' # {} /\ gestorLock' = r
    BY <1>0, <2>1 DEF CountStands, Deciding, Managers
  <2>3. usuario[req[r].alvo].perfil = "gestor" => OtherActiveGestores(req[r].alvo) # {}
    <3>1. SUFFICES ASSUME usuario[req[r].alvo].perfil = "gestor"
                   PROVE  OtherActiveGestores(req[r].alvo) # {}
      OBVIOUS
    <3>2. CASE StatusSeen(r) = "ativo"
      BY <1>4, <3>1, <3>2 DEF DecideChange, WouldEmptyGestores
    <3>3. CASE StatusSeen(r) # "ativo"
      <4>1. usuario[req[r].alvo].status # "ativo"
        BY <3>3 DEF StatusSeen
      <4>2. PICK g \in Managers : TRUE
        BY <2>2
      <4>3. g \in OtherActiveGestores(req[r].alvo)
        BY <4>1, <4>2 DEF Managers, OtherActiveGestores, ActiveGestores, IsActiveGestor
      <4>4. QED
        BY <4>3
    <3>4. QED
      BY <3>2, <3>3
  <2>4. (usuario[req[r].alvo].perfil = "gestor" => OtherActiveGestores(req[r].alvo) # {})'
    BY <2>1, <2>3 DEF OtherActiveGestores, ActiveGestores
  <2>5. QED
    BY <2>1, <2>2, <2>4 DEF CountStands, TriggerStands
<1>5. CASE \/ RefuseLastGestor(r) \/ LockRow(r) \/ FlushRow(r) \/ TriggerPasses(r)
         \/ RecordDeactivation(r)
  <2>1. PICK fase \in {"recusado", "na_linha", "escrito", "auditado"} :
            /\ Move(r, fase) /\ ReadOnly /\ gestorLock' = gestorLock
            /\ fase # "recusado" => req[r].fase \in {"lido", "na_linha", "gatilho", "escrito"}
    BY <1>5 DEF RefuseLastGestor, LockRow, FlushRow, TriggerPasses, RecordDeactivation, Locks
  <2>2. Advances(r) /\ req'[r].fase = fase /\ req'[r].op = req[r].op
    BY <1>0, <2>1, MoveAdvances DEF Advances
  <2>3. QED
    BY <2>1, <2>2, CountKept DEF Deciding, Decided
<1>6. CASE Trigger(r)
  <2>1. /\ Advances(r) /\ req'[r].fase = "gatilho" /\ gestorLock' = gestorLock
        /\ req'[r].falta = OtherActiveGestores(req[r].alvo)
    BY <1>0, <1>6, TriggerAdvances DEF Locks
  <2>2. req[r].op \in ChangeOps /\ req[r].fase = "na_linha"
    BY <1>0, <1>6, OnlyChangesLeave DEF Trigger, RequestOK, PhaseFits
  <2>3. Decided(r) /\ usuario[req[r].alvo].perfil = "gestor"
    BY <1>6, <2>2 DEF Decided, Trigger, LeavesGestores, IsActiveGestor
  <2>4. OtherActiveGestores(req[r].alvo) # {}
    BY <1>0, <2>3 DEF CountStands
  <2>5. /\ OtherActiveGestores(req[r].alvo)' = OtherActiveGestores(req[r].alvo)
        /\ req'[r].op = req[r].op /\ req'[r].alvo = req[r].alvo
        /\ Managers' = Managers /\ gestorLock' = gestorLock
    BY <2>1 DEF Advances, ReadOnly, OtherActiveGestores, ActiveGestores, Managers
  <2>6. QED
    BY <1>0, <2>1, <2>2, <2>3, <2>4, <2>5 DEF CountStands, TriggerStands, Deciding
<1>7. CASE LockOther(r)
  <2>1. PICK g \in req[r].falta :
            /\ req[r].fase = "gatilho" /\ rowLock' = [rowLock EXCEPT ![g] = r]
            /\ Open(r, [req[r] EXCEPT !.falta = @ \ {g}])
            /\ ReadOnly /\ gestorLock' = gestorLock
    BY <1>7 DEF LockOther
  <2>2. /\ Advances(r) /\ req'[r].fase = "gatilho" /\ req'[r].falta = req[r].falta \ {g}
    BY <1>0, <2>1, LockOtherAdvances
  <2>3. /\ OtherActiveGestores(req[r].alvo)' = OtherActiveGestores(req[r].alvo)
        /\ req'[r].op = req[r].op /\ req'[r].alvo = req[r].alvo
        /\ Managers' = Managers /\ usuario' = usuario
    BY <2>2 DEF Advances, ReadOnly, OtherActiveGestores, ActiveGestores, Managers
  <2>4. PICK k \in OtherActiveGestores(req[r].alvo) : k \in req[r].falta \/ rowLock[k] = r
    BY <1>0, <2>1 DEF CountStands, TriggerStands
  <2>5. k \in Users
    BY DEF OtherActiveGestores, ActiveGestores
  <2>6. k \in req'[r].falta \/ rowLock'[k] = r
    BY <1>0, <2>1, <2>2, <2>4, <2>5
  <2>7. TriggerStands(r)'
    BY <1>0, <2>1, <2>3, <2>4, <2>6 DEF CountStands, TriggerStands
  <2>8. QED
    BY <1>0, <2>1, <2>2, <2>3, <2>7 DEF CountStands, Deciding, Decided
<1>8. CASE \/ ReadUnblock(r) \/ ReadForGrant(r) \/ CheckInvite(r) \/ CheckBootstrap(r)
         \/ SpendGrant(r) \/ CancelOpen(r) \/ LockGrant(r) \/ InsertGrant(r)
  <2>1. req[r].op \notin ChangeOps
    BY <1>0, <1>8, OpSets
       DEF ReadUnblock, ReadForGrant, CheckInvite, CheckBootstrap, SpendGrant, CancelOpen,
           LockGrant, InsertGrant, RequestOK, PhaseFits
  <2>2. Advances(r) /\ req'[r].fase # "gatilho" /\ gestorLock' = gestorLock
    <3>1. CASE ReadUnblock(r) \/ CancelOpen(r) \/ LockGrant(r)
      BY <1>0, <3>1, DecideAdvances, CancelAdvances DEF Locks
    <3>2. CASE ~(ReadUnblock(r) \/ CancelOpen(r) \/ LockGrant(r))
      BY <1>0, <1>8, <3>2, MoveAdvances
         DEF ReadForGrant, CheckInvite, CheckBootstrap, SpendGrant, InsertGrant, Locks
    <3>3. QED
      BY <3>1, <3>2
  <2>3. QED
    BY <2>1, <2>2, CountKept DEF Deciding, Decided, Advances
<1>9. QED
  BY <1>1, <1>2, <1>3, <1>4, <1>5, <1>6, <1>7, <1>8
     DEF Step, Abort, NothingToChange, CommitRow, CommitGrant, CommitNew, CommitEntry, Refuse

LEMMA InitCount == Init => BInv
<1>1. Init => \A r \in Requests : req[r].op \notin ChangeOps /\ req[r].fase = "livre"
  BY OpSets DEF Init, Idle
<1>2. QED
  BY <1>1, InitLocks DEF BInv, CountStands, TriggerStands, Deciding, Decided

LEMMA NextCount == BInv /\ [Next]_vars => BInv'
<1> SUFFICES ASSUME BInv, [Next]_vars PROVE BInv'
  OBVIOUS
<1>0. LInv /\ LInv'
  BY NextLocks DEF BInv
<1>1. ASSUME NEW s \in Requests, Arrive(s) \/ Step(s) \/ Abort(s) PROVE BInv'
  <2>1. ASSUME NEW r \in Requests, r # s PROVE CountStands(r)'
    <3>1. /\ req'[r] = req[r] /\ (gestorLock = r => gestorLock' = r)
          /\ \A u \in Users : rowLock[u] = r => rowLock'[u] = r
      BY <1>0, <1>1, <2>1, OneActor
    <3>2. CASE CommitRow(r)
      BY <1>0, <3>1, <3>2, CloseOthers, OpSets DEF CommitRow, LInv, Idle
    <3>3. CASE ~CommitRow(r)
      BY <1>0, <3>1, <3>3, CountUndisturbed
    <3>4. QED
      BY <3>2, <3>3
  <2>2. QED
    BY <1>0, <1>1, <2>1, CountOwn DEF BInv
<1>2. CASE (\E t \in Tokens : Expire(t)) \/ (\E u \in Users : Logout(u)) \/ UNCHANGED vars
  <2>1. req' = req /\ gestorLock' = gestorLock /\ rowLock' = rowLock /\ usuario' = usuario
    BY <1>2 DEF Expire, Logout, Locks, vars
  <2>2. ASSUME NEW r \in Requests, CommitRow(r) PROVE FALSE
    BY <1>0, <2>1, <2>2, CloseOthers, OpSets DEF CommitRow, LInv, Idle
  <2>3. QED
    BY <1>0, <2>1, <2>2, CountUndisturbed DEF BInv
<1>3. QED
  BY <1>1, <1>2 DEF Next

\* The trigger is a backstop that no block or deactivation reaches: with the
\* advisory lock taken before the count, SI005 is never raised (user.py
\* lock_gestores), although unblock and activate change statuses without it.
THEOREM BackstopNeverFires == Spec => []TriggerIsBackstop
<1>1. BInv => TriggerIsBackstop
  <2> SUFFICES ASSUME BInv, NEW r \in Requests, TriggerRefuses(r) PROVE FALSE
    BY DEF TriggerIsBackstop
  <2>1. TriggerStands(r)
    BY DEF BInv, CountStands
  <2>2. QED
    BY <2>1 DEF TriggerStands, TriggerRefuses, Restantes
<1>2. QED
  BY InitCount, NextCount, <1>1, PTL DEF Spec

-----------------------------------------------------------------------------
(* Waiting. Whoever holds the advisory lock is a removal or a bootstrap past *)
(* its first wait, whoever holds a row is past the row lock of its flush. So *)
(* the removals that others wait for hold the advisory lock, there is one at *)
(* most, and an activation or a reset is waited for only by requests nobody  *)
(* waits for.                                                                *)

LocksTakenInOrder(r) ==
    /\ gestorLock = r => /\ req[r].op \in ChangeOps \union {"bootstrap"}
                         /\ req[r].fase \notin {"livre", "autorizado"}
    /\ \A u \in Users : rowLock[u] = r => Flushed(r)

OInv == BInv /\ \A r \in Requests : LocksTakenInOrder(r)

\* A step that takes no lock keeps the request past the phases that hold none.
LEMMA OrderKept ==
    ASSUME TInv, NEW r \in Requests, Step(r), UNCHANGED Locks, ~Close(r)
    PROVE  /\ Advances(r) /\ req'[r].fase \notin {"livre", "autorizado"}
           /\ Flushed(r) => Flushed(r)'
<1>0. RequestOK(req[r])
  BY DEF TInv
<1>1. CASE DecideChange(r) \/ ReadUnblock(r)
  BY <1>1, DecideAdvances DEF DecideChange, ReadUnblock, Flushed
<1>2. CASE CancelOpen(r) \/ LockGrant(r)
  BY <1>0, <1>2, CancelAdvances, OpSets
     DEF CancelOpen, LockGrant, RequestOK, PhaseFits, Flushed
<1>3. CASE Trigger(r)
  BY <1>3, TriggerAdvances DEF Flushed, Advances
<1>4. CASE FlushRow(r) \/ TriggerPasses(r) \/ RecordDeactivation(r)
  <2>1. PICK fase \in {"escrito", "auditado"} : Move(r, fase) /\ ReadOnly
    BY <1>4 DEF FlushRow, TriggerPasses, RecordDeactivation
  <2>2. QED
    BY <2>1, MoveAdvances DEF Flushed, Advances
<1>5. CASE \/ RefuseLastGestor(r) \/ ReadForGrant(r) \/ CheckInvite(r) \/ CheckBootstrap(r)
         \/ SpendGrant(r) \/ InsertGrant(r)
  <2>1. PICK fase \in {"recusado", "lido", "escrito"} : Move(r, fase) /\ ReadOnly
    BY <1>5 DEF RefuseLastGestor, ReadForGrant, CheckInvite, CheckBootstrap, SpendGrant,
                InsertGrant
  <2>2. ~Flushed(r)
    BY <1>5 DEF RefuseLastGestor, ReadForGrant, CheckInvite, CheckBootstrap, SpendGrant,
                InsertGrant, Flushed
  <2>3. QED
    BY <2>1, <2>2, MoveAdvances
<1>6. CASE LockGestores(r) \/ LockRow(r)
  <2>1. PICK fase \in {"travado", "na_linha"} : Move(r, fase) /\ ReadOnly
    BY <1>6 DEF LockGestores, LockRow
  <2>2. ~Flushed(r)
    BY <1>6 DEF LockGestores, LockRow, Flushed
  <2>3. QED
    BY <2>1, <2>2, MoveAdvances
<1>7. CASE LockOther(r)
  <2>1. Advances(r) /\ req'[r].fase = "gatilho" /\ req[r].fase = "gatilho"
    BY <1>7, LockOtherAdvances DEF LockOther
  <2>2. QED
    BY <2>1 DEF Flushed, Advances
<1>8. QED
  BY <1>1, <1>2, <1>3, <1>4, <1>5, <1>6, <1>7
     DEF Step, NothingToChange, CommitRow, CommitGrant, CommitNew, CommitEntry, Refuse

LEMMA OrderOwn ==
    ASSUME OInv, NEW r \in Requests, Arrive(r) \/ Step(r) \/ Abort(r)
    PROVE  LocksTakenInOrder(r)'
<1>0. /\ TInv /\ r # Nobody /\ LocksTakenInOrder(r) /\ RequestOK(req[r])
      /\ rowLock \in [Users -> Requests \union {Nobody}]
  BY DEF OInv, BInv, LInv, TInv, TypeOK
<1>1. CASE Close(r)
  BY <1>0, <1>1 DEF Close, LocksTakenInOrder
<1>2. CASE Arrive(r)
  <2>1. req[r].fase = "livre" /\ gestorLock' = gestorLock /\ rowLock' = rowLock
    BY <1>0, <1>2, Arrival DEF Locks
  <2>2. QED
    BY <1>0, <2>1 DEF LocksTakenInOrder, Flushed
<1>3. CASE LockGestores(r)
  <2>1. /\ req'[r].fase = "travado" /\ req'[r].op = req[r].op /\ rowLock' = rowLock
        /\ req[r].fase = "autorizado" /\ req[r].op \in ChangeOps \union {"bootstrap"}
    BY <1>0, <1>3, MoveAdvances DEF LockGestores, Advances
  <2>2. QED
    BY <1>0, <2>1 DEF LocksTakenInOrder, Flushed
<1>4. CASE LockRow(r)
  <2>1. /\ req'[r].fase = "na_linha" /\ req'[r].op = req[r].op /\ req[r].op \in RowOps
        /\ gestorLock' = gestorLock
    BY <1>0, <1>4, MoveAdvances DEF LockRow, Advances
  <2>2. QED
    BY <1>0, <2>1 DEF LocksTakenInOrder, Flushed
<1>5. CASE LockOther(r)
  <2>1. /\ req'[r].fase = "gatilho" /\ req'[r].op = req[r].op /\ req[r].op \in RowOps
        /\ gestorLock' = gestorLock
    BY <1>0, <1>5, LockOtherAdvances DEF LockOther, Advances, RequestOK, PhaseFits
  <2>2. QED
    BY <1>0, <2>1 DEF LocksTakenInOrder, Flushed
<1>6. CASE Step(r) /\ UNCHANGED Locks /\ ~Close(r)
  <2>1. /\ req'[r].fase \notin {"livre", "autorizado"} /\ req'[r].op = req[r].op
        /\ Flushed(r) => Flushed(r)'
    BY <1>0, <1>6, OrderKept DEF Advances
  <2>2. QED
    BY <1>0, <1>6, <2>1 DEF LocksTakenInOrder, Locks
<1>7. QED
  BY <1>0, <1>1, <1>2, <1>3, <1>4, <1>5, <1>6, LockSteps DEF Abort

LEMMA NextOrder == OInv /\ [Next]_vars => OInv'
<1> SUFFICES ASSUME OInv, [Next]_vars PROVE OInv'
  OBVIOUS
<1>0. BInv' /\ LInv
  BY NextCount DEF OInv, BInv
<1>1. ASSUME NEW s \in Requests, Arrive(s) \/ Step(s) \/ Abort(s) PROVE OInv'
  <2>1. ASSUME NEW r \in Requests, r # s PROVE LocksTakenInOrder(r)'
    BY <1>0, <1>1, <2>1, OneActor DEF OInv, LocksTakenInOrder, Flushed
  <2>2. QED
    BY <1>0, <1>1, <2>1, OrderOwn DEF OInv
<1>2. CASE (\E t \in Tokens : Expire(t)) \/ (\E u \in Users : Logout(u)) \/ UNCHANGED vars
  BY <1>0, <1>2 DEF OInv, LocksTakenInOrder, Flushed, Expire, Logout, Locks, vars
<1>3. QED
  BY <1>1, <1>2 DEF Next

\* What a transaction that is waited for holds: the advisory lock, a row, the key
\* of a row or a grant's row.
LEMMA WaitedFor ==
    ASSUME TInv, NEW r \in Requests, NEW s \in Requests, WaitsFor(r, s)
    PROVE  \/ gestorLock = s
           \/ \E u \in Users : rowLock[u] = s
           \/ \E u : s \in KeyShare(u)
           \/ req[r].fase \in {"resgate", "cancela"} /\ s \in GrantHolders(req[r].token)
<1>0. RequestOK(req[r])
  BY DEF TInv
<1>1. CASE req[r].fase = "autorizado" \/ req[r].fase \in {"resgate", "cancela"}
  BY <1>1 DEF WaitsFor, GrantBlockers
<1>2. CASE req[r].fase \in {"lido", "auditado"}
  <2>1. s \in KeyBlockers(req[r].alvo, r) /\ req[r].op \in RowOps
    BY <1>0, <1>2, OpSets DEF WaitsFor, FlushBlockers, RequestOK, PhaseFits
  <2>2. req[r].alvo \in Users
    BY <1>0, <2>1 DEF RequestOK, Exists
  <2>3. QED
    BY <2>1, <2>2 DEF KeyBlockers
<1>3. CASE req[r].fase = "gatilho"
  <2>1. PICK g \in req[r].falta : s \in KeyBlockers(g, r)
    BY <1>3 DEF WaitsFor
  <2>2. g \in Users
    BY <1>0 DEF RequestOK, Exists
  <2>3. QED
    BY <2>1, <2>2 DEF KeyBlockers
<1>4. CASE req[r].fase \in {"cancelado", "escrito"}
  <2>1. PICK u : s \in ShareBlockers(u, r) \/ s \in KeyShare(u)
    BY <1>4 DEF WaitsFor, InsertBlockers
  <2>2. QED
    BY <2>1 DEF ShareBlockers
<1>5. QED
  BY <1>1, <1>2, <1>3, <1>4 DEF WaitsFor

\* Nobody waits for a request that has not taken its first lock.
LEMMA WaitedForHolds ==
    ASSUME OInv, NEW r \in Requests, NEW s \in Requests, WaitsFor(r, s)
    PROVE  /\ req[s].fase \notin {"resgate", "cancela"}
           /\ req[s].op \in RowOps \union GrantOps \union {"bootstrap"}
           /\ req[s].op = "bootstrap" => gestorLock = s
           /\ req[s].op \in ChangeOps => gestorLock = s
           /\ req[s].op \in RedeemOps =>
                 Flushed(s) \/ req[r].fase \in {"resgate", "cancela"}
<1>0. LocksTakenInOrder(s) /\ RequestOK(req[s]) /\ CountStands(s) /\ TInv
  BY DEF OInv, BInv, LInv, TInv
<1>1. CASE gestorLock = s
  BY <1>0, <1>1, OpSets DEF LocksTakenInOrder, RequestOK, PhaseFits
<1>2. CASE \E u \in Users : rowLock[u] = s
  <2>1. Flushed(s)
    BY <1>0, <1>2 DEF LocksTakenInOrder
  <2>2. req[s].op \in ChangeOps => gestorLock = s
    BY <1>0, <2>1 DEF CountStands, Deciding, Decided, Flushed
  <2>3. QED
    BY <2>1, <2>2, OpSets DEF Flushed
<1>3. CASE \E u : s \in KeyShare(u)
  <2>1. \/ req[s].op \in GrantOps /\ req[s].fase = "escrito"
        \/ req[s].op = "desativar" /\ req[s].fase = "auditado"
    BY <1>0, <1>3 DEF KeyShare, RequestOK, PhaseFits
  <2>2. req[s].op \in ChangeOps => gestorLock = s
    BY <1>0, <2>1, OpSets DEF CountStands, Deciding, Decided
  <2>3. QED
    BY <2>1, <2>2, OpSets
<1>4. CASE req[r].fase \in {"resgate", "cancela"} /\ s \in GrantHolders(req[r].token)
  <2>1. \/ req[s].op \in RedeemOps /\ req[s].fase # "resgate"
        \/ req[s].op \in GrantOps /\ req[s].fase \in {"cancelado", "escrito"}
    BY <1>4 DEF GrantHolders
  <2>2. QED
    BY <1>0, <1>4, <2>1, OpSets DEF RequestOK, PhaseFits
<1>5. QED
  BY <1>0, <1>1, <1>2, <1>3, <1>4, WaitedFor

\* A redemption that holds its account's row waits for nothing any more, and
\* neither does a bootstrap that holds the advisory lock.
LEMMA NothingToWaitFor ==
    ASSUME OInv, NEW s \in Requests, NEW t \in Requests, WaitsFor(s, t),
           \/ req[s].op \in RedeemOps /\ Flushed(s)
           \/ req[s].op = "bootstrap" /\ gestorLock = s
    PROVE  FALSE
<1>0. /\ LocksTakenInOrder(s) /\ RequestOK(req[s]) /\ TriggerStands(s) /\ HoldsTarget(s)
  BY DEF OInv, BInv, LInv, TInv, CountStands
<1>1. CASE req[s].op \in RedeemOps /\ Flushed(s)
  <2>1. rowLock[req[s].alvo] = s /\ req[s].op \notin ChangeOps \union {"desativar"}
    BY <1>0, <1>1, OpSets DEF HoldsTarget
  <2>2. req[s].fase = "escrito"
    BY <1>0, <1>1, <2>1 DEF WaitsFor, Flushed, TriggerStands, RequestOK, PhaseFits
  <2>3. t \in ShareBlockers(req[s].alvo, s)
    BY <1>1, <2>2 DEF WaitsFor, Actor
  <2>4. QED
    BY <2>1, <2>3 DEF ShareBlockers
<1>2. CASE req[s].op = "bootstrap" /\ gestorLock = s
  <2>1. req[s].fase = "escrito" /\ req[s].ator = Nobody
    BY <1>0, <1>2, OpSets DEF WaitsFor, LocksTakenInOrder, RequestOK, PhaseFits
  <2>2. t \in ShareBlockers(Nobody, s)
    BY <1>2, <2>1, OpSets DEF WaitsFor, Actor
  <2>3. QED
    BY <2>2 DEF ShareBlockers
<1>3. QED
  BY <1>1, <1>2

\* However many requests are open at once, a circle of waiting transactions has
\* one removal at most, and activations, resets, logins, invitations and
\* bootstraps are in none: lock_gestores before the count keeps removals apart
\* (user.py; 40P01 in 39 of 40 races without it).
THEOREM RemovalsKeepApart == Spec => []RemovalsDoNotDeadlock
<1>1. Init => OInv
  <2>1. Init => \A r \in Requests : LocksTakenInOrder(r)
    BY DEF LocksTakenInOrder, Init
  <2>2. QED
    BY <2>1, InitCount DEF OInv
<1>2. OInv => RemovalsDoNotDeadlock
  <2> SUFFICES ASSUME OInv, NEW S \in SUBSET Requests, Circle(S)
               PROVE  /\ \A r \in S : req[r].op \in ChangeOps \union GrantOps
                                                     \union {"desbloquear"}
                      /\ \A r, s \in S : req[r].op \in ChangeOps /\ req[s].op \in ChangeOps
                                         => r = s
    BY DEF RemovalsDoNotDeadlock
  <2>1. ASSUME NEW s \in S
        PROVE  req[s].op \in ChangeOps \union GrantOps \union {"desbloquear"}
    <3>1. PICK r \in S : WaitsFor(r, s)
      BY DEF Circle
    <3>2. PICK q \in S : WaitsFor(q, r)
      BY DEF Circle
    <3>3. PICK t \in S : WaitsFor(s, t)
      BY DEF Circle
    <3>4. req[r].fase \notin {"resgate", "cancela"}
      BY <3>2, WaitedForHolds
    <3>5. req[s].op \notin RedeemOps \union {"bootstrap"}
      BY <3>1, <3>3, <3>4, WaitedForHolds, NothingToWaitFor
    <3>6. QED
      BY <3>1, <3>5, WaitedForHolds, OpSets
  <2>2. ASSUME NEW s \in S, req[s].op \in ChangeOps PROVE gestorLock = s
    <3>1. PICK r \in S : WaitsFor(r, s)
      BY DEF Circle
    <3>2. QED
      BY <2>2, <3>1, WaitedForHolds
  <2>3. QED
    BY <2>1, <2>2
<1>3. QED
  BY <1>1, <1>2, NextOrder, PTL DEF Spec

-----------------------------------------------------------------------------
(* The first gestor. An entity nobody manages has no account at all outside  *)
(* development: accounts come from a gestor's invitation or from bootstrap,  *)
(* and a gestor once made never leaves the entity without one. So while a    *)
(* bootstrap holds the advisory lock nothing else can make a gestor.         *)

Unmanaged == Managers = {}

NobodyYet ==
    Unmanaged => /\ \A u \in Users : usuario[u].status = "ausente"
                 /\ \A r \in Requests : req[r].op \in {"nada", "bootstrap"}

BootstrapStands(r) ==
    req[r].op = "bootstrap" =>
        /\ req[r].perfil = "gestor"
        /\ req[r].fase \in {"autorizado", "travado", "escrito"}
        /\ req[r].fase \in {"travado", "escrito"} => gestorLock = r
        /\ req[r].fase = "escrito" => Unmanaged

FInv == LInv /\ NobodyYet /\ \A r \in Requests : BootstrapStands(r)

\* While nobody manages the entity, only bootstraps arrive.
LEMMA OnlyBootstrapsArrive ==
    ASSUME ~Development, FInv, Unmanaged, NEW r \in Requests, Arrive(r)
    PROVE  BeginBootstrap(r)
<1>1. \A u \in Users : usuario[u].status = "ausente"
  BY DEF FInv, NobodyYet
<1>2. ~BeginMemberChange(r) /\ ~BeginInvite(r) /\ ~ReadToEnter(r)
  BY <1>1 DEF BeginMemberChange, Begin, BeginInvite, ReadToEnter, IsActiveGestor
<1>3. ~ReadGrant(r)
  BY <1>1 DEF ReadGrant, FInv, LInv, TInv, GrantsNameAccounts, Exists
<1>4. ~CheckSeed(r)
  BY DEF CheckSeed
<1>5. QED
  BY <1>2, <1>3, <1>4 DEF Arrive

\* Whoever changes the table of an unmanaged entity is a bootstrap, and it
\* holds the advisory lock.
LEMMA UnmanagedTable ==
    ASSUME FInv, [Next]_vars, Unmanaged, usuario' # usuario
    PROVE  \E r \in Requests : CommitNew(r) /\ req[r].op = "bootstrap" /\ gestorLock = r
<1>1. ASSUME NEW r \in Requests, CommitRow(r) PROVE FALSE
  BY <1>1, OpSets DEF FInv, NobodyYet, CommitRow
<1>2. ASSUME NEW r \in Requests, CommitNew(r)
      PROVE  req[r].op = "bootstrap" /\ gestorLock = r
  BY <1>2, OpSets DEF FInv, NobodyYet, BootstrapStands, CommitNew
<1>3. TInv
  BY DEF FInv, LInv
<1>4. QED
  BY <1>1, <1>2, <1>3, TableSteps

\* An entity that is still unmanaged has not changed.
LEMMA StillUnmanaged ==
    ASSUME FInv, LInv', [Next]_vars, Unmanaged'
    PROVE  Unmanaged /\ usuario' = usuario
<1>0. LInv /\ LInv' /\ TInv' /\ usuario \in [Users -> Row]
  BY DEF FInv, LInv, TInv, TypeOK
<1>1. Unmanaged
  BY <1>0, ManagersRemain DEF Unmanaged
<1>2. ASSUME NEW r \in Requests, CommitNew(r), req[r].op = "bootstrap" PROVE FALSE
  <2>1. PICK u \in Users : usuario' = [usuario EXCEPT ![u] = NewAccount(r)]
    BY <1>2 DEF CommitNew
  <2>2. usuario'[u] = NewAccount(r)
    BY <1>0, <2>1
  <2>3. NewAccount(r).status = "ativo" /\ NewAccount(r).perfil = "gestor"
    BY <1>2 DEF NewAccount, FInv, BootstrapStands
  <2>4. QED
    BY <2>2, <2>3 DEF Unmanaged, Managers
<1>3. QED
  BY <1>1, <1>2, UnmanagedTable

\* A request keeps its operation until it ends.
LEMMA OperationKept ==
    ASSUME TInv, NEW r \in Requests, Step(r) \/ Abort(r)
    PROVE  \/ req'[r] = Idle
           \/ req'[r].op = req[r].op /\ req'[r].perfil = req[r].perfil
  BY Progress, CloseOthers DEF Advances, CommitRow, CommitGrant, CommitNew, CommitEntry

LEMMA BootstrapOwn ==
    ASSUME ~Development, FInv, NEW r \in Requests, Arrive(r) \/ Step(r) \/ Abort(r)
    PROVE  BootstrapStands(r)'
<1>0. /\ req \in [Requests -> Request] /\ req[r] \in Request /\ TInv
      /\ BootstrapStands(r) /\ RequestOK(req[r])
  BY DEF FInv, LInv, TInv, TypeOK
<1>1. CASE req'[r] = Idle
  BY <1>1 DEF BootstrapStands, Idle
<1>2. CASE Arrive(r)
  <2>1. CASE BeginBootstrap(r)
    BY <1>0, <2>1 DEF BeginBootstrap, Open, Idle, BootstrapStands
  <2>2. CASE BeginMemberChange(r)
    BY <1>0, <2>2, OpSets DEF BeginMemberChange, Begin, Open, Idle, BootstrapStands
  <2>3. CASE BeginInvite(r)
    BY <1>0, <2>3 DEF BeginInvite, Open, Idle, BootstrapStands
  <2>4. CASE ReadGrant(r)
    BY <1>0, <2>4, OpSets DEF ReadGrant, Open, Idle, BootstrapStands
  <2>5. CASE ReadToEnter(r)
    BY <1>0, <2>5, OpSets DEF ReadToEnter, Open, Idle, BootstrapStands
  <2>6. QED
    BY <1>2, <2>1, <2>2, <2>3, <2>4, <2>5 DEF Arrive, CheckSeed
<1>3. CASE LockGestores(r)
  <2>1. /\ req'[r].fase = "travado" /\ req'[r].op = req[r].op
        /\ req'[r].perfil = req[r].perfil /\ gestorLock' = r
    BY <1>0, <1>3 DEF LockGestores, Move, Request
  <2>2. QED
    BY <1>0, <2>1 DEF BootstrapStands
<1>4. CASE CheckBootstrap(r)
  <2>1. /\ req'[r].fase = "escrito" /\ req'[r].op = req[r].op
        /\ req'[r].perfil = req[r].perfil /\ gestorLock' = gestorLock
        /\ usuario' = usuario /\ req[r].fase = "travado"
    BY <1>0, <1>4 DEF CheckBootstrap, Move, Request, Locks, ReadOnly
  <2>2. Unmanaged'
    BY <1>4, <2>1 DEF CheckBootstrap, Unmanaged, Managers, ActiveGestores, IsActiveGestor
  <2>3. QED
    BY <1>0, <2>1, <2>2 DEF BootstrapStands
<1>5. CASE (Step(r) \/ Abort(r)) /\ req'[r] # Idle /\ ~LockGestores(r) /\ ~CheckBootstrap(r)
  <2>1. req[r].op # "bootstrap"
    <3>1. ~Close(r)
      BY <1>0, <1>5 DEF Close
    <3>2. QED
      BY <1>0, <1>5, <3>1, OpSets
         DEF Step, Abort, RefuseLastGestor, DecideChange, ReadUnblock, ReadForGrant, CheckInvite,
             SpendGrant, LockRow, FlushRow, Trigger, LockOther, TriggerPasses, RecordDeactivation,
             CancelOpen, LockGrant, InsertGrant, NothingToChange, CommitRow, CommitGrant,
             CommitNew, CommitEntry, Refuse, BootstrapStands
  <2>2. QED
    BY <1>0, <1>5, <2>1, OperationKept DEF BootstrapStands
<1>6. QED
  BY <1>1, <1>2, <1>3, <1>4, <1>5

LEMMA BootstrapUndisturbed ==
    ASSUME FInv, [Next]_vars, NEW r \in Requests, req'[r] = req[r],
           gestorLock = r => gestorLock' = r
    PROVE  BootstrapStands(r)'
<1>0. BootstrapStands(r) /\ TInv
  BY DEF FInv, LInv
<1>1. SUFFICES ASSUME req[r].op = "bootstrap", req[r].fase = "escrito" PROVE Unmanaged'
  BY <1>0 DEF BootstrapStands
<1>2. Unmanaged /\ gestorLock = r
  BY <1>0, <1>1 DEF BootstrapStands
<1>3. ASSUME CommitNew(r) PROVE FALSE
  BY <1>0, <1>1, <1>3, CloseOthers DEF CommitNew, Idle
<1>4. usuario' = usuario
  BY <1>2, <1>3, UnmanagedTable
<1>5. QED
  BY <1>2, <1>4 DEF Unmanaged, Managers

LEMMA NextFirst ==
    ASSUME ~Development, FInv, [Next]_vars
    PROVE  FInv'
<1>0. LInv /\ LInv' /\ TInv /\ NobodyYet /\ req \in [Requests -> Request]
  BY NextLocks DEF FInv, LInv, TInv, TypeOK
<1>1. CASE \E s \in Requests : Arrive(s) \/ Step(s) \/ Abort(s)
  <2>1. PICK s \in Requests : Arrive(s) \/ Step(s) \/ Abort(s)
    BY <1>1
  <2>2. \A r \in Requests : r # s => req'[r] = req[r] /\ (gestorLock = r => gestorLock' = r)
    BY <1>0, <2>1, OneActor
  <2>3. \A r \in Requests : BootstrapStands(r)'
    BY <2>1, <2>2, BootstrapOwn, BootstrapUndisturbed
  <2>4. NobodyYet'
    <3>1. SUFFICES ASSUME Unmanaged'
                   PROVE  /\ \A u \in Users : usuario'[u].status = "ausente"
                          /\ \A r \in Requests : req'[r].op \in {"nada", "bootstrap"}
      BY DEF NobodyYet
    <3>2. Unmanaged /\ usuario' = usuario
      BY <1>0, <3>1, StillUnmanaged
    <3>3. req'[s].op \in {"nada", "bootstrap"}
      <4>1. CASE Arrive(s)
        <5>1. BeginBootstrap(s)
          BY <3>2, <4>1, OnlyBootstrapsArrive
        <5>2. QED
          BY <1>0, <5>1 DEF BeginBootstrap, Open, Idle
      <4>2. CASE Step(s) \/ Abort(s)
        BY <1>0, <3>2, <4>2, OperationKept DEF NobodyYet, Idle
      <4>3. QED
        BY <2>1, <4>1, <4>2
    <3>4. QED
      BY <1>0, <2>2, <3>2, <3>3 DEF NobodyYet
  <2>5. QED
    BY <1>0, <2>3, <2>4 DEF FInv
<1>2. CASE (\E t \in Tokens : Expire(t)) \/ (\E u \in Users : Logout(u)) \/ UNCHANGED vars
  <2>1. usuario' = usuario /\ req' = req /\ gestorLock' = gestorLock
    BY <1>2 DEF Expire, Logout, Locks, vars
  <2>2. QED
    BY <1>0, <2>1 DEF FInv, NobodyYet, BootstrapStands, Unmanaged, Managers
<1>3. QED
  BY <1>1, <1>2 DEF Next

\* Outside development, bootstrap_gestor creates an account only while nobody
\* can manage members, however many operators run it at once and whatever else
\* is in flight (AC-0001-34, -35: the advisory lock before the count).
THEOREM BootstrapsOnlyTheFirst ==
    ASSUME ~Development
    PROVE  Spec => BootstrapOnlyWithoutGestor
<1>1. Init => FInv
  <2> SUFFICES ASSUME Init PROVE FInv
    OBVIOUS
  <2>1. \A r \in Requests : req[r].op = "nada"
    BY DEF Init, Idle
  <2>2. Unmanaged => \A u \in Users : usuario[u].status = "ausente"
    <3>1. PICK f \in [Founders -> People] :
              usuario = [u \in Users |->
                  IF u \in Founders
                  THEN [status |-> "ativo", perfil |-> "gestor", person |-> f[u],
                        senha |-> TRUE, anonimizado |-> FALSE]
                  ELSE NoRow]
      BY DEF Init
    <3>2. \A u \in Users : u \notin Managers => usuario[u].status = "ausente"
      BY <3>1 DEF Managers, NoRow
    <3>3. QED
      BY <3>2 DEF Unmanaged
  <2>3. QED
    BY <2>1, <2>2, InitLocks DEF FInv, NobodyYet, BootstrapStands
<1>2. FInv /\ [Next]_vars => FInv'
  BY NextFirst
<1>3. FInv /\ [Next]_vars => [trilha'.acao = "bootstrap" => Managers = {}]_vars
  <2> SUFFICES ASSUME FInv, Next, trilha'.acao = "bootstrap" PROVE Unmanaged
    BY DEF Unmanaged
  <2>0. Next /\ trilha'.acao = "bootstrap"
    OBVIOUS
  <2>1. ~Unaudited
    BY <2>0 DEF Unaudited, NoAudit
  <2>2. ASSUME NEW r \in Requests, CommitRow(r) \/ CommitGrant(r) \/ CommitEntry(r) PROVE FALSE
    <3>1. CASE CommitRow(r)
      BY <2>0, <3>1, OpSets DEF CommitRow, Audit
    <3>2. CASE CommitGrant(r)
      BY <2>0, <3>2, OpSets DEF CommitGrant, Audit
    <3>3. CASE CommitEntry(r)
      BY <2>0, <2>1, <3>3 DEF CommitEntry, Audit
    <3>4. QED
      BY <2>2, <3>1, <3>2, <3>3
  <2>3. ASSUME NEW u \in Users, Logout(u) PROVE FALSE
    BY <2>0, <2>3 DEF Logout, Audit
  <2>4. TInv
    BY DEF FInv, LInv
  <2>5. PICK r \in Requests : CommitNew(r)
    BY <2>0, <2>1, <2>2, <2>3, <2>4, Arrival, Progress DEF Next, Advances, Expire, ReadOnly
  <2>6. req[r].op = "bootstrap"
    BY <2>0, <2>5 DEF CommitNew, Audit
  <2>7. QED
    BY <2>5, <2>6 DEF FInv, BootstrapStands, CommitNew
<1>4. QED
  BY <1>1, <1>2, <1>3, PTL DEF Spec, BootstrapOnlyWithoutGestor

=============================================================================

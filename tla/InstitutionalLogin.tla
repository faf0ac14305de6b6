------------------------- MODULE InstitutionalLogin -------------------------
(***************************************************************************)
(* Login through the institutional provider (services/oidc.py,             *)
(* api/oidc.py): a browser starts a flow and keeps its signed state in a   *)
(* cookie, the provider sends it back with a code, and the callback        *)
(* exchanges the code, finds the account the assertion names, binds the    *)
(* provider's subject to it and opens a session.                           *)
(*                                                                         *)
(* A flow stands for the state, the nonce and the PKCE verifier of one     *)
(* authorize, which are only ever used together.  A callback is one        *)
(* request, and the phases are where something else can come in between:   *)
(*                                                                         *)
(*   recebida    the cookie that came with the request was read            *)
(*   trocando    the state matched: the code goes to the provider          *)
(*   verificada  the provider's assertion verified                         *)
(*   procurando  no account holds the subject, the e-mail is next          *)
(*   achada      the account was read and is ativo                         *)
(*   escrita     the binding and the session are flushed, not committed    *)
(*   respondida  the answer left, the commit of get_session is next        *)
(*   recusada    the refusal is written in a transaction of its own next   *)
(***************************************************************************)
CONSTANTS Users,       \* account ids (rows of usuario)
          People,      \* e-mail addresses
          Subjects,    \* the provider's stable subjects
          Browsers,
          Flows,       \* one per authorize (a bound)
          Calls,       \* callbacks under way at the same time
          Nobody

ASSUME NobodyAssumption ==
    Nobody \notin Users \union People \union Subjects \union Browsers \union Flows

VARIABLES usuario,     \* the usuario table, committed
          baixa,       \* the deactivation that holds the advisory lock, if any
          diretorio,   \* the address the provider asserts for a subject
          estado,      \* the flow in each browser's sigi_oidc_estado cookie
          fluxo,       \* what became of each flow
          chamada,     \* the callbacks
          trilha       \* the row each callback has left in the audit trail

vars == <<usuario, baixa, diretorio, estado, fluxo, chamada, trilha>>
tables == <<usuario, baixa>>
outside == <<diretorio, fluxo>>

-----------------------------------------------------------------------------
\* inativo is every status but ativo: pendente, bloqueado and desativado are
\* refused alike.
Row == [status : {"ausente", "inativo", "ativo"}, email : People \union {Nobody},
        sujeito : Subjects \union {Nobody}, anonimizado : BOOLEAN]

NoRow == [status |-> "ausente", email |-> Nobody, sujeito |-> Nobody,
          anonimizado |-> FALSE]

\* The row a deactivation works on, and whether it was bound when it was read.
Baixa == [conta : Users \union {Nobody}, vinculada : BOOLEAN]

NoBaixa == [conta |-> Nobody, vinculada |-> FALSE]

\* A browser starts a flow, the provider issues its code for a subject, and the
\* code is presented with the verifier of the flow some cookie holds.
Fluxo == [iniciado : BOOLEAN, sujeito : Subjects \union {Nobody},
          apresentado : Flows \union {Nobody}]

NoFluxo == [iniciado |-> FALSE, sujeito |-> Nobody, apresentado |-> Nobody]

Fase == {"livre", "recebida", "trocando", "verificada", "procurando", "achada",
         "escrita", "respondida", "recusada"}

Resposta == {"nenhuma", "sessao", "recusa", "sem_conta", "erro"}

\* `solta` is the account without a subject as it was read.  `titular` is kept for
\* the properties only: who held the subject when the provider asserted it, for
\* as long as that account holds it without a break.
Chamada == [fase : Fase, navegador : Browsers \union {Nobody},
            fluxo : Flows \union {Nobody}, cookie : Flows \union {Nobody},
            sujeito : Subjects \union {Nobody}, email : People \union {Nobody},
            conta : Users \union {Nobody}, solta : BOOLEAN,
            titular : Users \union {Nobody}, resposta : Resposta]

NoChamada == [fase |-> "livre", navegador |-> Nobody, fluxo |-> Nobody,
              cookie |-> Nobody, sujeito |-> Nobody, email |-> Nobody,
              conta |-> Nobody, solta |-> FALSE, titular |-> Nobody,
              resposta |-> "nenhuma"]

\* The types of the tables, of what is outside and of every request.
TypeOK ==
    /\ usuario \in [Users -> Row]
    /\ baixa \in Baixa
    /\ diretorio \in [Subjects -> People \union {Nobody}]
    /\ estado \in [Browsers -> Flows \union {Nobody}]
    /\ fluxo \in [Flows -> Fluxo]
    /\ chamada \in [Calls -> Chamada]
    /\ trilha \in [Calls -> {"nada", "auth.login", "auth.oidc_recusada"}]

Init ==
    /\ usuario = [u \in Users |-> NoRow]
    /\ baixa = NoBaixa
    /\ diretorio = [s \in Subjects |-> Nobody]
    /\ estado = [b \in Browsers |-> Nobody]
    /\ fluxo = [f \in Flows |-> NoFluxo]
    /\ chamada = [c \in Calls |-> NoChamada]
    /\ trilha = [c \in Calls |-> "nada"]

-----------------------------------------------------------------------------
(* The row locks a callback holds from its flush to its commit.             *)

Flushed(c) == chamada[c].fase \in {"escrita", "respondida"}

\* It changed oidc_subject, a unique key: nobody else may touch the row.
Binding(u) == {c \in Calls : Flushed(c) /\ chamada[c].conta = u /\ chamada[c].solta}

\* It only inserted a session that refers to the row (FOR KEY SHARE).
Referring(u) == {c \in Calls : Flushed(c) /\ chamada[c].conta = u /\ ~chamada[c].solta}

\* An index entry of this subject whose transaction is still open.
Inserting(s) == {c \in Calls : Flushed(c) /\ chamada[c].solta /\ chamada[c].sujeito = s}

ByEmail(p) == {u \in Users : p # Nobody /\ usuario[u].email = p}

BySubject(s) == {u \in Users : s # Nobody /\ usuario[u].sujeito = s}

\* Without ck_usuario_anonimizado (a mutant).
UniqueOnly(u, row) == BySubject(row.sujeito) \subseteq {u}

\* ck_usuario_anonimizado, and UNIQUE (oidc_subject) against the other rows.
RowIsLegal(u, row) ==
    /\ row.anonimizado => row.email = Nobody /\ row.sujeito = Nobody
    /\ BySubject(row.sujeito) \subseteq {u}

\* The callbacks after the table has become `linhas`.
StillHeld(chamadas, linhas) ==
    [c \in Calls |-> LET call == chamadas[c]
                     IN IF call.titular # Nobody /\ linhas[call.titular].sujeito # call.sujeito
                        THEN [call EXCEPT !.titular = Nobody] ELSE call]

-----------------------------------------------------------------------------
(* Member management as far as the binding depends on it; module Members has *)
(* the guards and the locks of these operations.                             *)

Invite(u, p) ==
    /\ usuario[u].status = "ausente"
    /\ ByEmail(p) = {}
    /\ usuario' = [usuario EXCEPT ![u] = [@ EXCEPT !.status = "inativo", !.email = p]]
    /\ UNCHANGED <<baixa, outside, estado, chamada, trilha>>

\* activate of an invitation, unblock of a blocked account.
Enable(u) ==
    /\ usuario[u].status = "inativo"
    /\ Binding(u) = {}
    /\ usuario' = [usuario EXCEPT ![u] = [@ EXCEPT !.status = "ativo"]]
    /\ UNCHANGED <<baixa, outside, estado, chamada, trilha>>

Block(u) ==
    /\ usuario[u].status = "ativo"
    /\ baixa.conta = Nobody
    /\ Binding(u) = {}
    /\ usuario' = [usuario EXCEPT ![u] = [@ EXCEPT !.status = "inativo"]]
    /\ UNCHANGED <<baixa, outside, estado, chamada, trilha>>

\* lock_gestores, then by_id: the row is read and not locked yet.
ReadDeactivate(u) ==
    /\ usuario[u].status # "ausente"
    /\ ~usuario[u].anonimizado
    /\ baixa.conta = Nobody
    /\ baixa' = [conta |-> u, vinculada |-> usuario[u].sujeito # Nobody]
    /\ UNCHANGED <<usuario, outside, estado, chamada, trilha>>

\* The session writes the attributes that differ from what it read, so
\* oidc_subject = None reaches the row only when it was read bound.
Anonymised(u) ==
    [usuario[u] EXCEPT !.status = "inativo", !.email = Nobody, !.anonimizado = TRUE,
                       !.sujeito = IF baixa.vinculada THEN Nobody ELSE usuario[u].sujeito]

\* The flushes and the commit; a row the CHECK refuses is a 500 and a rollback.
WriteDeactivate ==
    /\ baixa.conta # Nobody
    /\ Binding(baixa.conta) \union Referring(baixa.conta) = {}
    /\ usuario' = IF RowIsLegal(baixa.conta, Anonymised(baixa.conta))
                  THEN [usuario EXCEPT ![baixa.conta] = Anonymised(baixa.conta)]
                  ELSE usuario
    /\ baixa' = NoBaixa
    /\ chamada' = StillHeld(chamada, usuario')
    /\ UNCHANGED <<outside, estado, trilha>>

-----------------------------------------------------------------------------
(* Outside: the directory, the provider's login page, the cookie's age.      *)

\* No two subjects have one address at a time; an address may be given to
\* another person later, and an assertion may carry none.
Rename(s, p) ==
    /\ diretorio[s] # p
    /\ p # Nobody => \A t \in Subjects : diretorio[t] # p
    /\ diretorio' = [diretorio EXCEPT ![s] = p]
    /\ UNCHANGED <<tables, estado, fluxo, chamada, trilha>>

\* Cookie and signature expire together (oidc_state_ttl_minutes).
Expire(b) ==
    /\ estado[b] # Nobody
    /\ estado' = [estado EXCEPT ![b] = Nobody]
    /\ UNCHANGED <<tables, outside, chamada, trilha>>

IssueCode(f, s) ==
    /\ fluxo[f].iniciado
    /\ fluxo[f].sujeito = Nobody
    /\ fluxo' = [fluxo EXCEPT ![f] = [@ EXCEPT !.sujeito = s]]
    /\ UNCHANGED <<tables, diretorio, estado, chamada, trilha>>

-----------------------------------------------------------------------------
(* The callback.                                                            *)

Authorize(b, f) ==
    /\ ~fluxo[f].iniciado
    /\ fluxo' = [fluxo EXCEPT ![f] = [@ EXCEPT !.iniciado = TRUE]]
    /\ estado' = [estado EXCEPT ![b] = f]
    /\ UNCHANGED <<tables, diretorio, chamada, trilha>>

\* Any state that was signed here will do (a mutant).
AnyStateMatches(b, f) == estado[b] # Nobody

StateMatches(b, f) == estado[b] = f

\* The callback page hands its address to the API: in the browser of the flow,
\* again after a reload, or in another browser that was given the link.
Receive(c, b, f) ==
    /\ chamada[c].fase = "livre"
    /\ fluxo[f].sujeito # Nobody
    /\ chamada' = [chamada EXCEPT ![c] =
           IF StateMatches(b, f)
           THEN [NoChamada EXCEPT !.fase = "trocando", !.navegador = b, !.fluxo = f,
                                  !.cookie = estado[b]]
           ELSE [NoChamada EXCEPT !.fase = "recusada", !.resposta = "recusa"]]
    /\ trilha' = [trilha EXCEPT ![c] = "nada"]
    /\ UNCHANGED <<tables, outside, estado>>

\* What a request no longer needs it forgets.
Refused(c, resposta) ==
    [chamada[c] EXCEPT !.fase = "recusada", !.resposta = resposta, !.navegador = Nobody,
                       !.fluxo = Nobody, !.cookie = Nobody, !.email = Nobody]

Present(c) ==
    fluxo' = [fluxo EXCEPT ![chamada[c].fluxo] = [@ EXCEPT !.apresentado = chamada[c].cookie]]

\* The provider takes a code once, with the verifier of its flow.
CodeIsGood(c) ==
    /\ fluxo[chamada[c].fluxo].apresentado = Nobody
    /\ chamada[c].cookie = chamada[c].fluxo

Verified(c) ==
    LET s == fluxo[chamada[c].fluxo].sujeito
    IN [chamada[c] EXCEPT !.fase = "verificada", !.sujeito = s, !.email = diretorio[s],
                          !.fluxo = Nobody, !.cookie = Nobody,
                          !.titular = IF BySubject(s) = {} THEN Nobody
                                      ELSE CHOOSE u \in BySubject(s) : TRUE]

Exchange(c) ==
    /\ chamada[c].fase = "trocando"
    /\ Present(c)
    /\ chamada' = [chamada EXCEPT ![c] = IF CodeIsGood(c) THEN Verified(c)
                                                          ELSE Refused(c, "recusa")]
    /\ UNCHANGED <<tables, diretorio, estado, trilha>>

\* Discovery, exchange or keys fail, or the token does not verify; the code may
\* have been spent by then.
ProviderFails(c) ==
    /\ chamada[c].fase = "trocando"
    /\ Present(c) \/ UNCHANGED fluxo
    /\ chamada' = [chamada EXCEPT ![c] = Refused(c, "recusa")]
    /\ UNCHANGED <<tables, diretorio, estado, trilha>>

\* The account is read once; what is decided later rests on this row.
Loaded(c, u) ==
    IF usuario[u].status = "ativo"
    THEN [chamada[c] EXCEPT !.fase = "achada", !.conta = u, !.email = Nobody,
                            !.solta = usuario[u].sujeito = Nobody]
    ELSE Refused(c, "recusa")

\* The asserted address is trusted before the stored subject (a mutant).
AddressFirst(c) ==
    IF chamada[c].email # Nobody THEN {[chamada[c] EXCEPT !.fase = "procurando"]}
    ELSE LET found == BySubject(chamada[c].sujeito)
         IN IF found # {} THEN {Loaded(c, u) : u \in found}
                          ELSE {Refused(c, "sem_conta")}

AfterSubject(c) ==
    LET found == BySubject(chamada[c].sujeito)
    IN IF found # {} THEN {Loaded(c, u) : u \in found}
       ELSE IF chamada[c].email # Nobody
            THEN {[chamada[c] EXCEPT !.fase = "procurando"]}
            ELSE {Refused(c, "sem_conta")}

LookUpSubject(c) ==
    /\ chamada[c].fase = "verificada"
    /\ \E after \in AfterSubject(c) : chamada' = [chamada EXCEPT ![c] = after]
    /\ UNCHANGED <<tables, outside, estado, trilha>>

LookUpEmail(c) ==
    /\ chamada[c].fase = "procurando"
    /\ LET found == ByEmail(chamada[c].email)
       IN \E after \in IF found = {} THEN {Refused(c, "sem_conta")}
                        ELSE {Loaded(c, u) : u \in found} :
             chamada' = [chamada EXCEPT ![c] = after]
    /\ UNCHANGED <<tables, outside, estado, trilha>>

Close(c, resposta) == [chamada EXCEPT ![c] = [NoChamada EXCEPT !.resposta = resposta]]

\* The address is bound where the stable subject belongs (a mutant).
AddressBound(c) == [usuario[chamada[c].conta] EXCEPT !.sujeito = diretorio[chamada[c].sujeito]]

BoundRow(c) == [usuario[chamada[c].conta] EXCEPT !.sujeito = chamada[c].sujeito]

\* The UPDATE waits for whoever uses the row and for an open entry of the same
\* subject, then meets the constraints on what is committed by that time.
FlushBinding(c) ==
    /\ chamada[c].fase = "achada" /\ chamada[c].solta
    /\ Binding(chamada[c].conta) \union Referring(chamada[c].conta) = {}
    /\ Inserting(chamada[c].sujeito) = {}
    /\ chamada' = IF RowIsLegal(chamada[c].conta, BoundRow(c))
                  THEN [chamada EXCEPT ![c].fase = "escrita"]
                  ELSE Close(c, "erro")
    /\ UNCHANGED <<tables, outside, estado, trilha>>

\* A bound account is not written; the rows that refer to it wait for a binding.
FlushSession(c) ==
    /\ chamada[c].fase = "achada" /\ ~chamada[c].solta
    /\ Binding(chamada[c].conta) = {}
    /\ chamada' = [chamada EXCEPT ![c].fase = "escrita"]
    /\ UNCHANGED <<tables, outside, estado, trilha>>

\* The answer deletes the cookie, whichever flow it holds by now; it may be lost.
Answer(c) ==
    /\ chamada[c].fase = "escrita"
    /\ chamada' = [chamada EXCEPT ![c] = [@ EXCEPT !.fase = "respondida"]]
    /\ \/ estado' = [estado EXCEPT ![chamada[c].navegador] = Nobody]
       \/ UNCHANGED estado
    /\ UNCHANGED <<tables, outside, trilha>>

Commit(c) ==
    /\ chamada[c].fase = "respondida"
    /\ usuario' = IF chamada[c].solta THEN [usuario EXCEPT ![chamada[c].conta] = BoundRow(c)]
                                      ELSE usuario
    /\ trilha' = [trilha EXCEPT ![c] = "auth.login"]
    /\ chamada' = StillHeld(Close(c, "sessao"), usuario')
    /\ UNCHANGED <<baixa, outside, estado>>

\* The refusal goes into the session that rolls back (a mutant).
RecordInRequest(c) ==
    /\ chamada[c].fase = "recusada"
    /\ chamada' = Close(c, chamada[c].resposta)
    /\ UNCHANGED <<tables, outside, estado, trilha>>

\* record_standalone, then the exception: the request's own session rolls back.
RecordRefusal(c) ==
    /\ chamada[c].fase = "recusada"
    /\ trilha' = [trilha EXCEPT ![c] = "auth.oidc_recusada"]
    /\ chamada' = Close(c, chamada[c].resposta)
    /\ UNCHANGED <<tables, outside, estado>>

Next ==
    \/ \E u \in Users, p \in People : Invite(u, p)
    \/ \E u \in Users : Enable(u) \/ Block(u) \/ ReadDeactivate(u)
    \/ WriteDeactivate
    \/ \E s \in Subjects, p \in People \union {Nobody} : Rename(s, p)
    \/ \E b \in Browsers : Expire(b)
    \/ \E f \in Flows, s \in Subjects : IssueCode(f, s)
    \/ \E b \in Browsers, f \in Flows : Authorize(b, f)
    \/ \E c \in Calls, b \in Browsers, f \in Flows : Receive(c, b, f)
    \/ \E c \in Calls :
          \/ Exchange(c) \/ ProviderFails(c) \/ LookUpSubject(c) \/ LookUpEmail(c)
          \/ FlushBinding(c) \/ FlushSession(c) \/ Answer(c) \/ Commit(c)
          \/ RecordRefusal(c)

Spec == Init /\ [][Next]_vars

-----------------------------------------------------------------------------
(* Properties.                                                              *)

\* A code is presented only with the verifier of its own flow, however often its
\* address is opened and whatever flow was started over it in the meantime: a
\* login that lost its cookie is refused without spending anybody's code.
OwnCodeOnly ==
    \A f \in Flows : fluxo[f].apresentado \in {Nobody, f}

\* However binding and anonymisation overlap, no subject stays on an anonymised
\* account and none is on two.
IdentityConsistent ==
    /\ \A u \in Users : usuario[u].anonimizado =>
          usuario[u].sujeito = Nobody /\ usuario[u].email = Nobody
    /\ \A s \in Subjects : \A u, v \in BySubject(s) : u = v

\* Once a subject is bound the address it comes with no longer matters: while
\* the account holds it, its login neither ends without an account nor in
\* another one.
EmailChangeDoesNotOrphan ==
    \A c \in Calls : chamada[c].titular # Nobody =>
        /\ chamada[c].conta \in {Nobody, chamada[c].titular}
        /\ chamada[c].resposta # "sem_conta"

\* A callback that ended with a session left its login row, one that was refused
\* its refusal, although the request that was refused rolled back.
AnsweredAsRecorded ==
    \A c \in Calls : chamada[c].fase = "livre" =>
        /\ (chamada[c].resposta = "sessao") <=> (trilha[c] = "auth.login")
        /\ (chamada[c].resposta \in {"recusa", "sem_conta"})
              <=> (trilha[c] = "auth.oidc_recusada")

=============================================================================

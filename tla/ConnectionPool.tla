---------------------------- MODULE ConnectionPool ----------------------------
(***************************************************************************)
(* A request from its arrival to its answer and its commit, with what it   *)
(* takes from the process on the way: worker threads and database          *)
(* connections (core/db.py, core/throttling.py, core/authorization.py,     *)
(* services/audit.py).                                                     *)
(*                                                                         *)
(* A session takes its connection at its first query and keeps it to its   *)
(* commit or rollback; what must outlive a refusal is written on a second  *)
(* connection while the request still holds its first.  Threads are taken  *)
(* for each dependency and for the handler, and given back in between.     *)
(*                                                                         *)
(*   limite -> contar -> contando          enforce: the hit, on its own    *)
(*   entrar -> conferir                    current_usuario                 *)
(*   perfil                                Requires                        *)
(*   rota -> consultar -> decidir          the handler                     *)
(*   anotar -> anotando                    a refusal's own transaction     *)
(*   entregue                              answered, not yet committed     *)
(*   desfazer                              an exception, not yet answered  *)
(*                                                                         *)
(* Routes: login stands for every open route (login, refresh, activation,  *)
(* institutional callback), me for one that only needs a caller, atas for  *)
(* one that asks for a perfil.                                             *)
(***************************************************************************)
EXTENDS Naturals, FiniteSets

CONSTANTS Requests,        \* requests in progress at the same time
          Conexoes,        \* what the engine's pool may open: size and overflow
          Threads,         \* sizes the process's pool of worker threads may have
          Rotas,           \* the routes called
          Nobody           \* no connection

ASSUME RotasAssumption == Rotas \subseteq {"login", "me", "atas"}
ASSUME ThreadsAssumption == Threads \subseteq Nat \ {0}
ASSUME NobodyAssumption == Nobody \notin Conexoes

VARIABLES req,             \* the requests
          emprestadas,     \* the connections the pool has lent
          mortas,          \* the connections the database is no longer at the end of
          banco,           \* whether the database answers
          ativo,           \* usuario.ativo of the caller
          threads,         \* worker threads of this process
          desfecho         \* the request the latest step ended, as it ended

vars == <<req, emprestadas, mortas, banco, ativo, threads, desfecho>>

Fase == {"livre", "limite", "contar", "contando", "entrar", "conferir", "perfil",
         "rota", "consultar", "decidir", "anotar", "anotando", "entregue", "desfazer"}

\* ok; refused with a row of its own; refused without; no connection in time;
\* no database; connection lost.
Resposta == {"nenhuma", "ok", "recusado", "negado", "esgotado", "fora", "perdida"}

Request == [fase : Fase, rota : Rotas \union {"nenhuma"},
            sessao  : Conexoes \union {Nobody},   \* connection of get_session
            propria : Conexoes \union {Nobody},   \* connection of standalone_transaction
            resposta : Resposta,
            anotado : BOOLEAN,       \* the refusal's row is committed
            foiAtivo : BOOLEAN,      \* history: the caller was ativo since it arrived
            atravessou : BOOLEAN]    \* history: the database stopped while it held a connection

Idle == [fase |-> "livre", rota |-> "nenhuma", sessao |-> Nobody, propria |-> Nobody,
         resposta |-> "nenhuma", anotado |-> FALSE, foiAtivo |-> FALSE, atravessou |-> FALSE]

Desfecho == [rota : Rotas \union {"nenhuma"}, resposta : Resposta, anotado : BOOLEAN,
             gravado : BOOLEAN,      \* the request's transaction is committed
             foiAtivo : BOOLEAN, atravessou : BOOLEAN]

\* How a request ended.
Outcome(p, resposta, gravado) ==
    [rota |-> p.rota, resposta |-> resposta, anotado |-> p.anotado, gravado |-> gravado,
     foiAtivo |-> p.foiAtivo, atravessou |-> p.atravessou]

\* The step ended no request.
Nothing == Outcome(Idle, "nenhuma", FALSE)

TypeOK ==
    /\ req \in [Requests -> Request]
    /\ emprestadas \subseteq Conexoes
    /\ mortas \subseteq Conexoes
    /\ banco \in {"de_pe", "fora"}
    /\ ativo \in BOOLEAN
    /\ threads \in Threads
    /\ desfecho \in Desfecho

Init ==
    /\ req = [r \in Requests |-> Idle]
    /\ emprestadas = {}
    /\ mortas = {}
    /\ banco = "de_pe"
    /\ ativo = TRUE
    /\ threads \in Threads
    /\ desfecho = Nothing

-----------------------------------------------------------------------------
(* Threads and connections.                                                  *)

InThread == {"contar", "contando", "conferir", "consultar", "decidir", "anotar", "anotando"}

ThreadFree == Cardinality({r \in Requests : req[r].fase \in InThread}) < threads

\* The phases in which a session is about to run its first query.
Asking == {"contar", "conferir", "consultar", "anotar"}

\* A pooled connection handed out as it is (a mutant).
TakeUnchecked(c) ==
    /\ banco = "de_pe"
    /\ c \notin emprestadas
    /\ emprestadas' = emprestadas \union {c}
    /\ UNCHANGED mortas

\* pool_pre_ping: a connection that does not answer is replaced before it is used.
Take(c) ==
    /\ banco = "de_pe"
    /\ c \notin emprestadas
    /\ emprestadas' = emprestadas \union {c}
    /\ mortas' = mortas \ {c}

Return(cs) == emprestadas' = emprestadas \ cs

Answers(c) == c \notin mortas

\* The connections a request has at the moment.
Held(p) == {p.sessao, p.propria} \ {Nobody}
Holds(r) == Held(req[r])

Goes(r, fase) == req' = [req EXCEPT ![r].fase = fase]

\* The second session left open by the exception (a mutant).
RaiseKeepingOwn(r, resposta) ==
    /\ req' = [req EXCEPT ![r].fase = "desfazer", ![r].resposta = resposta, ![r].propria = Nobody]
    /\ UNCHANGED emprestadas

\* An exception leaves the session it was raised in: a standalone transaction
\* ends and gives its connection back on the way out.
Raise(r, resposta) ==
    /\ req' = [req EXCEPT ![r].fase = "desfazer", ![r].resposta = resposta, ![r].propria = Nobody]
    /\ Return({req[r].propria})

\* The end of the request's own session.
Finish(r, resposta, gravado) ==
    /\ req' = [req EXCEPT ![r] = Idle]
    /\ Return({req[r].sessao})
    /\ desfecho' = Outcome(req[r], resposta, gravado)

-----------------------------------------------------------------------------
(* enforce.                                                                  *)

Arrive(r) ==
    \E rota \in Rotas :
        /\ req[r].fase = "livre"
        /\ req' = [req EXCEPT ![r] = [Idle EXCEPT !.fase = IF rota = "atas" THEN "entrar" ELSE "limite",
                                                  !.rota = rota, !.foiAtivo = ativo]]
        /\ desfecho' = Nothing
        /\ UNCHANGED <<emprestadas, mortas, banco, ativo, threads>>

StartLimit(r) ==
    /\ req[r].fase = "limite" /\ ThreadFree
    /\ Goes(r, "contar")
    /\ desfecho' = Nothing
    /\ UNCHANGED <<emprestadas, mortas, banco, ativo, threads>>

CountHit(r) ==
    \E c \in Conexoes :
        /\ req[r].fase = "contar"
        /\ Take(c)
        /\ req' = [req EXCEPT ![r].fase = "contando", ![r].propria = c]
        /\ desfecho' = Nothing
        /\ UNCHANGED <<banco, ativo, threads>>

\* A dependency named in place of the phase that waits for it (a mutant).
AfterLimitNamed(r) == IF req[r].rota = "login" THEN "rota" ELSE "current_usuario"

AfterLimit(r) == IF req[r].rota = "login" THEN "rota" ELSE "entrar"

\* The hit is committed and its connection returned before anything is decided:
\* within the ceiling, or over it.
HitCounted(r) ==
    \E fase \in {AfterLimit(r), "anotar"} :
        /\ req[r].fase = "contando" /\ Answers(req[r].propria)
        /\ req' = [req EXCEPT ![r].fase = fase, ![r].propria = Nobody]
        /\ Return({req[r].propria})
        /\ desfecho' = Nothing
        /\ UNCHANGED <<mortas, banco, ativo, threads>>

-----------------------------------------------------------------------------
(* current_usuario and Requires.                                             *)

Enter(r) ==
    /\ req[r].fase = "entrar" /\ ThreadFree
    /\ Goes(r, "conferir")
    /\ desfecho' = Nothing
    /\ UNCHANGED <<emprestadas, mortas, banco, ativo, threads>>

\* verify_access_token: missing, altered or expired by now. No connection is used.
RefuseToken(r) ==
    /\ req[r].fase = "conferir"
    /\ Raise(r, "negado")
    /\ desfecho' = Nothing
    /\ UNCHANGED <<mortas, banco, ativo, threads>>

\* Everything a valid token says believed until it expires (a mutant).
AfterTokenAlone(r) == IF req[r].rota = "atas" THEN "perfil" ELSE "rota"

AfterCaller(r) ==
    IF ~ativo THEN "desfazer"
    ELSE IF req[r].rota = "atas" THEN "perfil" ELSE "rota"

\* The caller's row, read on every request whatever the token says (AC-0001-08).
LoadCaller(r) ==
    \E c \in Conexoes :
        LET fase == AfterCaller(r)
        IN /\ req[r].fase = "conferir"
           /\ Take(c)
           /\ req' = [req EXCEPT ![r].fase = fase, ![r].sessao = c,
                          ![r].resposta = IF fase = "desfazer" THEN "negado" ELSE "nenhuma"]
           /\ desfecho' = Nothing
           /\ UNCHANGED <<banco, ativo, threads>>

AdmitPerfil(r) ==
    /\ req[r].fase = "perfil" /\ ThreadFree
    /\ Goes(r, "rota")
    /\ desfecho' = Nothing
    /\ UNCHANGED <<emprestadas, mortas, banco, ativo, threads>>

RefusePerfil(r) ==
    /\ req[r].fase = "perfil" /\ ThreadFree
    /\ Goes(r, "anotar")
    /\ desfecho' = Nothing
    /\ UNCHANGED <<emprestadas, mortas, banco, ativo, threads>>

-----------------------------------------------------------------------------
(* The handler.                                                              *)

StartHandler(r) ==
    /\ req[r].fase = "rota" /\ ThreadFree
    /\ Goes(r, IF req[r].sessao = Nobody THEN "consultar" ELSE "decidir")
    /\ desfecho' = Nothing
    /\ UNCHANGED <<emprestadas, mortas, banco, ativo, threads>>

FirstQuery(r) ==
    \E c \in Conexoes :
        /\ req[r].fase = "consultar"
        /\ Take(c)
        /\ req' = [req EXCEPT ![r].fase = "decidir", ![r].sessao = c]
        /\ desfecho' = Nothing
        /\ UNCHANGED <<banco, ativo, threads>>

\* A failed login, a replayed refresh, a callback that matches no account; the
\* callback refuses a bad code before its first query too.
RefuseRecorded(r) ==
    /\ req[r].fase \in {"consultar", "decidir"} /\ req[r].rota = "login"
    /\ Goes(r, "anotar")
    /\ desfecho' = Nothing
    /\ UNCHANGED <<emprestadas, mortas, banco, ativo, threads>>

\* Any other refusal: a domain error that leaves nothing.
Reject(r) ==
    /\ req[r].fase \in {"consultar", "decidir"}
    /\ Raise(r, "negado")
    /\ desfecho' = Nothing
    /\ UNCHANGED <<mortas, banco, ativo, threads>>

\* The handler wrote what it had to and returned: the answer leaves. Only me asks
\* the database nothing more.
Accept(r) ==
    /\ req[r].fase = "decidir"
    /\ Answers(req[r].sessao) \/ req[r].rota = "me"
    /\ req' = [req EXCEPT ![r].fase = "entregue", ![r].resposta = "ok"]
    /\ desfecho' = Nothing
    /\ UNCHANGED <<emprestadas, mortas, banco, ativo, threads>>

\* get_session closing without a commit (a mutant).
CommitForgotten(r) ==
    /\ req[r].fase = "entregue" /\ Answers(req[r].sessao)
    /\ Finish(r, req[r].resposta, FALSE)
    /\ UNCHANGED <<mortas, banco, ativo, threads>>

Commit(r) ==
    /\ req[r].fase = "entregue" /\ Answers(req[r].sessao)
    /\ Finish(r, req[r].resposta, TRUE)
    /\ UNCHANGED <<mortas, banco, ativo, threads>>

\* The database left after the answer did.
CommitFails(r) ==
    /\ req[r].fase = "entregue" /\ ~Answers(req[r].sessao)
    /\ Finish(r, req[r].resposta, FALSE)
    /\ UNCHANGED <<mortas, banco, ativo, threads>>

\* The rollback of get_session, and only then the error handler's answer. On a
\* connection whose other end is gone the rollback may fail in its turn, and its
\* error takes the place of the one that was on its way.
Undo(r) ==
    \E resposta \in {req[r].resposta} \union {x \in {"perdida"} : req[r].sessao \in mortas} :
        /\ req[r].fase = "desfazer"
        /\ Finish(r, resposta, FALSE)
        /\ UNCHANGED <<mortas, banco, ativo, threads>>

-----------------------------------------------------------------------------
(* A refusal's own transaction.                                              *)

BeginRecord(r) ==
    \E c \in Conexoes :
        /\ req[r].fase = "anotar"
        /\ Take(c)
        /\ req' = [req EXCEPT ![r].fase = "anotando", ![r].propria = c]
        /\ desfecho' = Nothing
        /\ UNCHANGED <<banco, ativo, threads>>

CommitRecord(r) ==
    /\ req[r].fase = "anotando" /\ Answers(req[r].propria)
    /\ req' = [req EXCEPT ![r].fase = "desfazer", ![r].resposta = "recusado",
                          ![r].propria = Nobody, ![r].anotado = TRUE]
    /\ Return({req[r].propria})
    /\ desfecho' = Nothing
    /\ UNCHANGED <<mortas, banco, ativo, threads>>

-----------------------------------------------------------------------------
(* What goes wrong.                                                          *)

\* A refusal that goes out although its row could not be written (a mutant).
TimeOutSwallowed(r) ==
    /\ req[r].fase \in Asking
    /\ emprestadas = Conexoes
    /\ Raise(r, IF req[r].fase = "anotar" THEN "recusado" ELSE "esgotado")
    /\ desfecho' = Nothing
    /\ UNCHANGED <<mortas, banco, ativo, threads>>

\* A pool without a timeout for the sessions of the handlers (a mutant).
TimeOutOfTheLimitOnly(r) ==
    /\ req[r].fase = "contar"
    /\ emprestadas = Conexoes
    /\ Raise(r, "esgotado")
    /\ desfecho' = Nothing
    /\ UNCHANGED <<mortas, banco, ativo, threads>>

\* The pool's timeout: an error like any other, so the request is rolled back.
TimeOut(r) ==
    /\ req[r].fase \in Asking
    /\ emprestadas = Conexoes
    /\ Raise(r, "esgotado")
    /\ desfecho' = Nothing
    /\ UNCHANGED <<mortas, banco, ativo, threads>>

CannotConnect(r) ==
    /\ req[r].fase \in Asking
    /\ emprestadas # Conexoes /\ banco = "fora"
    /\ Raise(r, "fora")
    /\ desfecho' = Nothing
    /\ UNCHANGED <<mortas, banco, ativo, threads>>

\* The next statement on a connection whose other end went away.
LoseConnection(r) ==
    /\ \/ req[r].fase \in {"contando", "anotando"} /\ ~Answers(req[r].propria)
       \/ req[r].fase = "decidir" /\ ~Answers(req[r].sessao)
    /\ Raise(r, "perdida")
    /\ desfecho' = Nothing
    /\ UNCHANGED <<mortas, banco, ativo, threads>>

DatabaseStops ==
    /\ banco = "de_pe"
    /\ banco' = "fora"
    /\ mortas' = Conexoes
    /\ req' = [r \in Requests |-> [req[r] EXCEPT !.atravessou = @ \/ Holds(r) # {}]]
    /\ desfecho' = Nothing
    /\ UNCHANGED <<emprestadas, ativo, threads>>

DatabaseStarts ==
    /\ banco = "fora"
    /\ banco' = "de_pe"
    /\ desfecho' = Nothing
    /\ UNCHANGED <<req, emprestadas, mortas, ativo, threads>>

\* Somebody else's committed block, or its undoing.
BlockCaller ==
    /\ ativo' = ~ativo
    /\ req' = [r \in Requests |-> [req[r] EXCEPT !.foiAtivo = @ \/ (~ativo /\ req[r].fase # "livre")]]
    /\ desfecho' = Nothing
    /\ UNCHANGED <<emprestadas, mortas, banco, threads>>

-----------------------------------------------------------------------------
WaitsForThread(r) ==
    \/ StartLimit(r) \/ Enter(r) \/ AdmitPerfil(r) \/ RefusePerfil(r) \/ StartHandler(r)

Proceeds(r) ==
    \/ CountHit(r) \/ HitCounted(r) \/ RefuseToken(r) \/ LoadCaller(r)
    \/ FirstQuery(r) \/ RefuseRecorded(r) \/ Reject(r) \/ Accept(r)
    \/ Commit(r) \/ CommitFails(r) \/ Undo(r) \/ BeginRecord(r) \/ CommitRecord(r)
    \/ TimeOut(r) \/ CannotConnect(r) \/ LoseConnection(r)

Next ==
    \/ \E r \in Requests : Arrive(r) \/ WaitsForThread(r) \/ Proceeds(r)
    \/ DatabaseStops \/ DatabaseStarts \/ BlockCaller

Spec == Init /\ [][Next]_vars

\* Threads are granted in the order they are asked for; a request that has its
\* thread runs, and waits for a connection no longer than the pool's timeout.
Fairness == \A r \in Requests : SF_vars(WaitsForThread(r)) /\ WF_vars(Proceeds(r))

FairSpec == Spec /\ Fairness

-----------------------------------------------------------------------------
(* Properties.                                                               *)

\* On every way out - answered, refused, timed out, rolled back, the database
\* gone, before or after the answer - a request gives back what it took: what the
\* pool has lent is what the requests hold, and no two hold one connection.
NoneLeaked ==
    /\ emprestadas = UNION {Holds(r) : r \in Requests}
    /\ \A r, s \in Requests : r # s => Holds(r) \intersect Holds(s) = {}
    /\ \A r \in Requests : /\ req[r].fase = "livre" => Holds(r) = {}
                           /\ Holds(r) # {} => req[r].sessao # req[r].propria

\* A refusal that must leave a trace (a failed login, a replay, a perfil, the
\* rate limit) is only ever answered once its row is committed, and a committed
\* one is answered as a refusal unless the database stopped under the request:
\* one whose second connection never came ends as an error, neither recorded nor
\* counted (AC-0001-18, _record_failure).
RefusedAsRecorded ==
    /\ desfecho.resposta = "recusado" => desfecho.anotado
    /\ desfecho.anotado /\ ~desfecho.atravessou => desfecho.resposta = "recusado"

\* The transaction of a request is committed only if the answer was a success,
\* and a success that left before its commit is undone only if the database
\* stopped under it: the pool never gets in between (get_session).
SuccessIsKept ==
    /\ desfecho.gravado => desfecho.resposta = "ok"
    /\ desfecho.resposta = "ok" /\ ~desfecho.atravessou => desfecho.gravado

\* A restart of the database fails only the requests that held a connection when
\* it stopped: the first one after it does not meet a dead connection
\* (core/db.py: "without this the first request after each restart fails").
RestartSparesNewcomers ==
    desfecho.resposta = "perdida" => desfecho.atravessou

\* However long the token lives, a caller who was blocked before a request
\* arrived and stays so is not served by it (AC-0001-08).
BlockedIsRefused ==
    desfecho.resposta = "ok" /\ desfecho.rota # "login" => desfecho.foiAtivo

\* Every request ends, also when all connections are held by requests that wait
\* for a second one, or for a thread held by one that waits for a connection.
EveryRequestEnds ==
    \A r \in Requests : req[r].fase # "livre" ~> req[r].fase = "livre"

===============================================================================

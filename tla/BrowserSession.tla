---------------------------- MODULE BrowserSession ----------------------------
(***************************************************************************)
(* The session as the tabs of one browser hold it (frontend/lib/session.ts,*)
(* components/session-provider.tsx) against the refresh and logout of the  *)
(* API (api/auth.py), which answers before it commits (core/db.py).        *)
(*                                                                         *)
(* A tab keeps its access token and the promise of its refresh in memory;  *)
(* the cookie jar and the Web Lock are shared.  A call of apiFetch is      *)
(*                                                                         *)
(*   renovando1  waiting for a refresh, having no token to send            *)
(*   enviada1    on the wire with the token of the tab                     *)
(*   renovando2  waiting for a refresh, having been told TOKEN_EXPIRED     *)
(*   enviada2    on the wire for the second and last time                  *)
(*                                                                         *)
(* and the refresh of a tab (`voo`) is queued for the lock or sent.  What  *)
(* was sent is a request (`pedido`) of its own, which outlives its page:   *)
(*                                                                         *)
(*   enviado     on its way to the API                                     *)
(*   lido        its token was read and was alive                          *)
(*   respondido  its answer is on its way back                             *)
(*                                                                         *)
(* The API answers a rotation first and commits it afterwards (`rotacao`). *)
(***************************************************************************)
EXTENDS Naturals, FiniteSets

CONSTANTS Tabs,        \* tabs of the browser
          Calls,       \* apiFetch calls running at the same time
          MaxToken,    \* bound on the refresh tokens issued
          Pedidos,     \* bound on the refresh requests under way
          HasLocks,    \* navigator.locks exists
          Nobody       \* no tab, no request

ASSUME MaxTokenAssumption == MaxToken \in Nat \ {0}
ASSUME HasLocksAssumption == HasLocks \in BOOLEAN
ASSUME NobodyAssumption == Nobody \notin Tabs \union Pedidos

VARIABLES jar,         \* the refresh cookie; 0 when there is none
          acesso,      \* the tabs with an access token in memory
          voo,         \* per tab: inFlight
          lock,        \* holder of the Web Lock
          chamada,     \* the calls of apiFetch
          pedido,      \* the refresh requests under way
          sessao,      \* what each refresh token is
          rotacao,     \* the rotation that is answered and not committed
          marcas       \* history: tokens whose answer the browser never stored

vars == <<jar, acesso, voo, lock, chamada, pedido, sessao, rotacao, marcas>>

Token == 1..MaxToken
Cookie == 0..MaxToken

\* "emitida" is a token that was answered and has no committed row; "encerrada"
\* one of a session that logged out or was replayed.
Sessao == {"ausente", "emitida", "viva", "gasta", "encerrada"}

Voo == [fase : {"nada", "fila", "enviado"}, pedido : Pedidos \union {Nobody}]

Landed == [fase |-> "nada", pedido |-> Nobody]

\* nova is the token the answer carries, 0 when the refresh was refused.
Pedido == [fase : {"livre", "enviado", "lido", "respondido"}, cookie : Cookie, nova : Cookie]

Done == [fase |-> "livre", cookie |-> 0, nova |-> 0]

\* A rotation spends de and makes nova alive when it commits.
Rotacao == [de : Cookie, nova : Cookie]

NoRotation == [de |-> 0, nova |-> 0]

Chamada == [fase : {"livre", "renovando1", "enviada1", "renovando2", "enviada2"},
            aba : Tabs \union {Nobody}]

Settled == [fase |-> "livre", aba |-> Nobody]

\* The types, and that only a tab whose refresh is sent holds the lock.
TypeOK ==
    /\ jar \in Cookie
    /\ acesso \subseteq Tabs
    /\ voo \in [Tabs -> Voo]
    /\ \A t \in Tabs : voo[t].fase = "enviado" <=> voo[t].pedido # Nobody
    /\ lock \in Tabs \union {Nobody}
    /\ lock # Nobody => voo[lock].fase = "enviado"
    /\ chamada \in [Calls -> Chamada]
    /\ \A x \in Calls : chamada[x].fase # "livre" => chamada[x].aba \in Tabs
    /\ pedido \in [Pedidos -> Pedido]
    /\ sessao \in [Token -> Sessao]
    /\ rotacao \in Rotacao
    /\ marcas \subseteq Token

\* Somebody is signed in; a tab has loaded its page or is about to.  Tokens spent
\* before this one are in no jar and on no wire.
Init ==
    /\ jar = 1
    /\ acesso \in SUBSET Tabs
    /\ voo = [t \in Tabs |-> Landed]
    /\ lock = Nobody
    /\ chamada = [x \in Calls |-> Settled]
    /\ pedido = [p \in Pedidos |-> Done]
    /\ sessao = [k \in Token |-> IF k = 1 THEN "viva" ELSE "ausente"]
    /\ rotacao = NoRotation
    /\ marcas = {}

-----------------------------------------------------------------------------
(* The browser.                                                              *)

Browser == <<jar, acesso, voo, lock, chamada>>
Server == <<sessao, rotacao, marcas>>

\* The refresh request leaves with the cookie the jar has then.
Send(t) ==
    \E p \in Pedidos :
        /\ pedido[p].fase = "livre"
        /\ p = CHOOSE q \in Pedidos : pedido[q].fase = "livre"
        /\ pedido' = [pedido EXCEPT ![p] = [fase |-> "enviado", cookie |-> jar, nova |-> 0]]
        /\ voo' = [voo EXCEPT ![t] = [fase |-> "enviado", pedido |-> p]]

\* refresh(): the tab's promise if there is one, else a new one that waits for
\* the lock, or sends at once where there is no lock.
Refresh(t) ==
    IF voo[t].fase # "nada" THEN UNCHANGED <<voo, pedido>>
    ELSE IF HasLocks THEN voo' = [voo EXCEPT ![t].fase = "fila"] /\ UNCHANGED pedido
    ELSE Send(t)

StartCall(x) ==
    \E t \in Tabs :
        /\ chamada[x].fase = "livre"
        /\ IF t \in acesso
           THEN /\ chamada' = [chamada EXCEPT ![x] = [fase |-> "enviada1", aba |-> t]]
                /\ UNCHANGED <<voo, pedido>>
           ELSE /\ chamada' = [chamada EXCEPT ![x] = [fase |-> "renovando1", aba |-> t]]
                /\ Refresh(t)
        /\ UNCHANGED <<jar, acesso, lock, Server>>

\* A queue that another tab's request does not hold up (a mutant).
QueueOfItsOwn(t) ==
    /\ voo[t].fase = "fila"
    /\ lock' = t
    /\ Send(t)
    /\ UNCHANGED <<jar, acesso, chamada, Server>>

TakeLock(t) ==
    /\ voo[t].fase = "fila"
    /\ lock = Nobody
    /\ lock' = t
    /\ Send(t)
    /\ UNCHANGED <<jar, acesso, chamada, Server>>

\* The callers of a refresh go on with the new token, or reject with its error.
Resume(t, renewed) ==
    chamada' = [x \in Calls |->
        IF chamada[x].aba # t \/ chamada[x].fase \notin {"renovando1", "renovando2"} THEN chamada[x]
        ELSE IF ~renewed THEN Settled
        ELSE [chamada[x] EXCEPT !.fase = IF @ = "renovando1" THEN "enviada1" ELSE "enviada2"]]

\* A promise that is cleared while its lock is kept (a mutant).
LandKeepingLock(t) == voo' = [voo EXCEPT ![t] = Landed] /\ UNCHANGED lock

\* The task of withLock settles: the lock is released and inFlight cleared.
Land(t) ==
    /\ voo' = [voo EXCEPT ![t] = Landed]
    /\ lock' = IF lock = t THEN Nobody ELSE lock

Sent(t) == voo[t].fase = "enviado"
Request(t) == pedido[voo[t].pedido]
Answered(t) == Sent(t) /\ Request(t).fase = "respondido"

\* What the jar makes of the answer to a refresh: it stores the cookie, or the
\* answer never reaches it, and then the token it holds may be spent already: the
\* request was lost on its way, or goes on without its page.
StoreAnswer(t) ==
    /\ Answered(t)
    /\ jar' = IF Request(t).nova = 0 THEN jar ELSE Request(t).nova
    /\ pedido' = [pedido EXCEPT ![voo[t].pedido] = Done]
    /\ UNCHANGED marcas

MissAnswer(t) ==
    /\ Sent(t)
    /\ marcas' = IF Request(t).cookie = 0 THEN marcas ELSE marcas \union {Request(t).cookie}
    /\ \/ pedido' = [pedido EXCEPT ![voo[t].pedido] = Done]
       \/ ~Answered(t) /\ UNCHANGED pedido
    /\ UNCHANGED jar

\* The cookie is in the jar before the promise of fetch resolves.
Deliver(t) ==
    LET renewed == Request(t).nova # 0
    IN /\ StoreAnswer(t)
       /\ acesso' = IF renewed THEN acesso \union {t} ELSE acesso \ {t}
       /\ Resume(t, renewed)
       /\ Land(t)
       /\ UNCHANGED <<sessao, rotacao>>

\* No answer, or one cut after its headers: fetch or json() rejects and the
\* token in memory stays as it was.
Lose(t) ==
    /\ \/ StoreAnswer(t) /\ Request(t).nova # 0
       \/ MissAnswer(t)
    /\ Resume(t, FALSE)
    /\ Land(t)
    /\ UNCHANGED <<acesso, sessao, rotacao>>

\* The page is left or reloaded: its memory and its lock are gone, and a request
\* it had sent goes on without it.
Leave(t) ==
    /\ t \in acesso \/ voo[t] # Landed
    /\ acesso' = acesso \ {t}
    /\ chamada' = [x \in Calls |-> IF chamada[x].aba = t THEN Settled ELSE chamada[x]]
    /\ \/ ~Sent(t) /\ UNCHANGED <<jar, pedido, marcas>>
       \/ StoreAnswer(t)
       \/ MissAnswer(t)
    /\ Land(t)
    /\ UNCHANGED <<sessao, rotacao>>

\* The API's answer to a call: a result, or TOKEN_EXPIRED when the fifteen minutes
\* of its token are over by then; a call is retried once.
SettleCall(x) ==
    /\ chamada[x].fase \in {"enviada1", "enviada2"}
    /\ chamada' = [chamada EXCEPT ![x] = Settled]
    /\ UNCHANGED <<jar, acesso, voo, lock, pedido, Server>>

RetryCall(x) ==
    /\ chamada[x].fase = "enviada1"
    /\ chamada' = [chamada EXCEPT ![x].fase = "renovando2"]
    /\ Refresh(chamada[x].aba)
    /\ UNCHANGED <<jar, acesso, lock, Server>>

-----------------------------------------------------------------------------
(* The API.                                                                  *)

Alive(k) == k # 0 /\ sessao[k] = "viva"
Spent(k) == k # 0 /\ sessao[k] \in {"gasta", "encerrada"}

\* A request nobody waits for: its page was left, or gave its answer up.
Orphan(p) == \A t \in Tabs : voo[t].pedido # p

Answer(p, nova) ==
    pedido' = [pedido EXCEPT ![p] = IF Orphan(p) THEN Done
                                    ELSE [@ EXCEPT !.fase = "respondido", !.nova = nova]]

\* by_hash, and _RoleOfRecord for a token that is alive.
ReadToken(p) ==
    /\ pedido[p].fase = "enviado"
    /\ Alive(pedido[p].cookie)
    /\ pedido' = [pedido EXCEPT ![p].fase = "lido"]
    /\ UNCHANGED <<Browser, Server>>

\* A token value no rotation has issued yet.
Fresh == CHOOSE k \in Token : sessao[k] = "ausente"

\* The row of the token is locked by the rotation of it that is under way, and
\* UNIQUE (family, generation) keeps the rotations of another live token out.
MayRotate == rotacao = NoRotation /\ \E k \in Token : sessao[k] = "ausente"

\* rotate, from the revocation of the token read to the answer.  The UPDATE names
\* the row by its id, so it applies to a token spent since it was read too.
Rotate(p) ==
    /\ pedido[p].fase = "lido"
    /\ MayRotate
    /\ sessao' = [sessao EXCEPT ![Fresh] = "emitida"]
    /\ rotacao' = [de |-> pedido[p].cookie, nova |-> Fresh]
    /\ Answer(p, Fresh)
    /\ UNCHANGED <<Browser, marcas>>

\* Every other refusal: no cookie, a token that is unknown because it has not
\* been committed, an expired one, an account that is not ativo, a generation
\* that another rotation has taken.
RefuseRefresh(p) ==
    /\ \/ pedido[p].fase = "enviado" /\ ~Spent(pedido[p].cookie)
       \/ pedido[p].fase = "lido"
    /\ Answer(p, 0)
    /\ UNCHANGED <<Browser, Server>>

\* A replay or a logout ends the session: every committed token of it, and not
\* the one a rotation has not committed yet.
EndSession ==
    sessao' = [k \in Token |-> IF sessao[k] \in {"viva", "gasta"} THEN "encerrada" ELSE sessao[k]]

Replay(p) ==
    /\ pedido[p].fase = "enviado"
    /\ Spent(pedido[p].cookie)
    /\ EndSession
    /\ Answer(p, 0)
    /\ UNCHANGED <<Browser, rotacao, marcas>>

\* logout(), which waits for neither the lock nor a refresh in flight, and close,
\* which revokes the family whatever token of it is presented.  The request may be
\* lost, or its answer, which deletes the cookie; the tab forgets its token.  The
\* menu that calls logout is there once the page knows its usuario (a page whose
\* token was refused meanwhile still shows it, which is left out).
Logout(t) ==
    /\ t \in acesso
    /\ acesso' = acesso \ {t}
    /\ \/ UNCHANGED <<jar, sessao>>
       \/ /\ IF Alive(jar) \/ Spent(jar) THEN EndSession ELSE UNCHANGED sessao
          /\ jar' \in {jar, 0}
    /\ UNCHANGED <<voo, lock, chamada, pedido, rotacao, marcas>>

\* A rotation that leaves the presented token alive (a mutant).
CommitWithoutSpending ==
    /\ rotacao # NoRotation
    /\ sessao' = [sessao EXCEPT ![rotacao.nova] = "viva"]
    /\ rotacao' = NoRotation
    /\ UNCHANGED <<Browser, pedido, marcas>>

\* get_session commits the rotation: its token is spent and the new one alive.
CommitRotation ==
    /\ rotacao # NoRotation
    /\ sessao' = [k \in Token |-> IF k = rotacao.nova THEN "viva"
                                  ELSE IF k = rotacao.de /\ sessao[k] = "viva" THEN "gasta"
                                  ELSE sessao[k]]
    /\ rotacao' = NoRotation
    /\ UNCHANGED <<Browser, pedido, marcas>>

\* The commit fails after the answer left: the token in it never works.
FailCommit ==
    /\ rotacao # NoRotation
    /\ rotacao' = NoRotation
    /\ UNCHANGED <<Browser, pedido, sessao, marcas>>

Serve(p) == ReadToken(p) \/ Rotate(p) \/ RefuseRefresh(p) \/ Replay(p)

Next ==
    \/ \E x \in Calls : StartCall(x) \/ SettleCall(x) \/ RetryCall(x)
    \/ \E t \in Tabs : \/ TakeLock(t) \/ Deliver(t) \/ Lose(t) \/ Leave(t) \/ Logout(t)
    \/ \E p \in Pedidos : Serve(p)
    \/ CommitRotation
    \/ FailCommit

Spec == Init /\ [][Next]_vars

\* A request that is not lost is served, and an answer that is not lost arrives.
\* The browser grants its lock in turn, and no tab's request is passed over for
\* ever; nothing obliges anybody to start a call, to leave a page or to log out.
Fairness ==
    /\ WF_vars(\E p \in Pedidos : Serve(p))
    /\ WF_vars(\E t \in Tabs : Deliver(t))
    /\ \A t \in Tabs : SF_vars(TakeLock(t))
    /\ \A x \in Calls : WF_vars(SettleCall(x))

FairSpec == Spec /\ Fairness

-----------------------------------------------------------------------------
(* Properties.                                                               *)

\* The API takes a refresh for a replay only when the session was ended, or the
\* answer to an earlier use of that token never reached the browser: two tabs,
\* or two calls of a tab, do not log each other out (AC-0010-46, AC-0010-47).
ReplayHasAReason ==
    [][\A p \in Pedidos : Replay(p) =>
           pedido[p].cookie \in marcas \/ sessao[pedido[p].cookie] = "encerrada"]_vars

\* As long as no answer was missed, one token at most works: the lock of the
\* browser is what keeps rotate from being run twice with one token (session.ts:
\* "a refresh must never run twice with the same cookie").
OneTokenAlive ==
    marcas = {} => \A j, k \in Token : Alive(j) /\ Alive(k) => j = k

\* A call of apiFetch does not hang: whatever is refused, lost or left behind, the
\* lock and the promise its caller waits on are given up.
Settles(x) == chamada[x].fase # "livre" ~> chamada[x].fase = "livre"

=============================================================================

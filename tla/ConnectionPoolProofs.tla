------------------------ MODULE ConnectionPoolProofs ------------------------
(***************************************************************************)
(* The safety theorems about ConnectionPool, for any number of requests,   *)
(* connections and worker threads.                                         *)
(***************************************************************************)
EXTENDS ConnectionPool, TLAPS

USE NobodyAssumption, RotasAssumption

-----------------------------------------------------------------------------
(* What a request in a phase has, has answered and has seen.                 *)

\* Which of its two connections a request has follows from its phase.
Lends(p) ==
    /\ p.sessao # Nobody =>
          p.fase \in {"perfil", "rota", "decidir", "anotar", "anotando", "entregue", "desfazer"}
    /\ p.fase \in {"perfil", "decidir", "entregue"} => p.sessao # Nobody
    /\ p.propria # Nobody <=> p.fase \in {"contando", "anotando"}
    /\ p.sessao # Nobody => p.sessao # p.propria

\* An answer is chosen on the way out, and recusado exactly by what wrote the row.
Decides(p) ==
    /\ p.fase \notin {"entregue", "desfazer"} => p.resposta = "nenhuma"
    /\ p.fase = "entregue" => p.resposta = "ok"
    /\ p.fase = "desfazer" => p.resposta \notin {"nenhuma", "ok"}
    /\ p.anotado <=> p.resposta = "recusado"

\* A connection that is gone went while the request had it.
Witnesses(p, gone) ==
    /\ p.sessao \in gone \/ p.propria \in gone => p.atravessou
    /\ p.resposta = "perdida" => p.atravessou

\* Past current_usuario, the caller was ativo at some time since the arrival.
Knows(p, active) ==
    /\ p.fase # "livre" /\ active => p.foiAtivo
    /\ /\ p.fase \in {"perfil", "rota", "consultar", "decidir", "entregue"}
       /\ p.rota # "login"
       => p.foiAtivo

Sound(p, gone, active) ==
    Lends(p) /\ Decides(p) /\ Witnesses(p, gone) /\ Knows(p, active)

TInv == TypeOK /\ \A r \in Requests : Sound(req[r], mortas, ativo)

-----------------------------------------------------------------------------
(* One request's step, and what the pool does in it.                         *)

\* The pool lends the request nothing, one connection, or takes one back.
Kept(r, k) == Held(k) = Holds(r) /\ UNCHANGED emprestadas

Lent(r, k) ==
    \E c \in Conexoes : /\ c \notin emprestadas /\ Held(k) = Holds(r) \union {c}
                        /\ emprestadas' = emprestadas \union {c}

GivenBack(r, k) ==
    \E c \in Holds(r) \union {Nobody} : /\ Held(k) = Holds(r) \ {c}
                                        /\ emprestadas' = emprestadas \ {c}

Step(r, k) ==
    /\ k \in Request /\ req' = [req EXCEPT ![r] = k]
    /\ Sound(k, mortas', ativo')
    /\ mortas' \subseteq mortas
    /\ UNCHANGED <<banco, ativo, threads>>
    /\ Kept(r, k) \/ Lent(r, k) \/ GivenBack(r, k)

PoolInv == TInv /\ NoneLeaked

LEMMA HeldTyped == ASSUME NEW k \in Request PROVE Held(k) \subseteq Conexoes
  BY DEF Held, Request

LEMMA StepIsTyped ==
    ASSUME TInv, NEW r \in Requests, NEW k, Step(r, k), desfecho' \in Desfecho
    PROVE  TInv'
<1>1. emprestadas' \subseteq Conexoes
  <2>1. req[r] \in Request /\ emprestadas \subseteq Conexoes
    BY DEF TInv, TypeOK
  <2>2. Holds(r) \subseteq Conexoes
    BY <2>1, HeldTyped DEF Holds
  <2>3. QED
    BY <2>1, <2>2 DEF Step, Kept, Lent, GivenBack
<1>2. TypeOK'
  BY <1>1 DEF TInv, TypeOK, Step
<1>3. ASSUME NEW s \in Requests PROVE Sound(req[s], mortas, ativo)'
  <2>1. CASE s = r
    BY <2>1 DEF TInv, TypeOK, Step
  <2>2. CASE s # r
    <3>1. req'[s] = req[s] /\ Sound(req[s], mortas, ativo)
      BY <2>2 DEF TInv, TypeOK, Step
    <3>2. QED
      BY <3>1 DEF Sound, Lends, Decides, Witnesses, Knows, Step
  <2>3. QED
    BY <2>1, <2>2
<1>4. QED
  BY <1>2, <1>3 DEF TInv

\* What the pool has lent is still what the requests hold.
LEMMA StepLeaksNothing ==
    ASSUME PoolInv, NEW r \in Requests, NEW k, Step(r, k), TInv'
    PROVE  NoneLeaked'
<1> DEFINE other == UNION {Holds(s) : s \in Requests \ {r}}
<1>1. /\ emprestadas = Holds(r) \union other
      /\ Holds(r) \intersect other = {}
      /\ Nobody \notin Holds(r)
  BY DEF PoolInv, NoneLeaked, Holds, Held
<1>2. /\ Holds(r)' = Held(k)
      /\ \A s \in Requests \ {r} : Holds(s)' = Holds(s)
  BY DEF PoolInv, TInv, TypeOK, Step, Holds
<1>3. /\ emprestadas' = Held(k) \union other
      /\ Held(k) \intersect other = {}
  <2>1. CASE Kept(r, k)
    BY <1>1, <2>1 DEF Kept
  <2>2. CASE Lent(r, k)
    <3> HIDE DEF other
    <3>1. QED
      BY <1>1, <2>2 DEF Lent
  <2>3. CASE GivenBack(r, k)
    <3>1. other \subseteq Conexoes
      BY HeldTyped DEF PoolInv, TInv, TypeOK, Holds
    <3> HIDE DEF other
    <3>2. PICK c \in Holds(r) \union {Nobody} : /\ Held(k) = Holds(r) \ {c}
                                                /\ emprestadas' = emprestadas \ {c}
      BY <2>3 DEF GivenBack
    <3>3. c \notin other
      BY <1>1, <3>1
    <3>4. QED
      BY <1>1, <3>2, <3>3
  <2>4. QED
    BY <2>1, <2>2, <2>3 DEF Step
<1>4. (emprestadas = UNION {Holds(s) : s \in Requests})'
  BY <1>2, <1>3
<1>5. ASSUME NEW s \in Requests, NEW t \in Requests, s # t
      PROVE  (Holds(s) \intersect Holds(t) = {})'
  <2>1. Holds(s) \intersect Holds(t) = {}
    BY <1>5 DEF PoolInv, NoneLeaked
  <2>2. CASE s # r /\ t # r
    BY <1>2, <2>1, <2>2
  <2>3. CASE s = r /\ t # r
    BY <1>2, <1>3, <2>3
  <2>4. CASE s # r /\ t = r
    BY <1>2, <1>3, <2>4
  <2>5. QED
    BY <1>5, <2>2, <2>3, <2>4
<1>6. ASSUME NEW s \in Requests
      PROVE  (/\ req[s].fase = "livre" => Holds(s) = {}
              /\ Holds(s) # {} => req[s].sessao # req[s].propria)'
  BY <1>6 DEF TInv, Sound, Lends, Holds, Held
<1>7. QED
  BY <1>4, <1>5, <1>6 DEF NoneLeaked

LEMMA NothingTyped == Nothing \in Desfecho
  BY DEF Nothing, Outcome, Idle, Desfecho, Resposta

-----------------------------------------------------------------------------
(* Every action of a request is such a step.                                 *)

\* What is known of a request before its step.
LEMMA Before ==
    ASSUME TInv, NEW r \in Requests
    PROVE  /\ req[r] \in Request /\ Sound(req[r], mortas, ativo)
           /\ req \in [Requests -> Request]
           /\ emprestadas \subseteq Conexoes /\ mortas \subseteq Conexoes /\ ativo \in BOOLEAN
  BY DEF TInv, TypeOK

\* A request with a field rewritten is a request.
LEMMA Rewritten ==
    ASSUME NEW p \in Request
    PROVE  /\ \A fase \in Fase : [p EXCEPT !.fase = fase] \in Request
           /\ \A c \in Conexoes \union {Nobody} : /\ [p EXCEPT !.sessao = c] \in Request
                                                  /\ [p EXCEPT !.propria = c] \in Request
           /\ \A resposta \in Resposta : [p EXCEPT !.resposta = resposta] \in Request
           /\ \A anotado \in BOOLEAN : [p EXCEPT !.anotado = anotado] \in Request
  BY DEF Request

\* A move between two phases that hold the same connections.
LEMMA GoesStep ==
    ASSUME TInv, NEW r \in Requests, NEW fase \in Fase \ {"livre", "entregue", "desfazer"},
           Goes(r, fase), UNCHANGED <<emprestadas, mortas, banco, ativo, threads>>,
           req[r].fase \notin {"livre", "entregue", "desfazer", "contando", "anotando"},
           fase \notin {"contando", "anotando"},
           req[r].sessao # Nobody => fase \in {"perfil", "rota", "decidir", "anotar"},
           req[r].sessao = Nobody => fase \notin {"perfil", "decidir"},
           fase \in {"perfil", "rota", "consultar", "decidir"} =>
              req[r].fase \in {"perfil", "rota", "consultar", "decidir"}
    PROVE  \E k : Step(r, k)
<1> DEFINE k == [req[r] EXCEPT !.fase = fase]
<1>1. k \in Request /\ req' = [req EXCEPT ![r] = k]
  BY Before DEF Goes, Request
<1>2. Sound(k, mortas', ativo')
  BY Before DEF Fase, Request, Sound, Lends, Decides, Witnesses, Knows
<1>3. Kept(r, k)
  BY Before DEF Kept, Held, Holds, Request
<1>4. Step(r, k)
  BY <1>1, <1>2, <1>3 DEF Step
<1>5. QED
  BY <1>4

LEMMA WaitsForThreadStep ==
    ASSUME TInv, NEW r \in Requests, WaitsForThread(r)
    PROVE  \E k : Step(r, k)
<1> USE Before DEF Sound, Lends, Fase
<1>1. CASE StartLimit(r)
  BY <1>1, GoesStep DEF StartLimit
<1>2. CASE Enter(r)
  BY <1>2, GoesStep DEF Enter
<1>3. CASE AdmitPerfil(r)
  BY <1>3, GoesStep DEF AdmitPerfil
<1>4. CASE RefusePerfil(r)
  BY <1>4, GoesStep DEF RefusePerfil
<1>5. CASE StartHandler(r)
  <2> DEFINE fase == IF req[r].sessao = Nobody THEN "consultar" ELSE "decidir"
  <2>1. Goes(r, fase) /\ req[r].fase = "rota"
        /\ UNCHANGED <<emprestadas, mortas, banco, ativo, threads>>
    BY <1>5 DEF StartHandler
  <2>2. fase \in {"consultar", "decidir"}
    OBVIOUS
  <2> HIDE DEF fase
  <2>3. fase = "decidir" <=> req[r].sessao # Nobody
    BY DEF fase
  <2>4. QED
    BY <2>1, <2>2, <2>3, GoesStep
<1>6. QED
  BY <1>1, <1>2, <1>3, <1>4, <1>5 DEF WaitsForThread

\* An exception, wherever it is raised.
LEMMA RaiseStep ==
    ASSUME TInv, NEW r \in Requests, NEW resposta \in Resposta \ {"nenhuma", "ok", "recusado"},
           Raise(r, resposta), UNCHANGED <<mortas, banco, ativo, threads>>,
           req[r].fase \notin {"livre", "entregue", "desfazer"},
           resposta = "perdida" => req[r].atravessou
    PROVE  \E k : Step(r, k)
<1> DEFINE k == [req[r] EXCEPT !.fase = "desfazer", !.resposta = resposta, !.propria = Nobody]
<1>1. k \in Request /\ req' = [req EXCEPT ![r] = k]
  <2>1. k \in Request
    <3> DEFINE k1 == [req[r] EXCEPT !.fase = "desfazer"]
           k2 == [k1 EXCEPT !.resposta = resposta]
    <3>1. k1 \in Request
      BY Before, Rewritten DEF Fase, Resposta
    <3>2. k2 \in Request
      BY <3>1, Rewritten DEF Fase, Resposta
    <3>3. k = [k2 EXCEPT !.propria = Nobody]
      OBVIOUS
    <3> HIDE DEF k, k1, k2
    <3>4. QED
      BY <3>2, <3>3, Rewritten DEF Resposta
  <2>2. req' = [req EXCEPT ![r] = k]
    BY Before DEF Raise
  <2>3. QED
    BY <2>1, <2>2
<1>2. Sound(k, mortas', ativo')
  BY Before DEF Fase, Request, Sound, Lends, Decides, Witnesses, Knows
<1>3. /\ Held(k) = Holds(r) \ {req[r].propria}
      /\ req[r].propria \in Holds(r) \union {Nobody}
      /\ emprestadas' = emprestadas \ {req[r].propria}
  <2>1. k.sessao = req[r].sessao /\ k.propria = Nobody
    BY Before DEF Request
  <2>2. req[r].sessao # Nobody => req[r].sessao # req[r].propria
    BY Before DEF Sound, Lends
  <2> HIDE DEF k
  <2>3. QED
    BY <2>1, <2>2 DEF Held, Holds, Raise, Return
<1>4. Step(r, k)
  BY <1>1, <1>2, <1>3 DEF Step, GivenBack
<1>5. QED
  BY <1>4

\* What a connection's other end being gone tells of its request.
LEMMA LostWasHeld ==
    ASSUME TInv, NEW r \in Requests, req[r].sessao \in mortas \/ req[r].propria \in mortas
    PROVE  req[r].atravessou
  BY Before DEF Sound, Witnesses

LEMMA FailsStep ==
    ASSUME TInv, NEW r \in Requests,
           \/ RefuseToken(r) \/ Reject(r) \/ TimeOut(r) \/ CannotConnect(r) \/ LoseConnection(r)
    PROVE  \E k : Step(r, k)
<1> USE Before DEF Resposta, Asking
<1>1. CASE RefuseToken(r)
  BY <1>1, RaiseStep DEF RefuseToken
<1>2. CASE Reject(r)
  BY <1>2, RaiseStep DEF Reject
<1>3. CASE TimeOut(r)
  BY <1>3, RaiseStep DEF TimeOut
<1>4. CASE CannotConnect(r)
  BY <1>4, RaiseStep DEF CannotConnect
<1>5. CASE LoseConnection(r)
  BY <1>5, RaiseStep, LostWasHeld DEF LoseConnection, Answers
<1>6. QED
  BY <1>1, <1>2, <1>3, <1>4, <1>5

\* A connection taken as the request's own (CountHit, BeginRecord).
LEMMA OwnStep ==
    ASSUME TInv, NEW r \in Requests, NEW c \in Conexoes, NEW fase \in {"contando", "anotando"},
           Take(c), UNCHANGED <<banco, ativo, threads>>,
           req' = [req EXCEPT ![r].fase = fase, ![r].propria = c],
           req[r].fase = IF fase = "contando" THEN "contar" ELSE "anotar",
           NoneLeaked
    PROVE  \E k : Step(r, k)
<1> DEFINE k == [req[r] EXCEPT !.fase = fase, !.propria = c]
<1>1. k \in Request /\ req' = [req EXCEPT ![r] = k]
  <2>1. k \in Request
    <3> DEFINE k1 == [req[r] EXCEPT !.fase = fase]
    <3>1. k1 \in Request
      BY Before, Rewritten DEF Fase, Resposta
    <3>2. k = [k1 EXCEPT !.propria = c]
      OBVIOUS
    <3> HIDE DEF k, k1
    <3>3. QED
      BY <3>1, <3>2, Rewritten DEF Resposta
  <2>2. req' = [req EXCEPT ![r] = k]
    BY Before
  <2>3. QED
    BY <2>1, <2>2
<1>2. c # Nobody /\ req[r].propria = Nobody
  BY Before DEF Sound, Lends
<1>3. c # req[r].sessao
  BY <1>2 DEF NoneLeaked, Holds, Held, Take
<1>4. mortas' \subseteq mortas /\ c \notin mortas'
  BY DEF Take
<1>5. Sound(k, mortas', ativo')
  BY <1>2, <1>3, <1>4, Before DEF Request, Sound, Lends, Decides, Witnesses, Knows
<1>6. Held(k) = Holds(r) \union {c}
  BY <1>2, Before DEF Held, Holds, Request
<1>7. Step(r, k)
  BY <1>1, <1>4, <1>5, <1>6 DEF Step, Lent, Take
<1>8. QED
  BY <1>7

\* A connection taken for get_session's transaction (FirstQuery, LoadCaller).
LEMMA SessionStep ==
    ASSUME TInv, NEW r \in Requests, NEW c \in Conexoes,
           NEW fase \in {"perfil", "rota", "decidir", "desfazer"}, NEW resposta,
           Take(c), UNCHANGED <<banco, ativo, threads>>,
           req' = [req EXCEPT ![r].fase = fase, ![r].sessao = c, ![r].resposta = resposta],
           req[r].fase \in {"conferir", "consultar"},
           resposta = IF fase = "desfazer" THEN "negado" ELSE "nenhuma",
           fase # "desfazer" => ativo \/ req[r].fase = "consultar"
    PROVE  \E k : Step(r, k)
<1> DEFINE k == [req[r] EXCEPT !.fase = fase, !.sessao = c, !.resposta = resposta]
<1>1. k \in Request /\ req' = [req EXCEPT ![r] = k]
  <2>1. k \in Request
    <3> DEFINE k1 == [req[r] EXCEPT !.fase = fase]
           k2 == [k1 EXCEPT !.sessao = c]
    <3>1. k1 \in Request
      BY Before, Rewritten DEF Fase, Resposta
    <3>2. k2 \in Request
      BY <3>1, Rewritten DEF Fase, Resposta
    <3>3. k = [k2 EXCEPT !.resposta = resposta]
      OBVIOUS
    <3> HIDE DEF k, k1, k2
    <3>4. QED
      BY <3>2, <3>3, Rewritten DEF Resposta
  <2>2. req' = [req EXCEPT ![r] = k]
    BY Before
  <2>3. QED
    BY <2>1, <2>2
<1>2. c # Nobody /\ req[r].propria = Nobody /\ req[r].sessao = Nobody
  BY Before DEF Sound, Lends
<1>3. mortas' \subseteq mortas /\ c \notin mortas'
  BY DEF Take
<1>4. Sound(k, mortas', ativo')
  BY <1>2, <1>3, Before DEF Request, Sound, Lends, Decides, Witnesses, Knows
<1>5. Held(k) = Holds(r) \union {c}
  BY <1>2, Before DEF Held, Holds, Request
<1>6. Step(r, k)
  BY <1>1, <1>3, <1>4, <1>5 DEF Step, Lent, Take
<1>7. QED
  BY <1>6

LEMMA TakesStep ==
    ASSUME PoolInv, NEW r \in Requests,
           CountHit(r) \/ BeginRecord(r) \/ FirstQuery(r) \/ LoadCaller(r)
    PROVE  \E k : Step(r, k)
<1>1. CASE CountHit(r)
  BY <1>1, OwnStep DEF PoolInv, CountHit
<1>2. CASE BeginRecord(r)
  BY <1>2, OwnStep DEF PoolInv, BeginRecord
<1>3. CASE FirstQuery(r)
  <2>1. PICK c \in Conexoes :
          /\ req[r].fase = "consultar" /\ Take(c)
          /\ req' = [req EXCEPT ![r].fase = "decidir", ![r].sessao = c]
          /\ UNCHANGED <<banco, ativo, threads>>
    BY <1>3 DEF FirstQuery
  <2>2. req[r].resposta = "nenhuma" /\ req[r] \in Request /\ req \in [Requests -> Request]
    BY <2>1, Before DEF PoolInv, Sound, Decides
  <2>3. req' = [req EXCEPT ![r].fase = "decidir", ![r].sessao = c, ![r].resposta = "nenhuma"]
    BY <2>1, <2>2 DEF Request
  <2>4. QED
    BY <2>1, <2>3, SessionStep DEF PoolInv
<1>4. CASE LoadCaller(r)
  <2> DEFINE fase == AfterCaller(r)
             resposta == IF fase = "desfazer" THEN "negado" ELSE "nenhuma"
  <2>1. PICK c \in Conexoes :
          /\ req[r].fase = "conferir" /\ Take(c)
          /\ req' = [req EXCEPT ![r].fase = fase, ![r].sessao = c, ![r].resposta = resposta]
          /\ UNCHANGED <<banco, ativo, threads>>
    BY <1>4 DEF LoadCaller
  <2>2. fase \in {"perfil", "rota", "desfazer"} /\ (fase # "desfazer" => ativo)
    BY DEF AfterCaller
  <2>3. QED
    BY <2>1, <2>2, SessionStep DEF PoolInv
<1>5. QED
  BY <1>1, <1>2, <1>3, <1>4

\* The standalone transaction of the counter or of a refusal, committed.
LEMMA OwnEndsStep ==
    ASSUME TInv, NEW r \in Requests, HitCounted(r) \/ CommitRecord(r)
    PROVE  \E k : Step(r, k)
<1>1. PICK fase \in Fase, resposta \in Resposta, anotado \in BOOLEAN :
        /\ req' = [req EXCEPT ![r].fase = fase, ![r].resposta = resposta,
                              ![r].propria = Nobody, ![r].anotado = anotado]
        /\ \/ /\ req[r].fase = "contando" /\ fase \in {"rota", "entrar", "anotar"}
              /\ fase = "rota" => req[r].rota = "login"
              /\ resposta = "nenhuma" /\ ~anotado
           \/ /\ req[r].fase = "anotando" /\ fase = "desfazer"
              /\ resposta = "recusado" /\ anotado
        /\ emprestadas' = emprestadas \ {req[r].propria}
        /\ UNCHANGED <<mortas, banco, ativo, threads>>
  <2>1. CASE HitCounted(r)
    <3>1. PICK fase \in {AfterLimit(r), "anotar"} :
            /\ req[r].fase = "contando"
            /\ req' = [req EXCEPT ![r].fase = fase, ![r].propria = Nobody]
      BY <2>1 DEF HitCounted
    <3>2. /\ req[r] \in Request /\ req \in [Requests -> Request]
          /\ req[r].resposta = "nenhuma" /\ req[r].anotado = FALSE
      BY <3>1, Before DEF Sound, Decides, Request
    <3>3. req' = [req EXCEPT ![r].fase = fase, ![r].resposta = "nenhuma",
                             ![r].propria = Nobody, ![r].anotado = FALSE]
      <4>1. [req[r] EXCEPT !.fase = fase, !.propria = Nobody] =
               [req[r] EXCEPT !.fase = fase, !.resposta = "nenhuma",
                              !.propria = Nobody, !.anotado = FALSE]
        BY <3>2 DEF Request
      <4>2. QED
        BY <3>1, <3>2, <4>1
    <3>4. fase \in {"rota", "entrar", "anotar"} /\ (fase = "rota" => req[r].rota = "login")
      BY DEF AfterLimit
    <3>5. QED
      BY <2>1, <3>1, <3>3, <3>4 DEF HitCounted, Return, Fase, Resposta
  <2>2. CASE CommitRecord(r)
    BY <2>2 DEF CommitRecord, Return, Fase, Resposta
  <2>3. QED
    BY <2>1, <2>2
<1> DEFINE k == [req[r] EXCEPT !.fase = fase, !.resposta = resposta,
                               !.propria = Nobody, !.anotado = anotado]
<1>2. k \in Request
  <2> DEFINE k1 == [req[r] EXCEPT !.fase = fase]
             k2 == [k1 EXCEPT !.resposta = resposta]
             k3 == [k2 EXCEPT !.propria = Nobody]
  <2>1. k1 \in Request
    BY Before, Rewritten
  <2>2. k2 \in Request
    BY <2>1, Rewritten
  <2>3. k3 \in Request
    BY <2>2, Rewritten
  <2>4. k = [k3 EXCEPT !.anotado = anotado]
    OBVIOUS
  <2> HIDE DEF k, k1, k2, k3
  <2>5. QED
    BY <2>3, <2>4, Rewritten
<1>3. req' = [req EXCEPT ![r] = k]
  BY <1>1, Before
<1>4. Sound(k, mortas', ativo')
  BY <1>1, Before DEF Request, Sound, Lends, Decides, Witnesses, Knows
<1>5. /\ Held(k) = Holds(r) \ {req[r].propria}
      /\ req[r].propria \in Holds(r) \union {Nobody}
  <2>1. k.sessao = req[r].sessao /\ k.propria = Nobody
    BY Before DEF Request
  <2>2. req[r].sessao # Nobody => req[r].sessao # req[r].propria
    BY Before DEF Sound, Lends
  <2> HIDE DEF k
  <2>3. QED
    BY <2>1, <2>2 DEF Held, Holds
<1>6. Step(r, k)
  BY <1>1, <1>2, <1>3, <1>4, <1>5 DEF Step, GivenBack
<1>7. QED
  BY <1>6

LEMMA AcceptStep ==
    ASSUME TInv, NEW r \in Requests, Accept(r)
    PROVE  \E k : Step(r, k)
<1> DEFINE k1 == [req[r] EXCEPT !.fase = "entregue"]
           k == [k1 EXCEPT !.resposta = "ok"]
<1>1. k1 \in Request
  BY Before, Rewritten DEF Fase
<1>2. k \in Request
  <2> HIDE DEF k1
  <2>1. QED
    BY <1>1, Rewritten DEF Resposta
<1>3. req' = [req EXCEPT ![r] = k]
  BY Before DEF Accept
<1>4. Sound(k, mortas', ativo')
  BY Before DEF Accept, Request, Sound, Lends, Decides, Witnesses, Knows
<1>5. Held(k) = Holds(r)
  BY Before DEF Held, Holds, Request
<1>6. Step(r, k)
  BY <1>2, <1>3, <1>4, <1>5 DEF Step, Kept, Accept
<1>7. QED
  BY <1>6

LEMMA ArriveStep ==
    ASSUME TInv, NEW r \in Requests, Arrive(r)
    PROVE  \E k : Step(r, k)
<1>1. PICK rota \in Rotas :
        /\ req[r].fase = "livre"
        /\ req' = [req EXCEPT ![r] = [Idle EXCEPT
                       !.fase = IF rota = "atas" THEN "entrar" ELSE "limite",
                       !.rota = rota, !.foiAtivo = ativo]]
  BY DEF Arrive
<1> DEFINE k == [Idle EXCEPT !.fase = IF rota = "atas" THEN "entrar" ELSE "limite",
                             !.rota = rota, !.foiAtivo = ativo]
<1>2. k \in Request
  BY Before DEF Idle, Request, Fase, Resposta
<1>3. Sound(k, mortas', ativo')
  BY Before DEF Arrive, Idle, Sound, Lends, Decides, Witnesses, Knows
<1>4. Held(k) = Holds(r)
  BY <1>1, Before DEF Held, Holds, Idle, Sound, Lends
<1>5. Step(r, k)
  BY <1>1, <1>2, <1>3, <1>4 DEF Step, Kept, Arrive
<1>6. QED
  BY <1>5

\* The end of a request's own session.
LEMMA FinishStep ==
    ASSUME TInv, NEW r \in Requests, NEW resposta, NEW gravado,
           Finish(r, resposta, gravado), UNCHANGED <<mortas, banco, ativo, threads>>,
           req[r].fase \in {"entregue", "desfazer"}
    PROVE  \E k : Step(r, k)
<1>1. Idle \in Request /\ Sound(Idle, mortas', ativo')
  BY Before DEF Idle, Request, Fase, Resposta, Sound, Lends, Decides, Witnesses, Knows
<1>2. req[r].propria = Nobody
  BY Before DEF Sound, Lends
<1>3. Held(Idle) = Holds(r) \ {req[r].sessao} /\ req[r].sessao \in Holds(r) \union {Nobody}
  BY <1>2 DEF Held, Holds, Idle
<1>4. Step(r, Idle)
  BY <1>1, <1>3 DEF Step, GivenBack, Finish, Return
<1>5. QED
  BY <1>4

-----------------------------------------------------------------------------
(* The steps outside the requests.                                           *)

\* They change nothing a request holds.
LEMMA OutsideStep ==
    ASSUME PoolInv, DatabaseStops \/ DatabaseStarts \/ BlockCaller,
           desfecho' \in Desfecho
    PROVE  PoolInv'
<1>1. /\ emprestadas' = emprestadas /\ threads' = threads
      /\ mortas' \subseteq Conexoes /\ banco' \in {"de_pe", "fora"} /\ ativo' \in BOOLEAN
  BY DEF DatabaseStops, DatabaseStarts, BlockCaller, PoolInv, TInv, TypeOK
<1>2. \E a, f \in [Requests -> BOOLEAN] :
        req' = [r \in Requests |-> [req[r] EXCEPT !.atravessou = a[r], !.foiAtivo = f[r]]]
  <2>1. ASSUME NEW r \in Requests
        PROVE  /\ req[r] \in Request
               /\ req[r].atravessou \in BOOLEAN /\ req[r].foiAtivo \in BOOLEAN
    BY Before DEF PoolInv, Request
  <2> DEFINE crossed == [r \in Requests |-> req[r].atravessou \/ Holds(r) # {}]
             same == [r \in Requests |-> req[r].atravessou]
             knew == [r \in Requests |-> req[r].foiAtivo]
             knows == [r \in Requests |-> req[r].foiAtivo \/ (~ativo /\ req[r].fase # "livre")]
  <2>2. /\ crossed \in [Requests -> BOOLEAN] /\ same \in [Requests -> BOOLEAN]
        /\ knew \in [Requests -> BOOLEAN] /\ knows \in [Requests -> BOOLEAN]
    BY <2>1
  <2>3. CASE DatabaseStops
    <3>1. req' = [r \in Requests |-> [req[r] EXCEPT !.atravessou = crossed[r],
                                                    !.foiAtivo = knew[r]]]
      BY <2>1, <2>3 DEF DatabaseStops, Request
    <3>2. QED
      BY <2>2, <3>1
  <2>4. CASE DatabaseStarts
    <3>1. req' = [r \in Requests |-> [req[r] EXCEPT !.atravessou = same[r],
                                                    !.foiAtivo = knew[r]]]
      BY <2>1, <2>4 DEF DatabaseStarts, Request, PoolInv, TInv, TypeOK
    <3>2. QED
      BY <2>2, <3>1
  <2>5. CASE BlockCaller
    <3>1. req' = [r \in Requests |-> [req[r] EXCEPT !.atravessou = same[r],
                                                    !.foiAtivo = knows[r]]]
      BY <2>1, <2>5 DEF BlockCaller, Request
    <3>2. QED
      BY <2>2, <3>1
  <2>6. QED
    BY <2>3, <2>4, <2>5
<1>3. ASSUME NEW r \in Requests
      PROVE  /\ req'[r] \in Request /\ Holds(r)' = Holds(r)
             /\ req'[r].fase = req[r].fase /\ req'[r].rota = req[r].rota
             /\ req'[r].sessao = req[r].sessao /\ req'[r].propria = req[r].propria
             /\ req'[r].resposta = req[r].resposta /\ req'[r].anotado = req[r].anotado
  <2>1. PICK a \in [Requests -> BOOLEAN], f \in [Requests -> BOOLEAN] :
          req' = [s \in Requests |-> [req[s] EXCEPT !.atravessou = a[s], !.foiAtivo = f[s]]]
    BY <1>2
  <2>2. /\ req'[r] = [req[r] EXCEPT !.atravessou = a[r], !.foiAtivo = f[r]]
        /\ req[r] \in Request /\ a[r] \in BOOLEAN /\ f[r] \in BOOLEAN
    BY <2>1, Before DEF PoolInv
  <2>3. QED
    BY <2>2 DEF Request, Holds, Held
<1>4. TypeOK'
  BY <1>1, <1>2, <1>3 DEF PoolInv, TInv, TypeOK
<1>5. ASSUME NEW r \in Requests PROVE Sound(req[r], mortas, ativo)'
  <2>1. Lends(req'[r]) /\ Decides(req'[r])
    BY <1>3, Before DEF PoolInv, Sound, Lends, Decides
  <2>2. Witnesses(req'[r], mortas')
    <3>1. CASE DatabaseStops
      BY <3>1, Before DEF DatabaseStops, PoolInv, Sound, Witnesses, Request, Holds, Held
    <3>2. CASE DatabaseStarts
      BY <3>2, Before DEF DatabaseStarts, PoolInv, Sound, Witnesses
    <3>3. CASE BlockCaller
      BY <3>3, Before DEF BlockCaller, PoolInv, Sound, Witnesses, Request
    <3>4. QED
      BY <3>1, <3>2, <3>3
  <2>3. Knows(req'[r], ativo')
    <3>1. CASE DatabaseStops
      BY <3>1, Before DEF DatabaseStops, PoolInv, Sound, Knows, Request
    <3>2. CASE DatabaseStarts
      BY <3>2, Before DEF DatabaseStarts, PoolInv, Sound, Knows
    <3>3. CASE BlockCaller
      BY <3>3, Before DEF BlockCaller, PoolInv, Sound, Knows, Request
    <3>4. QED
      BY <3>1, <3>2, <3>3
  <2>4. QED
    BY <2>1, <2>2, <2>3 DEF Sound
<1>6. NoneLeaked'
  BY <1>1, <1>3 DEF PoolInv, NoneLeaked
<1>7. QED
  BY <1>4, <1>5, <1>6 DEF PoolInv, TInv

-----------------------------------------------------------------------------
(* How a request ends.                                                       *)

Honest == RefusedAsRecorded /\ SuccessIsKept /\ RestartSparesNewcomers /\ BlockedIsRefused

\* A step that ends no request tells nothing.
LEMMA NothingIsHonest ==
    /\ Nothing \in Desfecho
    /\ desfecho' = Nothing => Honest'
  BY DEF Nothing, Outcome, Idle, Desfecho, Resposta, Honest, RefusedAsRecorded,
         SuccessIsKept, RestartSparesNewcomers, BlockedIsRefused

\* What the request's phase says is what its end needs.
LEMMA EndIsHonest ==
    ASSUME TInv, NEW r \in Requests, Commit(r) \/ CommitFails(r) \/ Undo(r)
    PROVE  desfecho' \in Desfecho /\ Honest'
<1> USE Before
<1>1. CASE Commit(r)
  <2>1. desfecho' = Outcome(req[r], "ok", TRUE)
    BY <1>1 DEF Commit, Finish, Sound, Decides
  <2>2. ~req[r].anotado /\ (req[r].rota # "login" => req[r].foiAtivo)
    BY <1>1 DEF Commit, Sound, Decides, Knows
  <2>3. QED
    BY <2>1, <2>2 DEF Outcome, Request, Desfecho, Resposta, Honest, RefusedAsRecorded,
       SuccessIsKept, RestartSparesNewcomers, BlockedIsRefused
<1>2. CASE CommitFails(r)
  <2>1. desfecho' = Outcome(req[r], "ok", FALSE)
    BY <1>2 DEF CommitFails, Finish, Sound, Decides
  <2>2. ~req[r].anotado /\ (req[r].rota # "login" => req[r].foiAtivo) /\ req[r].atravessou
    BY <1>2 DEF CommitFails, Answers, Sound, Decides, Knows, Witnesses
  <2>3. QED
    BY <2>1, <2>2 DEF Outcome, Request, Desfecho, Resposta, Honest, RefusedAsRecorded,
       SuccessIsKept, RestartSparesNewcomers, BlockedIsRefused
<1>3. CASE Undo(r)
  <2>1. PICK resposta \in {req[r].resposta} \union {x \in {"perdida"} : req[r].sessao \in mortas} :
          req[r].fase = "desfazer" /\ desfecho' = Outcome(req[r], resposta, FALSE)
    BY <1>3 DEF Undo, Finish
  <2>2. /\ req[r].resposta \notin {"nenhuma", "ok"}
        /\ req[r].anotado <=> req[r].resposta = "recusado"
        /\ req[r].sessao \in mortas \/ req[r].resposta = "perdida" => req[r].atravessou
    BY <2>1 DEF Sound, Decides, Witnesses
  <2>3. QED
    BY <2>1, <2>2 DEF Outcome, Request, Desfecho, Resposta, Honest, RefusedAsRecorded,
       SuccessIsKept, RestartSparesNewcomers, BlockedIsRefused
<1>4. QED
  BY <1>1, <1>2, <1>3

-----------------------------------------------------------------------------
(* The theorems.                                                             *)

IInv == PoolInv /\ Honest

LEMMA InitInv == Init => IInv
<1> SUFFICES ASSUME Init PROVE IInv
  OBVIOUS
<1>1. TInv
  BY DEF Init, TInv, TypeOK, Idle, Request, Fase, Resposta, Nothing, Outcome, Desfecho,
         Sound, Lends, Decides, Witnesses, Knows
<1>2. NoneLeaked
  BY DEF Init, NoneLeaked, Idle, Holds, Held
<1>3. Honest
  BY DEF Init, Nothing, Outcome, Idle, Honest, RefusedAsRecorded,
         SuccessIsKept, RestartSparesNewcomers, BlockedIsRefused
<1>4. QED
  BY <1>1, <1>2, <1>3 DEF IInv, PoolInv

LEMMA StepInv ==
    ASSUME IInv, NEW r \in Requests, \E k : Step(r, k),
           desfecho' \in Desfecho, Honest'
    PROVE  IInv'
  BY StepIsTyped, StepLeaksNothing DEF IInv, PoolInv

LEMMA NextInv == IInv /\ [Next]_vars => IInv'
<1> SUFFICES ASSUME IInv, [Next]_vars PROVE IInv'
  OBVIOUS
<1> USE NothingIsHonest
<1>1. ASSUME NEW r \in Requests, Arrive(r) PROVE IInv'
  BY <1>1, ArriveStep, StepInv DEF IInv, PoolInv, Arrive
<1>2. ASSUME NEW r \in Requests, WaitsForThread(r) PROVE IInv'
  <2>1. desfecho' = Nothing
    BY <1>2 DEF WaitsForThread, StartLimit, Enter, AdmitPerfil, RefusePerfil, StartHandler
  <2>2. QED
    BY <1>2, <2>1, WaitsForThreadStep, StepInv DEF IInv, PoolInv
<1>3. ASSUME NEW r \in Requests, CountHit(r) \/ BeginRecord(r) \/ FirstQuery(r) \/ LoadCaller(r)
      PROVE  IInv'
  <2>1. desfecho' = Nothing
    BY <1>3 DEF CountHit, BeginRecord, FirstQuery, LoadCaller
  <2>2. QED
    BY <1>3, <2>1, TakesStep, StepInv DEF IInv
<1>4. ASSUME NEW r \in Requests, HitCounted(r) \/ CommitRecord(r) PROVE IInv'
  <2>1. desfecho' = Nothing
    BY <1>4 DEF HitCounted, CommitRecord
  <2>2. QED
    BY <1>4, <2>1, OwnEndsStep, StepInv DEF IInv, PoolInv
<1>5. ASSUME NEW r \in Requests, Accept(r) PROVE IInv'
  BY <1>5, AcceptStep, StepInv DEF IInv, PoolInv, Accept
<1>6. ASSUME NEW r \in Requests, RefuseRecorded(r) PROVE IInv'
  <2>1. \E k : Step(r, k)
    BY <1>6, GoesStep, Before DEF IInv, PoolInv, RefuseRecorded, Fase
  <2>2. QED
    BY <1>6, <2>1, StepInv DEF RefuseRecorded
<1>7. ASSUME NEW r \in Requests,
             \/ RefuseToken(r) \/ Reject(r) \/ TimeOut(r) \/ CannotConnect(r) \/ LoseConnection(r)
      PROVE  IInv'
  <2>1. desfecho' = Nothing
    BY <1>7 DEF RefuseToken, Reject, TimeOut, CannotConnect, LoseConnection
  <2>2. QED
    BY <1>7, <2>1, FailsStep, StepInv DEF IInv, PoolInv
<1>8. ASSUME NEW r \in Requests, Commit(r) \/ CommitFails(r) \/ Undo(r) PROVE IInv'
  <2>1. \E k : Step(r, k)
    BY <1>8, FinishStep DEF IInv, PoolInv, Commit, CommitFails, Undo
  <2>2. QED
    BY <1>8, <2>1, EndIsHonest, StepInv DEF IInv, PoolInv
<1>9. ASSUME DatabaseStops \/ DatabaseStarts \/ BlockCaller PROVE IInv'
  <2>1. desfecho' = Nothing
    BY <1>9 DEF DatabaseStops, DatabaseStarts, BlockCaller
  <2>2. QED
    BY <1>9, <2>1, OutsideStep DEF IInv
<1>10. CASE UNCHANGED vars
  BY <1>10 DEF vars, IInv, PoolInv, TInv, TypeOK, NoneLeaked, Holds, Honest,
     RefusedAsRecorded, SuccessIsKept, RestartSparesNewcomers, BlockedIsRefused
<1>11. QED
  BY <1>1, <1>2, <1>3, <1>4, <1>5, <1>6, <1>7, <1>8, <1>9, <1>10 DEF Next, Proceeds

LEMMA Always == Spec => []IInv
  BY InitInv, NextInv, PTL DEF Spec

\* The state of requests, connections and outcomes keeps its type.
THEOREM TypeCorrect == Spec => []TypeOK
<1>1. IInv => TypeOK
  BY DEF IInv, PoolInv, TInv
<1>2. QED
  BY <1>1, Always, PTL

\* On every way out a request gives back the connections it took (get_session,
\* standalone_transaction), however large the pool and however many requests.
THEOREM ConnectionsReturned == Spec => []NoneLeaked
<1>1. IInv => NoneLeaked
  BY DEF IInv, PoolInv
<1>2. QED
  BY <1>1, Always, PTL

\* A refusal that must leave a row is answered only once the row is committed,
\* whatever the pool and the database do in between.
THEOREM RefusalsRecorded == Spec => []RefusedAsRecorded
<1>1. IInv => RefusedAsRecorded
  BY DEF IInv, Honest
<1>2. QED
  BY <1>1, Always, PTL

\* A transaction is committed only for a success, and a success is lost only to
\* a database that stopped under it.
THEOREM SuccessesKept == Spec => []SuccessIsKept
<1>1. IInv => SuccessIsKept
  BY DEF IInv, Honest
<1>2. QED
  BY <1>1, Always, PTL

\* A restart of the database fails no request that comes after it (pool_pre_ping).
THEOREM NewcomersSpared == Spec => []RestartSparesNewcomers
<1>1. IInv => RestartSparesNewcomers
  BY DEF IInv, Honest
<1>2. QED
  BY <1>1, Always, PTL

\* No token outlives a block: the caller is looked up on every request.
THEOREM BlockedRefused == Spec => []BlockedIsRefused
<1>1. IInv => BlockedIsRefused
  BY DEF IInv, Honest
<1>2. QED
  BY <1>1, Always, PTL
=============================================================================

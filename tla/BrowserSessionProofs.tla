------------------------ MODULE BrowserSessionProofs ------------------------
(***************************************************************************)
(* The safety theorems about BrowserSession, for any number of tabs, calls,*)
(* requests and tokens.  A token that is spent, or about to be, is in the  *)
(* jar or on the wire only while the answer that replaces it is on its way,*)
(* or after that answer was missed; the Web Lock makes that one answer at a*)
(* time.                                                                   *)
(***************************************************************************)
EXTENDS BrowserSession, TLAPS

USE MaxTokenAssumption, HasLocksAssumption, NobodyAssumption

-----------------------------------------------------------------------------
(* Types.                                                                    *)

LEMMA TokenCookie == Token \subseteq Cookie /\ 0 \in Cookie /\ \A k \in Cookie : k # 0 => k \in Token
  BY DEF Token, Cookie

LEMMA DoneType == Done \in Pedido /\ Landed \in Voo /\ Settled \in Chamada
  BY TokenCookie DEF Done, Pedido, Landed, Voo, Settled, Chamada

CallsOK ==
    /\ chamada \in [Calls -> Chamada]
    /\ \A x \in Calls : chamada[x].fase # "livre" => chamada[x].aba \in Tabs

\* A request that leaves takes a free place, and the cookie of the jar.
LEMMA SendType ==
    ASSUME TypeOK, NEW t \in Tabs, Send(t)
    PROVE  /\ voo' \in [Tabs -> Voo] /\ pedido' \in [Pedidos -> Pedido]
           /\ \A s \in Tabs : voo'[s].fase = "enviado" <=> voo'[s].pedido # Nobody
           /\ \E p \in Pedidos :
                 /\ pedido[p].fase = "livre"
                 /\ voo'[t] = [fase |-> "enviado", pedido |-> p]
                 /\ pedido'[p] = [fase |-> "enviado", cookie |-> jar, nova |-> 0]
                 /\ \A q \in Pedidos : q # p => pedido'[q] = pedido[q]
           /\ \A s \in Tabs : s # t => voo'[s] = voo[s]
<1>1. PICK p \in Pedidos :
          /\ pedido[p].fase = "livre"
          /\ pedido' = [pedido EXCEPT ![p] = [fase |-> "enviado", cookie |-> jar, nova |-> 0]]
          /\ voo' = [voo EXCEPT ![t] = [fase |-> "enviado", pedido |-> p]]
  BY DEF Send
<1>2. /\ [fase |-> "enviado", cookie |-> jar, nova |-> 0] \in Pedido
      /\ [fase |-> "enviado", pedido |-> p] \in Voo
  BY TokenCookie DEF TypeOK, Pedido, Voo
<1>3. \A s \in Tabs : voo'[s] = IF s = t THEN [fase |-> "enviado", pedido |-> p] ELSE voo[s]
  BY <1>1 DEF TypeOK
<1>4. \A s \in Tabs : voo'[s].fase = "enviado" <=> voo'[s].pedido # Nobody
  BY <1>3 DEF TypeOK
<1>5. QED
  BY <1>1, <1>2, <1>3, <1>4 DEF TypeOK

LEMMA RefreshType ==
    ASSUME TypeOK, NEW t \in Tabs, Refresh(t)
    PROVE  /\ voo' \in [Tabs -> Voo] /\ pedido' \in [Pedidos -> Pedido]
           /\ \A s \in Tabs : voo'[s].fase = "enviado" <=> voo'[s].pedido # Nobody
           /\ \A s \in Tabs : voo[s].fase # "nada" => voo'[s] = voo[s]
           /\ HasLocks => /\ pedido' = pedido
                          /\ \A s \in Tabs : voo'[s] = voo[s] \/
                                (/\ voo[s].fase = "nada" /\ voo'[s].fase = "fila"
                                 /\ voo'[s].pedido = voo[s].pedido)
<1>1. voo \in [Tabs -> Voo] /\ voo[t] \in Voo /\ jar \in Cookie /\ pedido \in [Pedidos -> Pedido]
  BY DEF TypeOK
<1>2. CASE UNCHANGED <<voo, pedido>>
  BY <1>1, <1>2 DEF TypeOK
<1>3. CASE /\ voo[t].fase = "nada" /\ HasLocks /\ voo' = [voo EXCEPT ![t].fase = "fila"]
           /\ UNCHANGED pedido
  <2>1. voo' = [voo EXCEPT ![t] = [voo[t] EXCEPT !.fase = "fila"]]
    BY <1>1, <1>3
  <2> DEFINE v == [voo[t] EXCEPT !.fase = "fila"]
  <2>2. v \in Voo /\ v.fase = "fila" /\ v.pedido = voo[t].pedido
    BY <1>1 DEF Voo
  <2> HIDE DEF v
  <2>3. voo' \in [Tabs -> Voo] /\ voo'[t] = v /\ \A s \in Tabs : s # t => voo'[s] = voo[s]
    BY <1>1, <2>1, <2>2 DEF v
  <2>4. voo[t].pedido = Nobody
    BY <1>3 DEF TypeOK
  <2>5. QED
    BY <1>1, <1>3, <2>2, <2>3, <2>4 DEF TypeOK
<1>4. CASE voo[t].fase = "nada" /\ ~HasLocks /\ Send(t)
  BY <1>4, SendType
<1>5. QED
  BY <1>2, <1>3, <1>4 DEF Refresh

LEMMA LandType ==
    ASSUME TypeOK, NEW t \in Tabs, Land(t)
    PROVE  /\ voo' \in [Tabs -> Voo] /\ lock' \in Tabs \union {Nobody}
           /\ \A s \in Tabs : voo'[s].fase = "enviado" <=> voo'[s].pedido # Nobody
           /\ voo'[t] = Landed /\ \A s \in Tabs : s # t => voo'[s] = voo[s]
           /\ lock' = IF lock = t THEN Nobody ELSE lock
           /\ lock' # Nobody => voo'[lock'].fase = "enviado"
<1>1. Landed \in Voo /\ Landed.fase = "nada" /\ Landed.pedido = Nobody
  BY DoneType DEF Landed
<1>2. /\ voo' \in [Tabs -> Voo] /\ voo'[t] = Landed /\ \A s \in Tabs : s # t => voo'[s] = voo[s]
  BY <1>1 DEF TypeOK, Land
<1>3. QED
  BY <1>1, <1>2 DEF TypeOK, Land

LEMMA ResumeType ==
    ASSUME TypeOK, NEW t \in Tabs, NEW b \in BOOLEAN, Resume(t, b)
    PROVE  CallsOK'
<1> SUFFICES ASSUME NEW x \in Calls
             PROVE  /\ chamada'[x] \in Chamada
                    /\ chamada'[x].fase # "livre" => chamada'[x].aba \in Tabs
  BY DEF Resume, CallsOK
<1>1. /\ chamada[x] \in Chamada
      /\ chamada[x].fase # "livre" => chamada[x].aba \in Tabs
      /\ Settled \in Chamada /\ Settled.fase = "livre"
  BY DoneType DEF TypeOK, Settled
<1>2. \/ chamada'[x] \in {chamada[x], Settled}
      \/ /\ chamada[x].fase # "livre"
         /\ chamada'[x] = [chamada[x] EXCEPT !.fase = IF @ = "renovando1" THEN "enviada1"
                                                      ELSE "enviada2"]
  BY DEF Resume
<1>3. CASE chamada'[x] \in {chamada[x], Settled}
  BY <1>1, <1>3
<1>4. ASSUME NEW f \in {"enviada1", "enviada2"}, chamada'[x] = [chamada[x] EXCEPT !.fase = f],
             chamada[x].fase # "livre"
      PROVE  chamada'[x] \in Chamada /\ chamada'[x].aba \in Tabs
  BY <1>1, <1>4 DEF Chamada
<1>5. QED
  BY <1>2, <1>3, <1>4

LEMMA AnswerType ==
    ASSUME TypeOK, NEW t \in Tabs, StoreAnswer(t) \/ MissAnswer(t)
    PROVE  /\ Sent(t) /\ voo[t].pedido \in Pedidos
           /\ jar' \in Cookie /\ pedido' \in [Pedidos -> Pedido] /\ marcas' \subseteq Token
<1>1. Sent(t) /\ voo[t].pedido \in Pedidos
  BY DEF TypeOK, Voo, Sent, StoreAnswer, MissAnswer, Answered
<1>2. /\ jar \in Cookie /\ marcas \subseteq Token /\ Request(t) \in Pedido
      /\ Request(t).cookie \in Cookie /\ Request(t).nova \in Cookie
  BY <1>1 DEF TypeOK, Pedido, Request
<1>3. QED
  BY <1>1, <1>2, TokenCookie, DoneType DEF StoreAnswer, MissAnswer, TypeOK

LEMMA EndType ==
    ASSUME TypeOK, EndSession
    PROVE  sessao' \in [Token -> Sessao]
  BY DEF TypeOK, EndSession, Sessao

\* An answered request keeps its cookie, or is over when nobody waits for it.
LEMMA AnsweredType ==
    ASSUME TypeOK, NEW p \in Pedidos, NEW n \in Cookie, Answer(p, n)
    PROVE  \E q \in Pedido :
              /\ pedido' = [pedido EXCEPT ![p] = q]
              /\ IF Orphan(p) THEN q = Done
                 ELSE q.fase = "respondido" /\ q.nova = n /\ q.cookie = pedido[p].cookie
<1> DEFINE q == IF Orphan(p) THEN Done ELSE [pedido[p] EXCEPT !.fase = "respondido", !.nova = n]
<1>1. pedido[p] \in Pedido
  BY DEF TypeOK
<1>2. q \in Pedido
  BY <1>1, DoneType DEF Pedido
<1>3. ~Orphan(p) => q.fase = "respondido" /\ q.nova = n /\ q.cookie = pedido[p].cookie
  BY <1>1 DEF Pedido
<1>4. pedido' = [pedido EXCEPT ![p] = q]
  BY DEF Answer
<1>5. QED
  BY <1>2, <1>3, <1>4

LEMMA TypeStep == TypeOK /\ [Next]_vars => TypeOK'
<1> SUFFICES ASSUME TypeOK, [Next]_vars PROVE TypeOK'
  OBVIOUS
<1>1. ASSUME NEW x \in Calls, StartCall(x) PROVE TypeOK'
  <2>1. PICK t \in Tabs :
            /\ IF t \in acesso
               THEN /\ chamada' = [chamada EXCEPT ![x] = [fase |-> "enviada1", aba |-> t]]
                    /\ UNCHANGED <<voo, pedido>>
               ELSE /\ chamada' = [chamada EXCEPT ![x] = [fase |-> "renovando1", aba |-> t]]
                    /\ Refresh(t)
            /\ UNCHANGED <<jar, acesso, lock, Server>>
    BY <1>1 DEF StartCall
  <2>2. /\ [fase |-> "renovando1", aba |-> t] \in Chamada
        /\ [fase |-> "enviada1", aba |-> t] \in Chamada
    BY DEF Chamada
  <2>3. CallsOK'
    BY <2>1, <2>2 DEF CallsOK, TypeOK
  <2>4. /\ voo' \in [Tabs -> Voo] /\ pedido' \in [Pedidos -> Pedido]
        /\ \A s \in Tabs : voo'[s].fase = "enviado" <=> voo'[s].pedido # Nobody
        /\ \A s \in Tabs : voo[s].fase # "nada" => voo'[s] = voo[s]
    BY <2>1, RefreshType DEF TypeOK
  <2>5. QED
    BY <2>1, <2>3, <2>4 DEF TypeOK, CallsOK, Server
<1>2. ASSUME NEW x \in Calls, SettleCall(x) PROVE TypeOK'
  BY <1>2, DoneType DEF SettleCall, TypeOK, Settled, Server
<1>3. ASSUME NEW x \in Calls, RetryCall(x) PROVE TypeOK'
  <2>1. chamada[x] \in Chamada /\ chamada' = [chamada EXCEPT ![x] = [chamada[x] EXCEPT !.fase = "renovando2"]]
    BY <1>3 DEF RetryCall, TypeOK
  <2>2. [chamada[x] EXCEPT !.fase = "renovando2"] \in Chamada
    BY <2>1 DEF Chamada
  <2>3. CallsOK'
    BY <1>3, <2>1, <2>2 DEF CallsOK, RetryCall, TypeOK, Chamada
  <2>4. chamada[x].aba \in Tabs
    BY <1>3 DEF RetryCall, TypeOK
  <2>5. /\ voo' \in [Tabs -> Voo] /\ pedido' \in [Pedidos -> Pedido]
        /\ \A s \in Tabs : voo'[s].fase = "enviado" <=> voo'[s].pedido # Nobody
        /\ \A s \in Tabs : voo[s].fase # "nada" => voo'[s] = voo[s]
    BY <1>3, <2>4, RefreshType DEF RetryCall
  <2>6. QED
    BY <1>3, <2>3, <2>5 DEF RetryCall, TypeOK, CallsOK, Server
<1>4. ASSUME NEW t \in Tabs, TakeLock(t) PROVE TypeOK'
  <2>1. lock' = t /\ UNCHANGED <<jar, acesso, chamada, sessao, rotacao, marcas>>
    BY <1>4 DEF TakeLock, Server
  <2>2. Send(t) /\ t \in Tabs \union {Nobody}
    BY <1>4 DEF TakeLock
  <2>3. voo'[t].fase = "enviado"
    <3>1. PICK p \in Pedidos : voo'[t] = [fase |-> "enviado", pedido |-> p]
      BY <2>2, SendType
    <3>2. QED
      BY <3>1
  <2>4. QED
    BY <2>1, <2>2, <2>3, SendType DEF TypeOK
<1>5. ASSUME NEW t \in Tabs, Deliver(t) PROVE TypeOK'
  <2> DEFINE b == Request(t).nova # 0
  <2>1. b \in BOOLEAN
    OBVIOUS
  <2>2. /\ StoreAnswer(t) /\ acesso' = IF b THEN acesso \union {t} ELSE acesso \ {t}
        /\ Resume(t, b) /\ Land(t) /\ UNCHANGED <<sessao, rotacao>>
    BY <1>5 DEF Deliver
  <2> HIDE DEF b
  <2>3. QED
    BY <2>1, <2>2, LandType, ResumeType, AnswerType DEF TypeOK, CallsOK
<1>6. ASSUME NEW t \in Tabs, Lose(t) PROVE TypeOK'
  BY <1>6, LandType, ResumeType, AnswerType DEF Lose, TypeOK, CallsOK
<1>7. ASSUME NEW t \in Tabs, Leave(t) PROVE TypeOK'
  <2>1. CallsOK'
    BY <1>7, DoneType DEF Leave, TypeOK, CallsOK, Settled
  <2>2. jar' \in Cookie /\ pedido' \in [Pedidos -> Pedido] /\ marcas' \subseteq Token
    BY <1>7, AnswerType DEF Leave, TypeOK
  <2>3. QED
    BY <1>7, <2>1, <2>2, LandType DEF Leave, TypeOK, CallsOK
<1>8. ASSUME NEW t \in Tabs, Logout(t) PROVE TypeOK'
  BY <1>8, EndType, TokenCookie DEF Logout, TypeOK
<1>9. ASSUME NEW p \in Pedidos, ReadToken(p) PROVE TypeOK'
  <2>1. /\ [pedido[p] EXCEPT !.fase = "lido"] \in Pedido
        /\ pedido' = [pedido EXCEPT ![p] = [pedido[p] EXCEPT !.fase = "lido"]]
    BY <1>9 DEF ReadToken, TypeOK, Pedido
  <2>2. QED
    BY <1>9, <2>1 DEF ReadToken, Browser, Server, TypeOK
<1>10. ASSUME NEW p \in Pedidos, Rotate(p) PROVE TypeOK'
  <2>1. Fresh \in Token /\ Fresh \in Cookie
    BY <1>10, TokenCookie DEF Rotate, MayRotate, Fresh
  <2>2. sessao' \in [Token -> Sessao] /\ rotacao' \in Rotacao
    BY <1>10, <2>1 DEF Rotate, TypeOK, Sessao, Pedido, Rotacao
  <2>3. pedido' \in [Pedidos -> Pedido]
    BY <1>10, <2>1, AnsweredType DEF Rotate, TypeOK
  <2>4. QED
    BY <1>10, <2>2, <2>3 DEF Rotate, Browser, TypeOK
<1>11. ASSUME NEW p \in Pedidos, RefuseRefresh(p) PROVE TypeOK'
  <2>1. pedido' \in [Pedidos -> Pedido]
    BY <1>11, TokenCookie, AnsweredType DEF RefuseRefresh, TypeOK
  <2>2. QED
    BY <1>11, <2>1 DEF RefuseRefresh, Browser, Server, TypeOK
<1>12. ASSUME NEW p \in Pedidos, Replay(p) PROVE TypeOK'
  <2>1. pedido' \in [Pedidos -> Pedido]
    BY <1>12, TokenCookie, AnsweredType DEF Replay, TypeOK
  <2>2. QED
    BY <1>12, <2>1, EndType DEF Replay, Browser, TypeOK
<1>13. CASE CommitRotation
  BY <1>13, TokenCookie DEF CommitRotation, Browser, TypeOK, Sessao, NoRotation, Rotacao
<1>14. CASE FailCommit
  BY <1>14, TokenCookie DEF FailCommit, Browser, TypeOK, NoRotation, Rotacao
<1>15. CASE UNCHANGED vars
  BY <1>15 DEF vars, TypeOK
<1>16. QED
  BY <1>1, <1>2, <1>3, <1>4, <1>5, <1>6, <1>7, <1>8, <1>9, <1>10, <1>11, <1>12, <1>13, <1>14,
     <1>15
  DEF Next, Serve

-----------------------------------------------------------------------------
(* What the jar and the wire may hold.                                       *)

\* Spent by a rotation, or to be by the one that has not committed.
Doomed(k) == sessao[k] = "gasta" \/ rotacao.de = k

\* A token that may be presented without being a replay nobody can explain.
Safe(k) == k # 0 /\ Doomed(k) => k \in marcas

Replaced(t) == Request(t).fase = "respondido" /\ Request(t).nova # 0

\* The holder of the lock took its cookie from the jar; the cookie is safe until
\* an answer carries the token that replaces it.  What goes on without a page was
\* marked when its answer was given up.
Marked ==
    /\ \A p \in Pedidos : Orphan(p) => pedido[p].cookie \in marcas \union {0}
    /\ (\A t \in Tabs : ~Sent(t)) => Safe(jar)
    /\ \A t \in Tabs : Sent(t) =>
          /\ lock = t
          /\ jar \in {0, Request(t).cookie}
          /\ IF Replaced(t) THEN Safe(Request(t).nova) ELSE Safe(Request(t).cookie)

\* A token that was read had been issued.
ReadOnce ==
    \A p \in Pedidos : pedido[p].fase = "lido" =>
        pedido[p].cookie # 0 /\ sessao[pedido[p].cookie] # "ausente"

IInv == TypeOK /\ ReadOnce /\ Marked

LEMMA RequestType ==
    ASSUME TypeOK, NEW t \in Tabs, Sent(t)
    PROVE  /\ voo[t].pedido \in Pedidos /\ Request(t) \in Pedido
           /\ Request(t).cookie \in Cookie /\ Request(t).nova \in Cookie
           /\ ~Orphan(voo[t].pedido)
  BY DEF TypeOK, Voo, Pedido, Sent, Request, Orphan

LEMMA WaitedForIsSent ==
    ASSUME TypeOK, NEW p \in Pedidos, ~Orphan(p)
    PROVE  \E t \in Tabs : voo[t].pedido = p /\ Sent(t) /\ Request(t) = pedido[p]
  BY DEF TypeOK, Sent, Request, Orphan

\* A step that sends, reads and answers no refresh, and dooms no token.
LEMMA NothingSent ==
    ASSUME IInv, TypeOK', pedido' = pedido, marcas' = marcas, lock' = lock, jar' \in {jar, 0},
           \A k \in Token : Doomed(k)' => Doomed(k),
           \A k \in Token : sessao[k] # "ausente" => sessao'[k] # "ausente",
           \A s \in Tabs : voo'[s] = voo[s] \/
              (/\ voo[s].fase = "nada" /\ voo'[s].fase = "fila" /\ voo'[s].pedido = voo[s].pedido)
    PROVE  IInv'
<1>1. \A k \in Cookie : Safe(k) => Safe(k)'
  BY TokenCookie DEF Safe
<1>2. /\ \A s \in Tabs : Sent(s)' <=> Sent(s)
      /\ \A p \in Pedidos : Orphan(p)' <=> Orphan(p)
      /\ \A s \in Tabs : Request(s)' = Request(s) /\ (Replaced(s)' <=> Replaced(s))
  BY DEF Sent, Orphan, Request, Replaced
<1>3. jar \in Cookie /\ Safe(0)'
  BY DEF IInv, TypeOK, Safe
<1>4. \A p \in Pedidos : Orphan(p)' => pedido'[p].cookie \in marcas' \union {0}
  BY <1>2 DEF IInv, Marked
<1>5. (\A t \in Tabs : ~Sent(t)') => Safe(jar)'
  <2> SUFFICES ASSUME \A t \in Tabs : ~Sent(t)' PROVE Safe(jar)'
    OBVIOUS
  <2>1. Safe(jar)
    BY <1>2 DEF IInv, Marked
  <2>2. CASE jar' = jar
    BY <1>1, <1>3, <2>1, <2>2 DEF Safe, Doomed
  <2>3. CASE jar' = 0
    BY <2>3 DEF Safe
  <2>4. QED
    BY <2>2, <2>3
<1>6. ASSUME NEW t \in Tabs, Sent(t)'
      PROVE  /\ lock' = t
             /\ jar' \in {0, Request(t)'.cookie}
             /\ IF Replaced(t)' THEN Safe(Request(t).nova)' ELSE Safe(Request(t).cookie)'
  <2>1. /\ lock = t /\ jar \in {0, Request(t).cookie}
        /\ IF Replaced(t) THEN Safe(Request(t).nova) ELSE Safe(Request(t).cookie)
    BY <1>2, <1>6 DEF IInv, Marked
  <2>2. \A k \in Cookie : Safe(k) /\ k # 0 /\ (sessao'[k] = "gasta" \/ rotacao'.de = k) => k \in marcas'
    BY <1>1 DEF Safe, Doomed
  <2>3. Request(t).cookie \in Cookie /\ Request(t).nova \in Cookie
    BY <1>2, <1>6, RequestType DEF IInv
  <2>4. QED
    BY <1>2, <2>1, <2>2, <2>3 DEF Safe, Doomed
<1>7. ReadOnce'
  BY TokenCookie DEF IInv, ReadOnce, TypeOK, Pedido
<1>8. QED
  BY <1>4, <1>5, <1>6, <1>7 DEF IInv, Marked

\* The refresh of a tab lands: its answer is in the jar, or was marked as missed.
LEMMA Landing ==
    ASSUME HasLocks, IInv, TypeOK', NEW t \in Tabs, Land(t), UNCHANGED <<sessao, rotacao>>,
           \/ StoreAnswer(t) \/ MissAnswer(t)
           \/ ~Sent(t) /\ UNCHANGED <<jar, pedido, marcas>>
    PROVE  IInv'
<1>1. /\ voo'[t] = Landed /\ \A s \in Tabs : s # t => voo'[s] = voo[s]
      /\ lock' = IF lock = t THEN Nobody ELSE lock
  BY LandType DEF IInv
<1>2. ~Sent(t)' /\ \A s \in Tabs : Sent(s)' => Sent(s) /\ s # t
  BY <1>1 DEF Sent, Landed
<1>3. marcas \subseteq marcas' /\ \A k \in Cookie : Safe(k) => Safe(k)'
  BY DEF StoreAnswer, MissAnswer, Safe, Doomed
<1>4. CASE ~Sent(t) /\ UNCHANGED <<jar, pedido, marcas>>
  <2>1. \A p \in Pedidos : Orphan(p)' <=> Orphan(p)
    <3>1. voo[t].pedido = Nobody /\ voo'[t].pedido = Nobody
      BY <1>1, <1>4 DEF IInv, TypeOK, Sent, Landed
    <3>2. QED
      BY <1>1, <3>1 DEF Orphan
  <2>2. /\ \A s \in Tabs : Sent(s)' <=> Sent(s)
        /\ \A s \in Tabs : Sent(s) => Request(s)' = Request(s) /\ (Replaced(s)' <=> Replaced(s))
    BY <1>1, <1>2, <1>4 DEF Sent, Request, Replaced
  <2>3. lock' = lock \/ \A s \in Tabs : ~Sent(s)'
    BY <1>1, <1>2, <1>4 DEF IInv, Marked
  <2>4. Marked'
    BY <1>4, <2>1, <2>2, <2>3 DEF IInv, Marked, Safe, Doomed
  <2>5. QED
    BY <1>4, <2>4 DEF IInv, ReadOnce
<1>5. CASE Sent(t) /\ (StoreAnswer(t) \/ MissAnswer(t))
  <2>1. lock = t /\ \A s \in Tabs : ~Sent(s)'
    BY <1>2, <1>5 DEF IInv, Marked
  <2>2. PICK p \in Pedidos : p = voo[t].pedido /\ Request(t) = pedido[p] /\ pedido[p] \in Pedido
    BY <1>5, RequestType DEF IInv, Request
  <2>3. \A q \in Pedidos : q # p => pedido'[q] = pedido[q]
    BY <2>2 DEF StoreAnswer, MissAnswer, IInv, TypeOK
  <2>4. pedido'[p].cookie \in marcas' \union {0} /\ (pedido'[p] = Done \/ pedido'[p] = pedido[p])
    <3>1. CASE StoreAnswer(t)
      BY <2>2, <3>1 DEF StoreAnswer, IInv, TypeOK, Done
    <3>2. CASE MissAnswer(t)
      BY <2>2, <3>2 DEF MissAnswer, IInv, TypeOK, Done
    <3>3. QED
      BY <1>5, <3>1, <3>2
  <2>5. \A q \in Pedidos : Orphan(q)' => Orphan(q) \/ q = p
    BY <1>1, <2>2 DEF Orphan
  <2>6. \A q \in Pedidos : Orphan(q)' => pedido'[q].cookie \in marcas' \union {0}
    BY <1>3, <2>3, <2>4, <2>5 DEF IInv, Marked
  <2>7. Safe(jar)'
    <3>1. /\ jar \in {0, pedido[p].cookie}
          /\ IF Replaced(t) THEN Safe(pedido[p].nova) ELSE Safe(pedido[p].cookie)
      BY <1>5, <2>2 DEF IInv, Marked
    <3>2. CASE StoreAnswer(t)
      <4>1. /\ pedido[p].fase = "respondido" /\ marcas' = marcas
            /\ jar' = IF pedido[p].nova = 0 THEN jar ELSE pedido[p].nova
        BY <2>2, <3>2 DEF StoreAnswer, Answered
      <4>2. QED
        BY <2>2, <3>1, <4>1 DEF Safe, Doomed, Replaced
    <3>3. CASE MissAnswer(t)
      BY <2>2, <3>1, <3>3 DEF MissAnswer, Safe
    <3>4. QED
      BY <1>5, <3>2, <3>3
  <2>8. Marked'
    BY <2>1, <2>6, <2>7 DEF Marked
  <2>9. ReadOnce'
    BY <2>3, <2>4 DEF IInv, ReadOnce, Done
  <2>10. QED
    BY <2>8, <2>9 DEF IInv
<1>6. QED
  BY <1>4, <1>5, AnswerType DEF IInv

\* The API reads or answers a request: it dooms no token that is safe, unless the
\* answer carries the one that replaces it.
LEMMA Serving ==
    ASSUME IInv, TypeOK', NEW p \in Pedidos, NEW q \in Pedido,
           UNCHANGED <<jar, voo, lock, marcas>>,
           pedido' = [pedido EXCEPT ![p] = q],
           IF Orphan(p) THEN q.cookie \in {0, pedido[p].cookie} ELSE q.cookie = pedido[p].cookie,
           pedido[p].fase # "respondido",
           q.fase = "lido" => q.cookie # 0 /\ sessao'[q.cookie] # "ausente",
           \A k \in Token : sessao[k] # "ausente" => sessao'[k] # "ausente",
           \A k \in Token : Doomed(k)' => \/ Doomed(k) \/ k \in marcas
                                          \/ /\ ~Orphan(p) /\ k = pedido[p].cookie
                                             /\ q.fase = "respondido" /\ q.nova # 0,
           ~Orphan(p) /\ q.fase = "respondido" /\ q.nova # 0 =>
              sessao'[q.nova] # "gasta" /\ rotacao'.de # q.nova
    PROVE  IInv'
<1>1. /\ \A s \in Pedidos : pedido'[s] = IF s = p THEN q ELSE pedido[s]
      /\ \A s \in Pedidos : Orphan(s)' <=> Orphan(s)
      /\ \A t \in Tabs : Sent(t)' <=> Sent(t)
  BY DEF IInv, TypeOK, Orphan, Sent
<1>2. ReadOnce'
  <2> SUFFICES ASSUME NEW s \in Pedidos, pedido'[s].fase = "lido"
               PROVE  pedido'[s].cookie # 0 /\ sessao'[pedido'[s].cookie] # "ausente"
    BY DEF ReadOnce
  <2>1. CASE s = p
    BY <1>1, <2>1
  <2>2. CASE s # p
    <3>1. pedido[s].cookie # 0 /\ sessao[pedido[s].cookie] # "ausente" /\ pedido[s].cookie \in Token
      BY <1>1, <2>2, TokenCookie DEF IInv, ReadOnce, TypeOK, Pedido
    <3>2. QED
      BY <1>1, <2>2, <3>1
  <2>3. QED
    BY <2>1, <2>2
<1>3. \A s \in Pedidos : Orphan(s)' => pedido'[s].cookie \in marcas' \union {0}
  BY <1>1 DEF IInv, Marked
<1>4. CASE Orphan(p)
  <2>1. \A k \in Cookie : Safe(k) /\ k # 0 /\ (sessao'[k] = "gasta" \/ rotacao'.de = k) => k \in marcas'
    BY <1>4, TokenCookie DEF Safe, Doomed
  <2>2. (\A t \in Tabs : ~Sent(t)') => Safe(jar)'
    BY <1>1, <2>1 DEF IInv, Marked, TypeOK, Safe, Doomed
  <2>3. ASSUME NEW t \in Tabs, Sent(t)'
        PROVE  /\ lock' = t
               /\ jar' \in {0, Request(t)'.cookie}
               /\ IF Replaced(t)' THEN Safe(Request(t).nova)' ELSE Safe(Request(t).cookie)'
    <3>1. /\ voo[t].pedido \in Pedidos /\ ~Orphan(voo[t].pedido)
          /\ Request(t).cookie \in Cookie /\ Request(t).nova \in Cookie
      BY <1>1, <2>3, RequestType DEF IInv
    <3>2. Request(t)' = Request(t) /\ (Replaced(t)' <=> Replaced(t))
      BY <1>1, <1>4, <3>1 DEF Request, Replaced
    <3>3. /\ lock = t /\ jar \in {0, Request(t).cookie}
          /\ IF Replaced(t) THEN Safe(Request(t).nova) ELSE Safe(Request(t).cookie)
      BY <1>1, <2>3 DEF IInv, Marked
    <3>4. QED
      BY <2>1, <3>1, <3>2, <3>3 DEF Safe, Doomed
  <2>4. QED
    BY <1>2, <1>3, <2>2, <2>3 DEF IInv, Marked
<1>5. CASE ~Orphan(p)
  <2>1. PICK t \in Tabs : voo[t].pedido = p /\ Sent(t) /\ Request(t) = pedido[p]
    BY <1>5, WaitedForIsSent DEF IInv
  <2>2. /\ lock = t /\ jar \in {0, pedido[p].cookie} /\ Safe(pedido[p].cookie)
        /\ \A s \in Tabs : Sent(s)' => s = t
    BY <1>1, <2>1 DEF IInv, Marked, Replaced
  <2>3. Request(t)' = q
    BY <1>1, <2>1 DEF Request
  <2>4. CASE q.fase = "respondido" /\ q.nova # 0
    <3>1. Replaced(t)' /\ Safe(Request(t).nova)'
      BY <1>5, <2>3, <2>4 DEF Replaced, Safe, Doomed
    <3>2. QED
      BY <1>1, <1>2, <1>3, <1>5, <2>1, <2>2, <2>3, <3>1 DEF IInv, Marked
  <2>5. CASE ~(q.fase = "respondido" /\ q.nova # 0)
    <3>1. pedido[p].cookie # 0 => pedido[p].cookie \in Token
      BY TokenCookie DEF IInv, TypeOK, Pedido
    <3>2. ~Replaced(t)' /\ Safe(Request(t).cookie)'
      BY <1>5, <2>2, <2>3, <2>5, <3>1 DEF Replaced, Safe, Doomed
    <3>3. QED
      BY <1>1, <1>2, <1>3, <1>5, <2>1, <2>2, <2>3, <3>2 DEF IInv, Marked
  <2>6. QED
    BY <2>4, <2>5
<1>6. QED
  BY <1>4, <1>5

-----------------------------------------------------------------------------
(* The steps.                                                                *)

LEMMA InitInv == Init => IInv
<1> SUFFICES ASSUME Init PROVE IInv
  OBVIOUS
<1>1. TypeOK
  <2>1. NoRotation \in Rotacao /\ jar \in Cookie
    BY DEF Init, NoRotation, Rotacao, Cookie
  <2>2. Landed.fase = "nada" /\ Landed.pedido = Nobody /\ Settled.fase = "livre"
    BY DEF Landed, Settled
  <2>3. QED
    BY <2>1, <2>2, DoneType DEF Init, TypeOK, Sessao
<1>2. /\ \A t \in Tabs : ~Sent(t)
      /\ \A p \in Pedidos : pedido[p].cookie = 0 /\ pedido[p].fase = "livre"
  BY DEF Init, Sent, Landed, Done
<1>3. Safe(jar)
  <2>1. jar = 1 /\ 1 \in Token /\ sessao[1] = "viva" /\ rotacao.de = 0
    BY DEF Init, Token, NoRotation
  <2>2. QED
    BY <2>1 DEF Safe, Doomed
<1>4. QED
  BY <1>1, <1>2, <1>3 DEF IInv, Marked, ReadOnce

\* The end of the session dooms no token, and unissues none.
LEMMA EndDoomsNone ==
    ASSUME TypeOK, UNCHANGED rotacao, EndSession
    PROVE  /\ \A k \in Token : Doomed(k)' => Doomed(k)
           /\ \A k \in Token : sessao[k] # "ausente" => sessao'[k] # "ausente"
  BY DEF EndSession, Doomed

LEMMA NextInv ==
    ASSUME HasLocks, IInv, [Next]_vars
    PROVE  IInv'
<1>0. TypeOK' /\ TypeOK
  BY TypeStep DEF IInv
<1>a. ASSUME UNCHANGED <<sessao, rotacao>>
      PROVE  /\ \A k : Doomed(k)' => Doomed(k)
             /\ \A k \in Token : sessao[k] # "ausente" => sessao'[k] # "ausente"
  BY <1>a DEF Doomed
<1>1. ASSUME NEW x \in Calls, StartCall(x) PROVE IInv'
  <2>1. /\ UNCHANGED <<jar, lock, sessao, rotacao, marcas>>
        /\ UNCHANGED <<voo, pedido>> \/ \E t \in Tabs : Refresh(t)
    BY <1>1 DEF StartCall, Server
  <2>2. /\ pedido' = pedido
        /\ \A s \in Tabs : voo'[s] = voo[s] \/
              (/\ voo[s].fase = "nada" /\ voo'[s].fase = "fila" /\ voo'[s].pedido = voo[s].pedido)
    BY <1>0, <2>1, RefreshType
  <2>3. QED
    BY <1>0, <1>a, <2>1, <2>2, NothingSent
<1>2. ASSUME NEW x \in Calls, SettleCall(x) PROVE IInv'
  <2>1. UNCHANGED <<jar, voo, lock, pedido, sessao, rotacao, marcas>>
    BY <1>2 DEF SettleCall, Server
  <2>2. QED
    BY <1>0, <1>a, <2>1, NothingSent
<1>3. ASSUME NEW x \in Calls, RetryCall(x) PROVE IInv'
  <2>1. /\ UNCHANGED <<jar, lock, sessao, rotacao, marcas>>
        /\ Refresh(chamada[x].aba) /\ chamada[x].aba \in Tabs
    BY <1>0, <1>3 DEF RetryCall, Server, TypeOK
  <2>2. /\ pedido' = pedido
        /\ \A s \in Tabs : voo'[s] = voo[s] \/
              (/\ voo[s].fase = "nada" /\ voo'[s].fase = "fila" /\ voo'[s].pedido = voo[s].pedido)
    BY <1>0, <2>1, RefreshType
  <2>3. QED
    BY <1>0, <1>a, <2>1, <2>2, NothingSent
<1>4. ASSUME NEW t \in Tabs, TakeLock(t) PROVE IInv'
  <2>1. /\ lock = Nobody /\ lock' = t /\ Send(t) /\ UNCHANGED <<jar, sessao, rotacao, marcas>>
    BY <1>4 DEF TakeLock, Server
  <2>2. PICK p \in Pedidos :
            /\ pedido[p].fase = "livre"
            /\ voo'[t] = [fase |-> "enviado", pedido |-> p]
            /\ pedido'[p] = [fase |-> "enviado", cookie |-> jar, nova |-> 0]
            /\ \A q \in Pedidos : q # p => pedido'[q] = pedido[q]
            /\ \A s \in Tabs : s # t => voo'[s] = voo[s]
    BY <1>0, <2>1, SendType
  <2>3. \A s \in Tabs : ~Sent(s) /\ voo[s].pedido = Nobody
    BY <1>0, <2>1 DEF IInv, Marked, TypeOK, Sent
  <2>4. \A s \in Tabs : Sent(s)' => s = t
    BY <2>2, <2>3 DEF Sent
  <2>5. Safe(jar) /\ Request(t)' = [fase |-> "enviado", cookie |-> jar, nova |-> 0]
    BY <2>2, <2>3 DEF IInv, Marked, Request
  <2>6. ~Replaced(t)' /\ Safe(Request(t).cookie)' /\ Request(t)'.cookie = jar
    BY <2>1, <2>5 DEF Replaced, Safe, Doomed
  <2>7. \A q \in Pedidos : Orphan(q) /\ (Orphan(q)' => q # p)
    BY <2>2, <2>3 DEF Orphan
  <2>8. \A q \in Pedidos : Orphan(q)' => pedido'[q].cookie \in marcas' \union {0}
    BY <2>1, <2>2, <2>7 DEF IInv, Marked
  <2>9. Sent(t)'
    BY <2>2 DEF Sent
  <2>10. Marked'
    BY <2>1, <2>4, <2>6, <2>8, <2>9 DEF Marked
  <2>11. ReadOnce'
    BY <2>1, <2>2 DEF IInv, ReadOnce
  <2>12. QED
    BY <1>0, <2>10, <2>11 DEF IInv
<1>5. ASSUME NEW t \in Tabs, Deliver(t) PROVE IInv'
  BY <1>0, <1>5, Landing DEF Deliver
<1>6. ASSUME NEW t \in Tabs, Lose(t) PROVE IInv'
  BY <1>0, <1>6, Landing DEF Lose
<1>7. ASSUME NEW t \in Tabs, Leave(t) PROVE IInv'
  BY <1>0, <1>7, Landing DEF Leave
<1>8. ASSUME NEW t \in Tabs, Logout(t) PROVE IInv'
  <2>1. /\ jar' \in {jar, 0} /\ UNCHANGED <<voo, lock, pedido, rotacao, marcas>>
        /\ UNCHANGED sessao \/ EndSession
    BY <1>8 DEF Logout
  <2>2. QED
    BY <1>0, <1>a, <2>1, EndDoomsNone, NothingSent
<1>9. ASSUME NEW p \in Pedidos, ReadToken(p) PROVE IInv'
  <2> DEFINE q == [pedido[p] EXCEPT !.fase = "lido"]
  <2>1. /\ q \in Pedido /\ q.fase = "lido" /\ q.cookie = pedido[p].cookie
        /\ pedido' = [pedido EXCEPT ![p] = q]
    BY <1>0, <1>9 DEF ReadToken, TypeOK, Pedido
  <2>2. /\ UNCHANGED <<jar, voo, lock, marcas, sessao, rotacao>> /\ pedido[p].fase = "enviado"
        /\ pedido[p].cookie # 0 /\ sessao[pedido[p].cookie] = "viva"
    BY <1>9 DEF ReadToken, Browser, Server, Alive
  <2> HIDE DEF q
  <2>3. QED
    BY <1>0, <1>a, <2>1, <2>2, Serving
<1>10. ASSUME NEW p \in Pedidos, Rotate(p) PROVE IInv'
  <2>1. /\ Fresh \in Token /\ sessao[Fresh] = "ausente" /\ Fresh # 0 /\ rotacao = NoRotation
    BY <1>10 DEF Rotate, MayRotate, Fresh, Token
  <2>2. /\ pedido[p].fase = "lido" /\ Answer(p, Fresh) /\ UNCHANGED <<jar, voo, lock, marcas>>
        /\ \A k \in Token : sessao'[k] = IF k = Fresh THEN "emitida" ELSE sessao[k]
        /\ rotacao'.de = pedido[p].cookie
    BY <1>0, <1>10 DEF Rotate, Browser, TypeOK
  <2>3. pedido[p].cookie # 0 /\ sessao[pedido[p].cookie] # "ausente"
    BY <2>2 DEF IInv, ReadOnce
  <2> DEFINE n == Fresh
  <2>4. n \in Cookie
    BY <2>1, TokenCookie
  <2> HIDE DEF n
  <2>5. PICK q \in Pedido :
            /\ pedido' = [pedido EXCEPT ![p] = q]
            /\ IF Orphan(p) THEN q = Done
               ELSE q.fase = "respondido" /\ q.nova = n /\ q.cookie = pedido[p].cookie
    BY <1>0, <2>2, <2>4, AnsweredType DEF n
  <2>6. \A k \in Token : Doomed(k)' => \/ Doomed(k) \/ k \in marcas
                                       \/ /\ ~Orphan(p) /\ k = pedido[p].cookie
                                          /\ q.fase = "respondido" /\ q.nova # 0
    <3> SUFFICES ASSUME NEW k \in Token, Doomed(k)', ~Doomed(k), k \notin marcas
                 PROVE  /\ ~Orphan(p) /\ k = pedido[p].cookie
                        /\ q.fase = "respondido" /\ q.nova # 0
      OBVIOUS
    <3>1. k = pedido[p].cookie
      BY <2>2 DEF Doomed
    <3>2. ~Orphan(p)
      BY <2>3, <3>1 DEF IInv, Marked
    <3>3. QED
      BY <2>1, <2>5, <3>1, <3>2 DEF n
  <2>7. sessao'[n] # "gasta" /\ rotacao'.de # n
    BY <2>1, <2>2, <2>3 DEF n
  <2>8. IF Orphan(p) THEN q.cookie \in {0, pedido[p].cookie} ELSE q.cookie = pedido[p].cookie
    BY <2>5 DEF Done
  <2>9. q.fase # "lido"
    BY <2>5 DEF Done
  <2>10. \A k \in Token : sessao[k] # "ausente" => sessao'[k] # "ausente"
    BY <2>2
  <2>11. QED
    BY <1>0, <2>2, <2>5, <2>6, <2>7, <2>8, <2>9, <2>10, Serving
<1>11. ASSUME NEW p \in Pedidos, Answer(p, 0), pedido[p].fase # "respondido",
              UNCHANGED <<jar, voo, lock, marcas, rotacao>>, UNCHANGED sessao \/ EndSession
       PROVE  IInv'
  <2>1. PICK q \in Pedido :
            /\ pedido' = [pedido EXCEPT ![p] = q]
            /\ IF Orphan(p) THEN q = Done
               ELSE q.fase = "respondido" /\ q.nova = 0 /\ q.cookie = pedido[p].cookie
    BY <1>0, <1>11, TokenCookie, AnsweredType
  <2>2. /\ IF Orphan(p) THEN q.cookie \in {0, pedido[p].cookie} ELSE q.cookie = pedido[p].cookie
        /\ q.fase # "lido" /\ q.nova = 0
    BY <2>1 DEF Done
  <2>3. QED
    BY <1>0, <1>a, <1>11, <2>1, <2>2, EndDoomsNone, Serving
<1>12. ASSUME NEW p \in Pedidos, RefuseRefresh(p) PROVE IInv'
  BY <1>11, <1>12 DEF RefuseRefresh, Browser, Server
<1>13. ASSUME NEW p \in Pedidos, Replay(p) PROVE IInv'
  BY <1>11, <1>13 DEF Replay, Browser
<1>14. CASE CommitRotation
  <2>1. /\ UNCHANGED <<jar, voo, lock, pedido, marcas>> /\ rotacao'.de = 0
        /\ \A k \in Token : sessao'[k] = IF k = rotacao.nova THEN "viva"
                                         ELSE IF k = rotacao.de /\ sessao[k] = "viva" THEN "gasta"
                                         ELSE sessao[k]
    BY <1>14 DEF CommitRotation, Browser, NoRotation
  <2>2. \A k \in Token : Doomed(k)' => Doomed(k)
    BY <2>1 DEF Doomed, Token
  <2>3. QED
    BY <1>0, <2>1, <2>2, NothingSent
<1>15. CASE FailCommit
  <2>1. UNCHANGED <<jar, voo, lock, pedido, marcas, sessao>> /\ rotacao'.de = 0
    BY <1>15 DEF FailCommit, Browser, NoRotation
  <2>2. \A k \in Token : Doomed(k)' => Doomed(k)
    BY <2>1 DEF Doomed, Token
  <2>3. QED
    BY <1>0, <2>1, <2>2, NothingSent
<1>16. CASE UNCHANGED vars
  <2>1. UNCHANGED <<jar, voo, lock, pedido, marcas, sessao, rotacao>>
    BY <1>16 DEF vars
  <2>2. QED
    BY <1>0, <1>a, <2>1, NothingSent
<1>17. QED
  BY <1>1, <1>2, <1>3, <1>4, <1>5, <1>6, <1>7, <1>8, <1>9, <1>10, <1>12, <1>13, <1>14, <1>15, <1>16
  DEF Next, Serve

-----------------------------------------------------------------------------
(* The tokens that work.                                                     *)

\* While no answer was missed, nothing but the one token that is alive is read or
\* spent.
Alone ==
    marcas = {} =>
        /\ \A j, k \in Token : Alive(j) /\ Alive(k) => j = k
        /\ rotacao # NoRotation => \A k \in Token : Alive(k) => k = rotacao.de
        /\ \A p \in Pedidos : pedido[p].fase = "lido" =>
              rotacao = NoRotation /\ \A k \in Token : Alive(k) => k = pedido[p].cookie

\* A step that reads no token and takes no life but what it takes away.
LEMMA StaysAlone ==
    ASSUME Alone, marcas \subseteq marcas',
           rotacao' = rotacao \/ rotacao' = NoRotation,
           \A p \in Pedidos : pedido'[p].fase = "lido" =>
              pedido[p].fase = "lido" /\ pedido'[p].cookie = pedido[p].cookie,
           \A k \in Token : Alive(k)' => Alive(k)
    PROVE  Alone'
  BY DEF Alone

\* Two requests that are both under way: one of them was given up.
LEMMA OneRead ==
    ASSUME IInv, marcas = {}, NEW p \in Pedidos, NEW q \in Pedidos,
           pedido[p].cookie # 0, pedido[q].cookie # 0
    PROVE  p = q /\ ~Orphan(p)
<1>1. ~Orphan(p) /\ ~Orphan(q)
  BY DEF IInv, Marked
<1>2. QED
  BY <1>1, WaitedForIsSent DEF IInv, Marked

LEMMA AloneStep ==
    ASSUME HasLocks, IInv, Alone, [Next]_vars
    PROVE  Alone'
<1>0. TypeOK /\ TypeOK'
  BY TypeStep DEF IInv
<1>a. ASSUME EndSession PROVE \A k \in Token : Alive(k)' => Alive(k)
  BY <1>a DEF EndSession, Alive
<1>b. ASSUME UNCHANGED sessao PROVE \A k \in Token : Alive(k)' => Alive(k)
  BY <1>b DEF Alive
<1>c. ASSUME NEW p \in Pedidos, NEW n \in Cookie, Answer(p, n)
      PROVE  \A q \in Pedidos : /\ pedido'[q].fase = "lido" =>
                                      pedido[q].fase = "lido" /\ pedido'[q].cookie = pedido[q].cookie
                                /\ q = p => pedido'[q].fase # "lido"
  <2>1. PICK r \in Pedido : pedido' = [pedido EXCEPT ![p] = r] /\ r.fase # "lido"
    BY <1>0, <1>c, AnsweredType DEF Done
  <2>2. QED
    BY <1>0, <2>1 DEF TypeOK
<1>1. ASSUME NEW x \in Calls, StartCall(x) \/ SettleCall(x) \/ RetryCall(x) PROVE Alone'
  <2>1. UNCHANGED <<sessao, rotacao, marcas>>
    BY <1>1 DEF StartCall, SettleCall, RetryCall, Server
  <2>2. UNCHANGED pedido
    <3>1. CASE \E t \in Tabs : Refresh(t)
      BY <1>0, <3>1, RefreshType
    <3>2. CASE RetryCall(x)
      BY <1>0, <3>1, <3>2 DEF RetryCall, TypeOK
    <3>3. CASE StartCall(x) \/ SettleCall(x)
      BY <3>1, <3>3 DEF StartCall, SettleCall
    <3>4. QED
      BY <1>1, <3>2, <3>3
  <2>3. QED
    BY <1>b, <2>1, <2>2, StaysAlone
<1>2. ASSUME NEW t \in Tabs, TakeLock(t) PROVE Alone'
  <2>1. Send(t) /\ UNCHANGED <<sessao, rotacao, marcas>>
    BY <1>2 DEF TakeLock, Server
  <2>2. \A q \in Pedidos : pedido'[q].fase = "lido" =>
            pedido[q].fase = "lido" /\ pedido'[q].cookie = pedido[q].cookie
    <3>1. PICK p \in Pedidos :
              /\ pedido'[p] = [fase |-> "enviado", cookie |-> jar, nova |-> 0]
              /\ \A q \in Pedidos : q # p => pedido'[q] = pedido[q]
      BY <1>0, <2>1, SendType
    <3>2. QED
      BY <3>1
  <2>3. QED
    BY <1>b, <2>1, <2>2, StaysAlone
<1>3. ASSUME NEW t \in Tabs, Deliver(t) \/ Lose(t) \/ Leave(t) PROVE Alone'
  <2>1. UNCHANGED <<sessao, rotacao>> /\ marcas \subseteq marcas'
    BY <1>3 DEF Deliver, Lose, Leave, StoreAnswer, MissAnswer
  <2>2. \/ UNCHANGED pedido
        \/ voo[t].pedido \in Pedidos /\ pedido' = [pedido EXCEPT ![voo[t].pedido] = Done]
    <3>1. CASE StoreAnswer(t) \/ MissAnswer(t)
      BY <1>0, <3>1, AnswerType DEF StoreAnswer, MissAnswer
    <3>2. QED
      BY <1>3, <3>1 DEF Deliver, Lose, Leave
  <2>3. \A q \in Pedidos : pedido'[q].fase = "lido" =>
            pedido[q].fase = "lido" /\ pedido'[q].cookie = pedido[q].cookie
    BY <1>0, <2>2 DEF TypeOK, Done
  <2>4. QED
    BY <1>b, <2>1, <2>3, StaysAlone
<1>4. ASSUME NEW t \in Tabs, Logout(t) PROVE Alone'
  <2>1. UNCHANGED <<pedido, rotacao, marcas>> /\ (UNCHANGED sessao \/ EndSession)
    BY <1>4 DEF Logout
  <2>2. QED
    BY <1>a, <1>b, <2>1, StaysAlone
<1>5. ASSUME NEW p \in Pedidos, ReadToken(p) PROVE Alone'
  <2>1. /\ UNCHANGED <<sessao, rotacao, marcas>> /\ Alive(pedido[p].cookie)
        /\ pedido[p].cookie \in Token /\ pedido[p].fase = "enviado"
    BY <1>0, <1>5, TokenCookie DEF ReadToken, Server, Alive, TypeOK, Pedido
  <2>2. \A q \in Pedidos : /\ q # p => pedido'[q] = pedido[q]
                           /\ pedido'[q].cookie = pedido[q].cookie
    BY <1>0, <1>5 DEF ReadToken, TypeOK, Pedido
  <2>3. ASSUME marcas = {} PROVE rotacao = NoRotation
    <3>1. pedido[p].cookie # 0
      BY <2>1 DEF Alive
    <3>2. PICK t \in Tabs : Sent(t) /\ Request(t) = pedido[p]
      BY <2>3, <3>1, OneRead, WaitedForIsSent DEF IInv
    <3>3. ~Doomed(pedido[p].cookie)
      BY <2>1, <2>3, <3>1, <3>2 DEF IInv, Marked, Replaced, Safe
    <3>4. QED
      BY <2>1, <2>3, <3>3 DEF Alone, Doomed
  <2>4. \A k : Alive(k)' <=> Alive(k)
    BY <2>1 DEF Alive
  <2>5. QED
    BY <2>1, <2>2, <2>3, <2>4 DEF Alone
<1>6. ASSUME NEW p \in Pedidos, Rotate(p) PROVE Alone'
  <2>1. Fresh \in Token /\ Fresh \in Cookie /\ rotacao = NoRotation
    BY <1>6, TokenCookie DEF Rotate, MayRotate, Fresh
  <2>2. /\ pedido[p].fase = "lido" /\ Answer(p, Fresh) /\ marcas' = marcas
        /\ rotacao'.de = pedido[p].cookie
        /\ \A k \in Token : Alive(k)' => Alive(k)
    BY <1>0, <1>6 DEF Rotate, TypeOK, Alive
  <2>3. \A q \in Pedidos : pedido'[q].fase = "lido" => pedido[q].fase = "lido" /\ q # p
    BY <1>c, <2>1, <2>2
  <2>4. ASSUME marcas = {}, NEW q \in Pedidos PROVE pedido'[q].fase # "lido"
    BY <2>2, <2>3, <2>4, OneRead DEF IInv, ReadOnce
  <2>5. QED
    BY <2>2, <2>4 DEF Alone
<1>7. ASSUME NEW p \in Pedidos, RefuseRefresh(p) \/ Replay(p) PROVE Alone'
  <2>1. Answer(p, 0) /\ UNCHANGED <<rotacao, marcas>> /\ (UNCHANGED sessao \/ EndSession)
    BY <1>7 DEF RefuseRefresh, Replay, Server
  <2>2. QED
    BY <1>a, <1>b, <1>c, <2>1, TokenCookie, StaysAlone
<1>8. CASE CommitRotation
  <2>1. /\ rotacao # NoRotation /\ rotacao' = NoRotation /\ UNCHANGED <<pedido, marcas>>
        /\ \A k \in Token : sessao'[k] = IF k = rotacao.nova THEN "viva"
                                         ELSE IF k = rotacao.de /\ sessao[k] = "viva" THEN "gasta"
                                         ELSE sessao[k]
    BY <1>8 DEF CommitRotation
  <2>2. ASSUME marcas = {}
        PROVE  /\ \A k \in Token : Alive(k)' => k = rotacao.nova
               /\ \A p \in Pedidos : pedido'[p].fase # "lido"
    BY <2>1, <2>2 DEF Alone, Alive
  <2>3. QED
    BY <2>1, <2>2 DEF Alone
<1>9. CASE FailCommit
  BY <1>b, <1>9, StaysAlone DEF FailCommit
<1>10. CASE UNCHANGED vars
  BY <1>b, <1>10, StaysAlone DEF vars
<1>11. QED
  BY <1>1, <1>2, <1>3, <1>4, <1>5, <1>6, <1>7, <1>8, <1>9, <1>10 DEF Next, Serve

-----------------------------------------------------------------------------
(* The theorems.                                                             *)

\* The types of the tabs, the calls, the requests and the tokens, and that a tab
\* which holds the lock has a refresh under way (session.ts withLock), with or
\* without locks.
THEOREM TypeCorrect == Spec => []TypeOK
<1>1. Init => TypeOK
  BY InitInv DEF IInv
<1>2. QED
  BY <1>1, TypeStep, PTL DEF Spec

\* Where the browser has locks, tabs and calls do not end each other's session,
\* however many they are and however their refreshes, page changes, lost answers
\* and logouts overlap (session.ts refresh, api/auth.py; AC-0010-46, -47).
THEOREM TabsDoNotReplay ==
    ASSUME HasLocks
    PROVE  Spec => ReplayHasAReason
<1>1. IInv /\ [Next]_vars => IInv'
  BY NextInv
<1>2. ASSUME IInv, NEW p \in Pedidos, Replay(p)
      PROVE  pedido[p].cookie \in marcas \/ sessao[pedido[p].cookie] = "encerrada"
  <2>1. pedido[p].cookie # 0 /\ sessao[pedido[p].cookie] \in {"gasta", "encerrada"}
        /\ pedido[p].fase = "enviado"
    BY <1>2 DEF Replay, Spent
  <2>2. CASE Orphan(p)
    BY <1>2, <2>1, <2>2 DEF IInv, Marked
  <2>3. CASE ~Orphan(p)
    <3>1. PICK t \in Tabs : Sent(t) /\ Request(t) = pedido[p]
      BY <1>2, <2>3, WaitedForIsSent DEF IInv
    <3>2. Safe(pedido[p].cookie)
      BY <1>2, <2>1, <3>1 DEF IInv, Marked, Replaced
    <3>3. QED
      BY <2>1, <3>2 DEF Safe, Doomed
  <2>4. QED
    BY <2>2, <2>3
<1>3. IInv => \A p \in Pedidos : Replay(p) =>
                 pedido[p].cookie \in marcas \/ sessao[pedido[p].cookie] = "encerrada"
  BY <1>2
<1>4. QED
  BY <1>1, <1>3, InitInv, PTL DEF Spec, ReplayHasAReason

LEMMA InitAlone == Init => Alone
<1> SUFFICES ASSUME Init PROVE Alone
  OBVIOUS
<1>1. /\ \A k \in Token : Alive(k) => k = 1
      /\ \A p \in Pedidos : pedido[p].fase = "livre"
      /\ rotacao = NoRotation
  BY DEF Init, Alive, Done
<1>2. QED
  BY <1>1 DEF Alone

\* Where the browser has locks and no answer was missed, at most one refresh token
\* of the session works at any time: rotate is never run twice with one token
\* (session.ts refresh and withLock, services/sessions.py rotate).
THEOREM OneTokenAliveSafe ==
    ASSUME HasLocks
    PROVE  Spec => []OneTokenAlive
<1>1. Init => IInv /\ Alone
  BY InitInv, InitAlone
<1>2. IInv /\ Alone /\ [Next]_vars => (IInv /\ Alone)'
  BY NextInv, AloneStep
<1>3. Alone => OneTokenAlive
  BY DEF Alone, OneTokenAlive
<1>4. QED
  BY <1>1, <1>2, <1>3, PTL DEF Spec

\* The refreshes the API has under way: a token that was read, up to the commit or
\* the rollback of its rotation, which the answer does not wait for.
KeptApart ==
    marcas = {} =>
        \A p \in Pedidos : pedido[p].fase = "lido" =>
            /\ rotacao = NoRotation
            /\ \A q \in Pedidos : pedido[q].fase = "lido" => q = p

\* Where the browser has locks and no answer was missed, the API never runs two
\* refreshes of the session together, even though it commits a rotation after it
\* answered it: the new token is refused until then (session.ts withLock,
\* services/sessions.py rotate, core/db.py get_session).  Sessions asks this of
\* the families of SingleFlight.
THEOREM RefreshesKeptApart ==
    ASSUME HasLocks
    PROVE  Spec => []KeptApart
<1>1. Init => IInv /\ Alone
  BY InitInv, InitAlone
<1>2. IInv /\ Alone /\ [Next]_vars => (IInv /\ Alone)'
  BY NextInv, AloneStep
<1>3. IInv /\ Alone => KeptApart
  <2> SUFFICES ASSUME IInv, Alone, marcas = {}, NEW p \in Pedidos, pedido[p].fase = "lido"
               PROVE  /\ rotacao = NoRotation
                      /\ \A q \in Pedidos : pedido[q].fase = "lido" => q = p
    BY DEF KeptApart
  <2>1. rotacao = NoRotation
    BY DEF Alone
  <2>2. ASSUME NEW q \in Pedidos, pedido[q].fase = "lido" PROVE q = p
    <3>1. pedido[p].cookie # 0 /\ pedido[q].cookie # 0
      BY <2>2 DEF IInv, ReadOnce
    <3>2. QED
      BY <3>1, OneRead
  <2>3. QED
    BY <2>1, <2>2
<1>4. QED
  BY <1>1, <1>2, <1>3, PTL DEF Spec

=============================================================================

--------------------------- MODULE SessionsProofs ---------------------------
(***************************************************************************)
(* The safety theorems about Sessions, for any number of accounts,         *)
(* families, generations and open transactions.                            *)
(***************************************************************************)
EXTENDS Sessions, WellFoundedInduction, TLAPS

USE MaxGenAssumption, SingleFlightAssumption, NobodyAssumption

-----------------------------------------------------------------------------
(* The invariant.                                                            *)

\* The phase a transaction is in says what it is doing.
Phases(k) ==
    /\ k.fase \in {"lido", "travado", "inserido"} => k.op = "refresh"
    /\ k.fase = "papel" => k.op \in {"login", "refresh"}
    /\ k.fase = "varrendo" => k.op \in RevokeOps
    /\ k.op = "login" => k.usuario \in Users /\ k.fase = "papel"
    /\ k.op = "refresh" => k.fase \in {"lido", "papel", "travado", "inserido"}
    /\ k.fase = "livre" => k.op = "nada"

\* A refresh acts for the owner of a row that is committed.
Presents(k, fam, s) ==
    k.op = "refresh" => /\ k.linha \in Rows /\ s[k.linha] # "ausente"
                        /\ k.usuario = fam[k.linha[1]].dono

\* A rotation's new generation has every earlier one below it, and once it is
\* inserted nobody else can commit that generation.
Reserves(r, k, s, t) ==
    /\ k.fase \in {"travado", "inserido"} =>
          k.nova \in Gen /\ \A h \in 1..(k.nova - 1) : s[<<k.linha[1], h>>] # "ausente"
    /\ k.fase = "inserido" =>
          s[<<k.linha[1], k.nova>>] = "ausente" /\ t[<<k.linha[1], k.nova>>] = r

\* In a browser that serialises its refreshes, the only token of the family that
\* may still work is the one being refreshed.
Alone(k, s) ==
    k.op = "refresh" /\ k.linha[1] \in SingleFlight =>
        \A w \in Rows : w[1] = k.linha[1] /\ s[w] \in Unrevoked => w = k.linha

Sound(r, k, fam, s, t) ==
    Phases(k) /\ Presents(k, fam, s) /\ Reserves(r, k, s, t) /\ Alone(k, s)

\* The browser's lock: one refresh of a cookie at a time.
Serial ==
    \A r, s \in Requests :
        req[r].op = "refresh" /\ req[s].op = "refresh"
        /\ req[r].linha[1] = req[s].linha[1] /\ req[r].linha[1] \in SingleFlight => r = s

IInv ==
    /\ TypeOK
    /\ \A r \in Requests : Sound(r, req[r], familia, sessao, trava)
    /\ Serial
    /\ GenerationsContiguous
    /\ OneLiveToken

-----------------------------------------------------------------------------
(* One transaction's step, and what it may do to the tables and the locks.   *)

\* Nothing committed is uncommitted, no owner is replaced, nobody's lock is taken.
Keeps(r) ==
    /\ \A w \in Rows : sessao[w] # "ausente" => sessao'[w] # "ausente"
    /\ \A f \in Families : familia[f].dono # Nobody => familia'[f].dono = familia[f].dono
    /\ \A w \in Rows : trava[w] \notin {r, Nobody} => trava'[w] = trava[w]

\* A row that appears is the transaction's own and has its predecessors below it.
Adds(r) ==
    \A w \in Rows :
        sessao[w] = "ausente" /\ sessao'[w] # "ausente" =>
            /\ trava[w] = r \/ familia[w[1]].dono = Nobody
            /\ familia'[w[1]].dono # Nobody
            /\ \A h \in 1..(w[2] - 1) : sessao[<<w[1], h>>] # "ausente"

\* Past the check that the account may enter.
Past == {"papel", "travado", "inserido"}

\* A token that starts to work belongs to the family being refreshed or opened,
\* is the only one there in a browser with the lock, and acts for an account
\* that was let in.
Enlivens(r) ==
    \A w \in Rows :
        sessao[w] \notin Unrevoked /\ sessao'[w] \in Unrevoked =>
            /\ \/ req[r].op = "refresh" /\ w[1] = req[r].linha[1]
               \/ familia[w[1]].dono = Nobody
            /\ w[1] \in SingleFlight =>
                  \A v \in Rows : v[1] = w[1] /\ sessao'[v] \in Unrevoked => v = w
            /\ familia'[w[1]].dono = req[r].usuario /\ req[r].fase \in Past

\* A family changes hands only when it is opened.
Opens(r) ==
    \A f \in Families : familia'[f].dono # familia[f].dono =>
        familia'[f].dono = req[r].usuario /\ req[r].fase \in Past

Effects(r) == Keeps(r) /\ Adds(r) /\ Enlivens(r) /\ Opens(r)

\* Nobody else refreshes the cookie that this transaction starts to refresh.
Joins(r, k) ==
    k.op = "refresh" /\ k.linha[1] \in SingleFlight =>
        \A s \in Requests \ {r} : req[s].op = "refresh" => req[s].linha[1] # k.linha[1]

\* Whoever gets past the check is ativo at that moment.
Enters(r, k) ==
    k.fase \in Past => \/ k.usuario \in ativo
                       \/ req[r].fase \in Past /\ req[r].usuario = k.usuario

TablesTyped ==
    /\ ativo \subseteq Users
    /\ familia \in [Families -> [dono : Users \union {Nobody}, revogada : BOOLEAN]]
    /\ sessao \in [Rows -> State]
    /\ trava \in [Rows -> Requests \union {Nobody}]

Moves(r, k) ==
    /\ k \in Request /\ req' = [req EXCEPT ![r] = k]
    /\ Sound(r, k, familia', sessao', trava')
    /\ Effects(r) /\ Joins(r, k) /\ Enters(r, k)
    /\ TablesTyped'

LEMMA Before ==
    ASSUME IInv, NEW r \in Requests
    PROVE  /\ req[r] \in Request /\ req \in [Requests -> Request] /\ TablesTyped
           /\ Sound(r, req[r], familia, sessao, trava)
  BY DEF IInv, TypeOK, TablesTyped

\* A committed row is in a family that somebody opened.
LEMMA PresentOwned ==
    ASSUME IInv, NEW w \in Rows, sessao[w] # "ausente"
    PROVE  familia[w[1]].dono # Nobody /\ w[1] \in Families /\ w[2] \in Gen /\ w = <<w[1], w[2]>>
  BY DEF IInv, GenerationsContiguous, Rows

-----------------------------------------------------------------------------
(* Such a step keeps the invariant.                                          *)

\* What the other transactions know stays true.
LEMMA OthersSound ==
    ASSUME IInv, NEW r \in Requests, NEW k, Moves(r, k), NEW s \in Requests \ {r}
    PROVE  Sound(s, req[s], familia', sessao', trava')
<1> DEFINE p == req[s]
<1>1. p \in Request /\ Sound(s, p, familia, sessao, trava)
  BY Before
<1>2. CASE p.op # "refresh"
  BY <1>1, <1>2 DEF Sound, Phases, Presents, Reserves, Alone
<1>3. CASE p.op = "refresh"
  <2>1. /\ p.linha \in Rows /\ sessao[p.linha] # "ausente"
        /\ p.usuario = familia[p.linha[1]].dono
    BY <1>1, <1>3 DEF Sound, Presents
  <2>2. p.linha[1] \in Families /\ familia[p.linha[1]].dono # Nobody
    BY <2>1, PresentOwned
  <2>3. Presents(p, familia', sessao')
    BY <2>1, <2>2 DEF Moves, Effects, Keeps, Presents
  <2>4. Reserves(s, p, sessao', trava')
    <3>1. ASSUME p.fase \in {"travado", "inserido"}
          PROVE  p.nova \in Gen /\ \A h \in 1..(p.nova - 1) : sessao'[<<p.linha[1], h>>] # "ausente"
      <4>1. p.nova \in Gen /\ \A h \in 1..(p.nova - 1) : sessao[<<p.linha[1], h>>] # "ausente"
        BY <1>1, <3>1 DEF Sound, Reserves
      <4>2. \A h \in 1..(p.nova - 1) : <<p.linha[1], h>> \in Rows
        BY <2>2, <4>1 DEF Rows, Gen
      <4>3. QED
        BY <4>1, <4>2 DEF Moves, Effects, Keeps
    <3>2. ASSUME p.fase = "inserido"
          PROVE  sessao'[<<p.linha[1], p.nova>>] = "ausente" /\ trava'[<<p.linha[1], p.nova>>] = s
      <4> DEFINE w == <<p.linha[1], p.nova>>
      <4>1. p.nova \in Gen /\ sessao[w] = "ausente" /\ trava[w] = s
        BY <1>1, <3>2 DEF Sound, Reserves
      <4>2. w \in Rows /\ w[1] = p.linha[1]
        BY <2>2, <4>1 DEF Rows
      <4>3. s # r /\ s # Nobody
        OBVIOUS
      <4> HIDE DEF w
      <4>4. trava'[w] = s
        BY <4>1, <4>2, <4>3 DEF Moves, Effects, Keeps
      <4>5. sessao'[w] = "ausente"
        BY <2>2, <4>1, <4>2, <4>3 DEF Moves, Effects, Adds
      <4>6. QED
        BY <4>4, <4>5 DEF w
    <3>3. QED
      BY <3>1, <3>2 DEF Reserves
  <2>5. Alone(p, sessao')
    <3> SUFFICES ASSUME p.linha[1] \in SingleFlight, NEW w \in Rows,
                        w[1] = p.linha[1], sessao'[w] \in Unrevoked
                 PROVE  w = p.linha
      BY DEF Alone
    <3>1. CASE sessao[w] \in Unrevoked
      BY <1>1, <1>3, <3>1 DEF Sound, Alone
    <3>2. CASE sessao[w] \notin Unrevoked
      <4>1. req[r].op = "refresh" /\ w[1] = req[r].linha[1]
        BY <2>2, <3>2 DEF Moves, Effects, Enlivens
      <4>2. QED
        BY <1>3, <4>1 DEF IInv, Serial
    <3>3. QED
      BY <3>1, <3>2
  <2>6. QED
    BY <1>1, <2>3, <2>4, <2>5 DEF Sound
<1>4. QED
  BY <1>2, <1>3

LEMMA MovesKeeps ==
    ASSUME IInv, NEW r \in Requests, NEW k, Moves(r, k)
    PROVE  IInv'
<1>1. TypeOK'
  BY DEF IInv, TypeOK, Moves, TablesTyped
<1>2. /\ req'[r] = k
      /\ \A s \in Requests \ {r} : req'[s] = req[s]
  BY Before DEF Moves
<1>3. ASSUME NEW s \in Requests
      PROVE  Sound(s, req'[s], familia', sessao', trava')
  <2>1. CASE s = r
    BY <1>2, <2>1 DEF Moves
  <2>2. CASE s # r
    BY <1>2, <2>2, OthersSound
  <2>3. QED
    BY <2>1, <2>2
<1>4. Serial'
  BY <1>2 DEF IInv, Serial, Moves, Joins
<1>5. GenerationsContiguous'
  <2> SUFFICES ASSUME NEW f \in Families, NEW g \in Gen, sessao'[<<f, g>>] # "ausente"
               PROVE  /\ familia'[f].dono # Nobody
                      /\ \A h \in 1..g : sessao'[<<f, h>>] # "ausente"
    BY DEF GenerationsContiguous
  <2>1. \A h \in 1..g : <<f, h>> \in Rows
    BY DEF Rows, Gen
  <2>2. g \in 1..g /\ g \in Nat
    BY DEF Gen
  <2>3. CASE sessao[<<f, g>>] # "ausente"
    <3>1. familia[f].dono # Nobody /\ \A h \in 1..g : sessao[<<f, h>>] # "ausente"
      BY <2>3 DEF IInv, GenerationsContiguous
    <3>2. QED
      BY <2>1, <3>1 DEF Moves, Effects, Keeps
  <2>4. CASE sessao[<<f, g>>] = "ausente"
    <3> DEFINE w == <<f, g>>
    <3>1. w \in Rows /\ w[1] = f /\ w[2] = g
      BY <2>1, <2>2
    <3>2. /\ familia'[w[1]].dono # Nobody
          /\ \A h \in 1..(w[2] - 1) : sessao[<<w[1], h>>] # "ausente"
      <4> HIDE DEF w
      <4>1. QED
        BY <2>4, <3>1 DEF Moves, Effects, Adds, w
    <3>3. \A h \in 1..(g - 1) : sessao'[<<f, h>>] # "ausente"
      BY <2>1, <2>2, <3>1, <3>2 DEF Moves, Effects, Keeps
    <3>4. QED
      BY <2>2, <3>1, <3>2, <3>3
  <2>5. QED
    BY <2>3, <2>4
<1>6. OneLiveToken'
  <2> SUFFICES ASSUME NEW v \in Rows, NEW w \in Rows, v[1] = w[1], v[1] \in SingleFlight,
                      sessao'[v] \in Unrevoked, sessao'[w] \in Unrevoked
               PROVE  v = w
    BY DEF OneLiveToken, Live
  <2>1. CASE sessao[v] \in Unrevoked /\ sessao[w] \in Unrevoked
    BY <2>1 DEF IInv, OneLiveToken, Live
  <2>2. CASE sessao[v] \notin Unrevoked
    BY <2>2 DEF Moves, Effects, Enlivens
  <2>3. CASE sessao[w] \notin Unrevoked
    BY <2>3 DEF Moves, Effects, Enlivens
  <2>4. QED
    BY <2>1, <2>2, <2>3
<1>7. QED
  BY <1>1, <1>3, <1>4, <1>5, <1>6 DEF IInv

-----------------------------------------------------------------------------
(* Every action of a transaction is such a step.                             *)

LEMMA IdleStep ==
    ASSUME IInv, NEW r \in Requests, Close(r), TablesTyped', Effects(r)
    PROVE  \E k : Moves(r, k)
<1>1. Idle \in Request
  BY DEF Idle, Request, Op, Phase
<1>2. Sound(r, Idle, familia', sessao', trava')
  BY DEF Idle, Sound, Phases, Presents, Reserves, Alone
<1>3. Joins(r, Idle) /\ Enters(r, Idle)
  BY DEF Idle, Joins, Enters, Past
<1>4. Moves(r, Idle)
  BY <1>1, <1>2, <1>3 DEF Close, Moves
<1>5. QED
  BY <1>4

\* Nothing is committed and no other transaction's lock is touched.
LEMMA QuietEffects ==
    ASSUME UNCHANGED Tables, NEW r \in Requests,
           \A w \in Rows : trava[w] \notin {r, Nobody} => trava'[w] = trava[w]
    PROVE  Effects(r)
  BY DEF Tables, Effects, Keeps, Adds, Enlivens, Opens

LEMMA CloseLocks ==
    ASSUME IInv, NEW r \in Requests, Close(r)
    PROVE  /\ trava' \in [Rows -> Requests \union {Nobody}]
           /\ \A w \in Rows : trava[w] \notin {r, Nobody} => trava'[w] = trava[w]
  BY DEF IInv, TypeOK, Close

\* A transaction that rolls back, or reads without taking a lock.
LEMMA RollBackStep ==
    ASSUME IInv, NEW r \in Requests, Close(r), UNCHANGED Tables
    PROVE  \E k : Moves(r, k)
<1>1. TablesTyped'
  BY Before, CloseLocks DEF TablesTyped, Tables
<1>2. QED
  BY <1>1, CloseLocks, QuietEffects, IdleStep

LEMMA OpenStep ==
    ASSUME IInv, NEW r \in Requests, NEW k \in Request, Open(r, k),
           UNCHANGED <<Tables, trava>>,
           Sound(r, k, familia, sessao, trava), Joins(r, k), Enters(r, k)
    PROVE  Moves(r, k)
<1>1. TablesTyped'
  BY Before DEF TablesTyped, Tables
<1>2. Effects(r)
  BY QuietEffects
<1>3. QED
  BY <1>1, <1>2 DEF Moves, Open, Tables

\* A transaction with a field rewritten is a transaction.
LEMMA Rewritten ==
    ASSUME NEW p \in Request
    PROVE  /\ \A op \in Op : [p EXCEPT !.op = op] \in Request
           /\ \A fase \in Phase : [p EXCEPT !.fase = fase] \in Request
           /\ \A u \in Users \union {Nobody} : [p EXCEPT !.usuario = u] \in Request
           /\ \A w \in Rows \union {Nobody} : [p EXCEPT !.linha = w] \in Request
           /\ \A n \in 0..MaxGen : [p EXCEPT !.nova = n] \in Request
           /\ \A alvos \in SUBSET Rows : [p EXCEPT !.alvos = alvos] \in Request
  BY DEF Request

LEMMA IdleTyped == Idle \in Request
  BY DEF Idle, Request, Op, Phase

LEMMA ReadLoginStep ==
    ASSUME IInv, NEW r \in Requests, ReadLogin(r)
    PROVE  \E k : Moves(r, k)
<1>1. PICK u \in ativo : Open(r, [Idle EXCEPT !.op = "login", !.fase = "papel", !.usuario = u])
                         /\ UNCHANGED <<Tables, trava>>
  BY DEF ReadLogin
<1> DEFINE k == [Idle EXCEPT !.op = "login", !.fase = "papel", !.usuario = u]
<1>2. u \in Users
  BY Before DEF TablesTyped
<1> DEFINE k1 == [Idle EXCEPT !.op = "login"]
           k2 == [k1 EXCEPT !.fase = "papel"]
<1>3. k \in Request
  <2>1. k1 \in Request
    BY IdleTyped, Rewritten DEF Op
  <2>2. k2 \in Request
    <3> HIDE DEF k1
    <3>1. QED
      BY <2>1, Rewritten DEF Phase
  <2>3. k = [k2 EXCEPT !.usuario = u]
    OBVIOUS
  <2> HIDE DEF k, k2
  <2>4. QED
    BY <1>2, <2>2, <2>3, Rewritten
<1>4. Sound(r, k, familia, sessao, trava) /\ Joins(r, k) /\ Enters(r, k)
  BY <1>2 DEF Idle, Sound, Phases, Presents, Reserves, Alone, Joins, Enters
<1>5. QED
  BY <1>1, <1>3, <1>4, OpenStep

LEMMA ReadTokenStep ==
    ASSUME IInv, NEW r \in Requests, ReadToken(r)
    PROVE  \E k : Moves(r, k)
<1>1. PICK w \in Rows :
         /\ req[r].fase = "livre"
         /\ sessao[w] = "viva"
         /\ MayRefresh(w[1])
         /\ Open(r, [Idle EXCEPT !.op = "refresh", !.fase = "lido",
                                 !.usuario = Owner(w), !.linha = w])
         /\ UNCHANGED <<Tables, trava>>
  BY DEF ReadToken
<1> DEFINE k == [Idle EXCEPT !.op = "refresh", !.fase = "lido",
                             !.usuario = Owner(w), !.linha = w]
<1>2. Owner(w) \in Users \union {Nobody} /\ w[1] \in Families
  BY Before DEF TablesTyped, Owner, Rows
<1> DEFINE k1 == [Idle EXCEPT !.op = "refresh"]
           k2 == [k1 EXCEPT !.fase = "lido"]
           k3 == [k2 EXCEPT !.usuario = Owner(w)]
<1>3. k \in Request
  <2>1. k1 \in Request
    BY IdleTyped, Rewritten DEF Op
  <2>2. k2 \in Request
    <3> HIDE DEF k1
    <3>1. QED
      BY <2>1, Rewritten DEF Phase
  <2>3. k3 \in Request
    <3> HIDE DEF k2
    <3>1. QED
      BY <1>2, <2>2, Rewritten
  <2>4. k = [k3 EXCEPT !.linha = w]
    OBVIOUS
  <2> HIDE DEF k, k3
  <2>5. QED
    BY <2>3, <2>4, Rewritten
<1>4. /\ k.op = "refresh" /\ k.fase = "lido" /\ k.linha = w /\ k.usuario = Owner(w)
  BY DEF Idle
<1> HIDE DEF k
<1>5. Alone(k, sessao)
  BY <1>1, <1>4 DEF Alone, IInv, OneLiveToken, Live, Unrevoked
<1>6. Sound(r, k, familia, sessao, trava)
  BY <1>1, <1>4, <1>5 DEF Sound, Phases, Presents, Reserves, Owner
<1>7. Joins(r, k) /\ Enters(r, k)
  BY <1>1, <1>4 DEF Joins, Enters, Past, MayRefresh
<1>8. QED
  BY <1>1, <1>3, <1>6, <1>7, OpenStep DEF k

LEMMA CheckRoleStep ==
    ASSUME IInv, NEW r \in Requests, CheckRole(r)
    PROVE  \E k : Moves(r, k)
<1> DEFINE k == [req[r] EXCEPT !.fase = "papel"]
<1>1. req[r].op = "refresh" /\ req[r].usuario \in ativo
  BY Before DEF CheckRole, Sound, Phases
<1>2. k \in Request
  BY Before DEF Request, Phase
<1>3. Sound(r, k, familia, sessao, trava)
  BY Before, <1>1 DEF Request, Sound, Phases, Presents, Reserves, Alone
<1>4. Joins(r, k) /\ Enters(r, k)
  BY Before, <1>1 DEF Request, Joins, Enters, IInv, Serial
<1>5. QED
  BY <1>2, <1>3, <1>4, OpenStep DEF CheckRole

-----------------------------------------------------------------------------
(* The next generation.                                                      *)

Above(f, n) == \A g \in Gen : sessao[<<f, g>>] # "ausente" => g < n

\* next_generation is one more than a committed generation, and above every one.
LEMMA NextGenerationIsNext ==
    ASSUME IInv, NEW w \in Rows, sessao[w] # "ausente", NextGeneration(w[1]) \in Gen
    PROVE  /\ Above(w[1], NextGeneration(w[1]))
           /\ \A h \in 1..(NextGeneration(w[1]) - 1) : sessao[<<w[1], h>>] # "ausente"
<1> DEFINE f == w[1]
           T == {n \in Nat : Above(f, n)}
<1>1. f \in Families /\ w[2] \in Gen /\ w = <<f, w[2]>>
  BY PresentOwned
<1>2. MaxGen + 1 \in T
  BY DEF Above, Gen
<1>3. PICK n \in T : \A m \in T : ~(<<m, n>> \in OpToRel(<, Nat))
  <2> HIDE DEF T
  <2>1. T \subseteq Nat /\ T # {}
    BY <1>2 DEF T
  <2>2. QED
    BY <2>1, NatLessThanWellFounded, WFMin
<1>4. \A m \in T : ~(m < n)
  BY <1>3 DEF OpToRel
<1>5. n \in 2..(MaxGen + 1)
  <2>1. w[2] < n
    BY <1>1 DEF Above
  <2>2. n <= MaxGen + 1
    BY <1>2, <1>4
  <2>3. QED
    BY <1>1, <2>1, <2>2 DEF Gen
<1>6. n - 1 \notin T /\ n - 1 \in Nat
  BY <1>4, <1>5
<1>7. PICK g \in Gen : sessao[<<f, g>>] # "ausente" /\ ~(g < n - 1)
  BY <1>6 DEF Above
<1>8. g = n - 1
  BY <1>5, <1>7 DEF Above, Gen
<1> DEFINE Good(m) == Above(f, m) /\ (m > 1 => sessao[<<f, m - 1>>] # "ausente")
<1>9. n \in 1..(MaxGen + 1) /\ Good(n)
  BY <1>5, <1>7, <1>8
<1>10. NextGeneration(f) = CHOOSE m \in 1..(MaxGen + 1) : Good(m)
  BY DEF NextGeneration, Above
<1>11. Good(NextGeneration(f))
  <2> HIDE DEF Good
  <2>1. QED
    BY <1>9, <1>10
<1>12. ASSUME NEW h \in 1..(NextGeneration(f) - 1)
       PROVE  sessao[<<f, h>>] # "ausente"
  <2> DEFINE e == NextGeneration(f) - 1
  <2>1. NextGeneration(f) \in Gen
    OBVIOUS
  <2>2. e \in Gen /\ h \in 1..e /\ NextGeneration(f) > 1
    BY <1>12, <2>1 DEF Gen
  <2>3. sessao[<<f, e>>] # "ausente"
    BY <1>11, <2>2
  <2>4. QED
    BY <1>1, <2>2, <2>3 DEF IInv, GenerationsContiguous
<1>13. QED
  BY <1>11, <1>12

LEMMA LockTokenStep ==
    ASSUME IInv, NEW r \in Requests, LockToken(r)
    PROVE  \E k : Moves(r, k)
<1> DEFINE n == NextGeneration(req[r].linha[1])
           k == [req[r] EXCEPT !.fase = "travado", !.nova = n]
<1>1. /\ req[r].op = "refresh" /\ req[r].fase = "papel"
      /\ req[r].linha \in Rows /\ sessao[req[r].linha] # "ausente"
      /\ n \in Gen /\ trava[req[r].linha] = Nobody
      /\ trava' = [trava EXCEPT ![req[r].linha] = r]
      /\ Open(r, k) /\ UNCHANGED Tables
  BY Before DEF LockToken, Sound, Presents
<1>2. \A h \in 1..(n - 1) : sessao[<<req[r].linha[1], h>>] # "ausente"
  BY <1>1, NextGenerationIsNext
<1> HIDE DEF n
<1> DEFINE k1 == [req[r] EXCEPT !.fase = "travado"]
<1>3. k \in Request
  <2>1. k1 \in Request
    BY Before, Rewritten DEF Phase
  <2>2. k = [k1 EXCEPT !.nova = n] /\ n \in 0..MaxGen
    BY <1>1 DEF Gen
  <2> HIDE DEF k, k1
  <2>3. QED
    BY <2>1, <2>2, Rewritten
<1>9. /\ k.op = "refresh" /\ k.fase = "travado" /\ k.linha = req[r].linha
      /\ k.nova = n /\ k.usuario = req[r].usuario
  BY Before, <1>1 DEF Request
<1> HIDE DEF k
<1>4. Sound(r, k, familia', sessao', trava')
  <2>1. UNCHANGED <<familia, sessao>>
    BY <1>1 DEF Tables
  <2>2. Sound(r, k, familia, sessao, trava')
    <3>1. Phases(k)
      BY <1>9 DEF Phases
    <3>2. Presents(k, familia, sessao) /\ Alone(k, sessao)
      BY Before, <1>1, <1>9 DEF Sound, Presents, Alone
    <3>3. Reserves(r, k, sessao, trava')
      BY <1>1, <1>2, <1>9 DEF Reserves
    <3>4. QED
      BY <3>1, <3>2, <3>3 DEF Sound
  <2>3. QED
    BY <2>1, <2>2
<1>5. Effects(r)
  BY Before, <1>1, QuietEffects DEF TablesTyped
<1>6. TablesTyped'
  BY Before, <1>1 DEF TablesTyped, Tables
<1>7. Joins(r, k) /\ Enters(r, k)
  BY <1>1, <1>9 DEF Joins, Enters, Past, IInv, Serial
<1>8. QED
  BY <1>1, <1>3, <1>4, <1>5, <1>6, <1>7 DEF Moves, Open, k

LEMMA InsertNextStep ==
    ASSUME IInv, NEW r \in Requests, InsertNext(r)
    PROVE  \E k : Moves(r, k)
<1> DEFINE w == NewRow(r)
           k == [req[r] EXCEPT !.fase = "inserido"]
<1>1. /\ req[r].op = "refresh" /\ req[r].fase = "travado"
      /\ req[r].linha \in Rows /\ req[r].nova \in Gen
      /\ \A h \in 1..(req[r].nova - 1) : sessao[<<req[r].linha[1], h>>] # "ausente"
  BY Before DEF InsertNext, Sound, Phases, Presents, Reserves
<1>2. w \in Rows /\ w = <<req[r].linha[1], req[r].nova>>
  BY <1>1 DEF NewRow, Rows
<1>3. /\ trava[w] = Nobody /\ sessao[w] = "ausente"
      /\ trava' = [trava EXCEPT ![w] = r]
      /\ Open(r, k) /\ UNCHANGED Tables
  BY DEF InsertNext
<1> HIDE DEF w
<1>4. k \in Request
  BY Before DEF Request, Phase
<1>5. trava'[w] = r
  BY Before, <1>2, <1>3 DEF TablesTyped
<1>6. Sound(r, k, familia', sessao', trava')
  <2>1. UNCHANGED <<familia, sessao>>
    BY <1>3 DEF Tables
  <2>2. Sound(r, k, familia, sessao, trava')
    BY Before, <1>1, <1>2, <1>3, <1>5 DEF Request, Sound, Phases, Presents, Reserves, Alone
  <2>3. QED
    BY <2>1, <2>2
<1>7. Effects(r)
  BY Before, <1>3, QuietEffects DEF TablesTyped
<1>8. TablesTyped'
  BY Before, <1>2, <1>3 DEF TablesTyped, Tables
<1>9. Joins(r, k) /\ Enters(r, k)
  BY Before, <1>1 DEF Request, Joins, Enters, Past, IInv, Serial
<1>10. QED
  BY <1>3, <1>4, <1>6, <1>7, <1>8, <1>9 DEF Moves, Open

-----------------------------------------------------------------------------
(* The commits.                                                              *)

LEMMA CommitLoginStep ==
    ASSUME IInv, NEW r \in Requests, CommitLogin(r)
    PROVE  \E k : Moves(r, k)
<1>1. PICK f \in Families :
         /\ req[r].op = "login"
         /\ familia[f].dono = Nobody
         /\ familia' = [familia EXCEPT ![f].dono = req[r].usuario]
         /\ sessao' = [sessao EXCEPT ![<<f, 1>>] = "viva"]
         /\ Close(r)
         /\ UNCHANGED ativo
  BY DEF CommitLogin
<1>2. req[r].usuario \in Users /\ req[r].fase = "papel"
  BY Before, <1>1 DEF Sound, Phases
<1>3. TablesTyped'
  <2>1. <<f, 1>> \in Rows
    BY DEF Rows, Gen
  <2>2. QED
    BY Before, CloseLocks, <1>1, <1>2, <2>1 DEF TablesTyped, State, Unrevoked
<1>4. /\ \A w \in Rows : sessao'[w] = sessao[w] \/ (w = <<f, 1>> /\ sessao'[w] = "viva")
      /\ \A w \in Rows : w[1] = f => sessao[w] = "ausente"
      /\ familia'[f].dono = req[r].usuario
      /\ \A g \in Families : g # f => familia'[g].dono = familia[g].dono
  BY Before, PresentOwned, <1>1 DEF TablesTyped
<1>5. Keeps(r)
  BY CloseLocks, <1>1, <1>4 DEF Keeps
<1>6. Adds(r)
  BY <1>1, <1>2, <1>4 DEF Adds
<1>7. Enlivens(r)
  BY <1>1, <1>2, <1>4 DEF Enlivens, Past, Unrevoked
<1>8. Opens(r)
  BY <1>2, <1>4 DEF Opens, Past
<1>9. QED
  BY <1>1, <1>3, <1>5, <1>6, <1>7, <1>8, IdleStep DEF Effects

LEMMA CommitRotateStep ==
    ASSUME IInv, NEW r \in Requests, CommitRotate(r)
    PROVE  \E k : Moves(r, k)
<1> DEFINE old == req[r].linha
           new == NewRow(r)
<1>1. /\ req[r].op = "refresh" /\ req[r].fase = "inserido"
      /\ old \in Rows /\ sessao[old] # "ausente"
      /\ req[r].usuario = familia[old[1]].dono
      /\ req[r].nova \in Gen /\ sessao[new] = "ausente" /\ trava[new] = r
      /\ \A h \in 1..(req[r].nova - 1) : sessao[<<old[1], h>>] # "ausente"
  BY Before DEF CommitRotate, Sound, Phases, Presents, Reserves, NewRow
<1>2. /\ new \in Rows /\ new[1] = old[1] /\ new[2] = req[r].nova
  BY <1>1 DEF NewRow, Rows
<1>3. /\ sessao' = [sessao EXCEPT ![old] = "rotacao", ![new] = "viva"]
      /\ Close(r) /\ UNCHANGED <<ativo, familia>>
  BY DEF CommitRotate
<1>4. familia[old[1]].dono # Nobody
  BY <1>1, PresentOwned
<1>5. Alone(req[r], sessao)
  BY Before DEF Sound
<1> HIDE DEF new
<1>6. TablesTyped'
  BY Before, CloseLocks, <1>1, <1>2, <1>3 DEF TablesTyped, State, Unrevoked, Motivo
<1>7. /\ sessao'[old] = "rotacao" /\ sessao'[new] = "viva"
      /\ \A w \in Rows : w # old /\ w # new => sessao'[w] = sessao[w]
  BY Before, <1>1, <1>2, <1>3 DEF TablesTyped
<1>8. Keeps(r)
  BY CloseLocks, <1>3, <1>7 DEF Keeps
<1>9. Adds(r)
  BY <1>1, <1>2, <1>3, <1>4, <1>7 DEF Adds
<1>10. Enlivens(r)
  <2> SUFFICES ASSUME NEW w \in Rows, sessao[w] \notin Unrevoked, sessao'[w] \in Unrevoked
               PROVE  /\ w[1] = old[1]
                      /\ w[1] \in SingleFlight =>
                            \A v \in Rows : v[1] = w[1] /\ sessao'[v] \in Unrevoked => v = w
    BY <1>1, <1>3 DEF Enlivens, Past
  <2>1. w = new
    BY <1>7 DEF Unrevoked
  <2>2. \A v \in Rows : sessao'[v] \in Unrevoked => v = new \/ (sessao[v] \in Unrevoked /\ v # old)
    BY <1>7 DEF Unrevoked
  <2>3. QED
    BY <1>1, <1>2, <1>5, <2>1, <2>2 DEF Alone
<1>11. Opens(r)
  BY <1>3 DEF Opens
<1>12. QED
  BY <1>3, <1>6, <1>8, <1>9, <1>10, <1>11, IdleStep DEF Effects

LEMMA ReasonIsMotivo == \A op \in RevokeOps : Reason(op) \in Motivo
  BY DEF RevokeOps, Reason, Motivo

LEMMA CommitRevokeStep ==
    ASSUME IInv, NEW r \in Requests, CommitRevoke(r)
    PROVE  \E k : Moves(r, k)
<1>1. req[r].op \in RevokeOps /\ Reason(req[r].op) \in Motivo
  BY Before, ReasonIsMotivo DEF CommitRevoke, Sound, Phases
<1>2. /\ sessao' = [w \in Rows |-> IF w \in req[r].alvos /\ Live(w) THEN Reason(req[r].op)
                                                                  ELSE sessao[w]]
      /\ familia' = [f \in Families |->
             IF FamilyWide(req[r].op) /\ req[r].linha[1] = f
             THEN [familia[f] EXCEPT !.revogada = TRUE] ELSE familia[f]]
      /\ ativo' \subseteq ativo
      /\ Close(r)
  BY DEF CommitRevoke
<1>3. Reason(req[r].op) \in State /\ Reason(req[r].op) \notin Unrevoked \union {"ausente"}
  BY <1>1 DEF State, Motivo, Unrevoked
<1> DEFINE marked(f) == [familia[f] EXCEPT !.revogada = TRUE]
<1>4. \A f \in Families : /\ marked(f) \in [dono : Users \union {Nobody}, revogada : BOOLEAN]
                          /\ marked(f).dono = familia[f].dono
  BY Before DEF TablesTyped
<1>5. /\ \A w \in Rows : sessao'[w] = sessao[w]
                         \/ (sessao[w] # "ausente" /\ sessao'[w] \notin Unrevoked \union {"ausente"})
      /\ \A f \in Families : familia'[f].dono = familia[f].dono
  <2>1. \A w \in Rows : Live(w) => sessao[w] # "ausente"
    BY DEF Live, Unrevoked
  <2> HIDE DEF marked
  <2>2. \A f \in Families : familia'[f] = familia[f] \/ familia'[f] = marked(f)
    BY <1>2 DEF marked
  <2>3. \A w \in Rows : sessao'[w] = sessao[w] \/ (Live(w) /\ sessao'[w] = Reason(req[r].op))
    BY <1>2
  <2>4. \A f \in Families : familia'[f].dono = familia[f].dono
    BY <1>4, <2>2
  <2>5. QED
    BY <1>3, <2>1, <2>3, <2>4
<1>6. TablesTyped'
  <2>1. sessao' \in [Rows -> State]
    BY Before, <1>2, <1>3 DEF TablesTyped
  <2>2. familia' \in [Families -> [dono : Users \union {Nobody}, revogada : BOOLEAN]]
    BY Before, <1>2, <1>4 DEF TablesTyped
  <2>3. QED
    BY Before, CloseLocks, <1>2, <2>1, <2>2 DEF TablesTyped
<1>7. Effects(r)
  BY CloseLocks, <1>2, <1>5 DEF Effects, Keeps, Adds, Enlivens, Opens
<1>8. QED
  BY <1>2, <1>6, <1>7, IdleStep

LEMMA BeginRevokeStep ==
    ASSUME IInv, NEW r \in Requests, NEW op \in RevokeOps, NEW u \in Users \union {Nobody},
           NEW w \in Rows \union {Nobody}, NEW alvos \in SUBSET Rows,
           BeginRevoke(r, op, u, w, alvos)
    PROVE  \E k : Moves(r, k)
<1> DEFINE k1 == [Idle EXCEPT !.op = op]
           k2 == [k1 EXCEPT !.fase = "varrendo"]
           k3 == [k2 EXCEPT !.usuario = u]
           k4 == [k3 EXCEPT !.linha = w]
           k  == [Idle EXCEPT !.op = op, !.fase = "varrendo", !.usuario = u,
                              !.linha = w, !.alvos = alvos]
<1>1. k \in Request
  <2>1. k1 \in Request
    BY IdleTyped, Rewritten DEF Op
  <2>2. k2 \in Request
    <3> HIDE DEF k1
    <3>1. QED
      BY <2>1, Rewritten DEF Phase
  <2>3. k3 \in Request
    <3> HIDE DEF k2
    <3>1. QED
      BY <2>2, Rewritten
  <2>4. k4 \in Request
    <3> HIDE DEF k3
    <3>1. QED
      BY <2>3, Rewritten
  <2>5. k = [k4 EXCEPT !.alvos = alvos]
    OBVIOUS
  <2> HIDE DEF k, k4
  <2>6. QED
    BY <2>4, <2>5, Rewritten
<1>2. k.op = op /\ k.fase = "varrendo"
  BY DEF Idle
<1>3. Open(r, k) /\ UNCHANGED <<Tables, trava>>
  BY DEF BeginRevoke
<1> HIDE DEF k
<1>4. Sound(r, k, familia, sessao, trava)
  BY <1>2 DEF Sound, Phases, Presents, Reserves, Alone, RevokeOps
<1>5. Joins(r, k) /\ Enters(r, k)
  BY <1>2 DEF Joins, Enters, Past, RevokeOps
<1>6. QED
  BY <1>1, <1>3, <1>4, <1>5, OpenStep

\* Every action of a transaction, in one place.
LEMMA ActionMoves ==
    ASSUME IInv, NEW r \in Requests, Arrive(r) \/ Step(r) \/ Abort(r)
    PROVE  \E k : Moves(r, k)
<1>1. CASE ReadLogin(r)
  BY <1>1, ReadLoginStep
<1>2. CASE ReadToken(r)
  BY <1>2, ReadTokenStep
<1>3. CASE BeginLogout(r)
  <2>1. PICK w \in Rows :
          BeginRevoke(r, "logout", Owner(w), w, {v \in RowsOfFamily(w[1]) : Live(v)})
    BY <1>3 DEF BeginLogout
  <2>2. Owner(w) \in Users \union {Nobody}
    BY Before DEF TablesTyped, Owner, Rows
  <2>3. {v \in RowsOfFamily(w[1]) : Live(v)} \in SUBSET Rows
    BY DEF RowsOfFamily
  <2>4. QED
    BY <2>1, <2>2, <2>3, BeginRevokeStep DEF RevokeOps
<1>4. CASE BeginReplay(r)
  <2>1. PICK w \in Rows :
          BeginRevoke(r, "replay", Owner(w), w, {v \in RowsOfFamily(w[1]) : Live(v)})
    BY <1>4 DEF BeginReplay
  <2>2. Owner(w) \in Users \union {Nobody}
    BY Before DEF TablesTyped, Owner, Rows
  <2>3. {v \in RowsOfFamily(w[1]) : Live(v)} \in SUBSET Rows
    BY DEF RowsOfFamily
  <2>4. QED
    BY <2>1, <2>2, <2>3, BeginRevokeStep DEF RevokeOps
<1>5. CASE BeginAccountRevoke(r)
  <2>1. PICK u \in ativo, op \in {"bloquear", "desativar", "redefinir"} :
          BeginRevoke(r, op, u, Nobody, {v \in RowsOfUser(u) : Live(v)})
    BY <1>5 DEF BeginAccountRevoke
  <2>2. u \in Users /\ op \in RevokeOps
    BY Before DEF TablesTyped, RevokeOps
  <2>3. {v \in RowsOfUser(u) : Live(v)} \in SUBSET Rows
    BY DEF RowsOfUser
  <2>4. QED
    BY <2>1, <2>2, <2>3, BeginRevokeStep
<1>6. CASE CommitLogin(r)
  BY <1>6, CommitLoginStep
<1>7. CASE CheckRole(r)
  BY <1>7, CheckRoleStep
<1>8. CASE LockToken(r)
  BY <1>8, LockTokenStep
<1>9. CASE InsertNext(r)
  BY <1>9, InsertNextStep
<1>10. CASE CommitRotate(r)
  BY <1>10, CommitRotateStep
<1>11. CASE CommitRevoke(r)
  BY <1>11, CommitRevokeStep
<1>12. CASE Refuse(r) \/ Abort(r)
  BY <1>12, RollBackStep DEF Refuse, Abort
<1>13. QED
  BY <1>1, <1>2, <1>3, <1>4, <1>5, <1>6, <1>7, <1>8, <1>9, <1>10, <1>11, <1>12 DEF Arrive, Step

-----------------------------------------------------------------------------
(* The steps that are no transaction's, and the invariant.                   *)

\* Time and an unblocking change neither which rows are committed nor which work.
LEMMA OutsideKeeps ==
    ASSUME IInv, TablesTyped', UNCHANGED <<familia, trava, req>>,
           \A w \in Rows : /\ sessao'[w] = "ausente" <=> sessao[w] = "ausente"
                           /\ sessao'[w] \in Unrevoked <=> sessao[w] \in Unrevoked
    PROVE  IInv'
<1>1. TypeOK'
  BY DEF IInv, TypeOK, TablesTyped
<1>2. GenerationsContiguous'
  <2>1. \A f \in Families, g \in Gen : <<f, g>> \in Rows /\ \A h \in 1..g : <<f, h>> \in Rows
    BY DEF Rows, Gen
  <2>2. QED
    BY <2>1 DEF IInv, GenerationsContiguous
<1>3. OneLiveToken'
  BY DEF IInv, OneLiveToken, Live
<1>4. Serial'
  BY DEF IInv, Serial
<1>5. ASSUME NEW r \in Requests PROVE Sound(r, req'[r], familia', sessao', trava')
  <2>1. Sound(r, req[r], familia, sessao, trava) /\ req'[r] = req[r]
    BY Before
  <2>2. Presents(req[r], familia, sessao') /\ Alone(req[r], sessao')
    BY <2>1 DEF Sound, Presents, Alone
  <2>3. Reserves(r, req[r], sessao', trava)
    <3>1. CASE req[r].fase \notin {"travado", "inserido"}
      BY <3>1 DEF Reserves
    <3>2. CASE req[r].fase \in {"travado", "inserido"}
      <4>1. req[r].linha[1] \in Families /\ req[r].nova \in Gen
        BY <2>1, <3>2, PresentOwned DEF Sound, Phases, Presents, Reserves
      <4>2. \A h \in 1..req[r].nova : <<req[r].linha[1], h>> \in Rows
        BY <4>1 DEF Rows, Gen
      <4>3. QED
        BY <2>1, <4>1, <4>2 DEF Sound, Reserves, Gen
    <3>3. QED
      BY <3>1, <3>2
  <2>4. QED
    BY <2>1, <2>2, <2>3 DEF Sound
<1>6. QED
  BY <1>1, <1>2, <1>3, <1>4, <1>5 DEF IInv

LEMMA ExpireKeeps ==
    ASSUME IInv, NEW w \in Rows, Expire(w)
    PROVE  IInv'
<1>1. IInv /\ TypeOK
  BY DEF IInv
<1>2. TablesTyped'
  BY <1>1 DEF TypeOK, TablesTyped, Expire, State, Unrevoked
<1>3. \A v \in Rows : /\ sessao'[v] = "ausente" <=> sessao[v] = "ausente"
                      /\ sessao'[v] \in Unrevoked <=> sessao[v] \in Unrevoked
  BY <1>1 DEF TypeOK, Expire, Unrevoked
<1>4. QED
  BY <1>2, <1>3, OutsideKeeps DEF Expire

LEMMA UnblockKeeps ==
    ASSUME IInv, NEW u \in Users, Unblock(u)
    PROVE  IInv'
<1>1. TablesTyped'
  BY DEF IInv, TypeOK, TablesTyped, Unblock
<1>2. QED
  BY <1>1, OutsideKeeps DEF Unblock

LEMMA InitIInv == Init => IInv
<1> SUFFICES ASSUME Init PROVE IInv
  OBVIOUS
<1>1. TypeOK
  BY IdleTyped DEF Init, TypeOK, NoFamily, State
<1>2. \A r \in Requests : req[r].op = "nada" /\ req[r].fase = "livre"
  BY DEF Init, Idle
<1>3. \A r \in Requests : Sound(r, req[r], familia, sessao, trava)
  BY <1>2 DEF Sound, Phases, Presents, Reserves, Alone
<1>4. \A w \in Rows : sessao[w] = "ausente"
  BY DEF Init
<1>5. GenerationsContiguous /\ OneLiveToken
  BY <1>4 DEF GenerationsContiguous, OneLiveToken, Live, Unrevoked, Rows
<1>6. QED
  BY <1>1, <1>2, <1>3, <1>5 DEF IInv, Serial

LEMMA StutterIInv == IInv /\ UNCHANGED vars => IInv'
  BY DEF vars, IInv, TypeOK, Serial, GenerationsContiguous, OneLiveToken, Live

LEMMA NextKeeps == IInv /\ [Next]_vars => IInv'
<1> SUFFICES ASSUME IInv, [Next]_vars PROVE IInv'
  OBVIOUS
<1>1. CASE \E r \in Requests : Arrive(r) \/ Step(r) \/ Abort(r)
  BY <1>1, ActionMoves, MovesKeeps
<1>2. CASE \E u \in Users : Unblock(u)
  BY <1>2, UnblockKeeps
<1>3. CASE \E w \in Rows : Expire(w)
  BY <1>3, ExpireKeeps
<1>4. CASE UNCHANGED vars
  BY <1>4, StutterIInv
<1>5. QED
  BY <1>1, <1>2, <1>3, <1>4 DEF Next

THEOREM Always == Spec => []IInv
  BY InitIInv, NextKeeps, PTL DEF Spec

-----------------------------------------------------------------------------
(* The theorems.                                                             *)

\* Every variable keeps its type, the transactions' records included.
THEOREM TypeCorrect == Spec => []TypeOK
<1>1. IInv => TypeOK
  BY DEF IInv
<1>2. QED
  BY <1>1, Always, PTL

\* The generations of a family have no gap, in any number of families, rotations
\* and rollbacks (next_generation and uq_sessao_geracao).
THEOREM GapFree == Spec => []GenerationsContiguous
<1>1. IInv => GenerationsContiguous
  BY DEF IInv
<1>2. QED
  BY <1>1, Always, PTL

\* A browser that refreshes one at a time never has two tokens of a family that
\* work (rotate, and withLock of lib/session.ts).
THEOREM SingleToken == Spec => []OneLiveToken
<1>1. IInv => OneLiveToken
  BY DEF IInv
<1>2. QED
  BY <1>1, Always, PTL

\* What a transaction's step may do to somebody who is out.
LEMMA MovesLeaveOut ==
    ASSUME IInv, NEW r \in Requests, NEW k, Moves(r, k),
           NEW u \in Users, Out(u), u \notin ativo'
    PROVE  Out(u)'
<1>1. /\ req'[r] = k
      /\ \A s \in Requests \ {r} : req'[s] = req[s]
  BY Before DEF Moves
<1>2. ASSUME NEW s \in Requests, req'[s].usuario = u, req'[s].fase \in Past
      PROVE  FALSE
  <2>1. CASE s = r
    BY <1>1, <1>2, <2>1 DEF Moves, Enters, Out, Past
  <2>2. CASE s # r
    BY <1>1, <1>2, <2>2 DEF Out, Past
  <2>3. QED
    BY <2>1, <2>2
<1>3. ASSUME NEW w \in Rows, familia'[w[1]].dono = u, sessao'[w] \in Unrevoked
      PROVE  FALSE
  <2>1. ~(req[r].usuario = u /\ req[r].fase \in Past)
    BY DEF Out, Past
  <2>2. w[1] \in Families
    BY DEF Rows
  <2>3. familia[w[1]].dono = u
    BY <1>3, <2>1, <2>2 DEF Moves, Effects, Opens
  <2>4. sessao[w] \in Unrevoked
    BY <1>3, <2>1 DEF Moves, Effects, Enlivens
  <2>5. QED
    BY <2>3, <2>4 DEF Out, RowsOfUser, Owner, Live
<1>4. QED
  BY <1>2, <1>3 DEF Out, RowsOfUser, Owner, Live, Past

\* A blocked account that is out stays out until it is unblocked, however many
\* transactions are open (_RoleOfRecord on every refresh, AC-0001-08).
THEOREM StaysOut == Spec => BlockedStaysOut
<1>1. ASSUME IInv, [Next]_vars
      PROVE  [\A u \in Users : Out(u) /\ u \notin ativo' => Out(u)']_vars
  <2> SUFFICES ASSUME Next, NEW u \in Users, Out(u), u \notin ativo' PROVE Out(u)'
    BY <1>1
  <2>1. CASE \E r \in Requests : Arrive(r) \/ Step(r) \/ Abort(r)
    BY <1>1, <2>1, ActionMoves, MovesLeaveOut
  <2>2. CASE \E v \in Users : Unblock(v)
    <3>1. UNCHANGED <<familia, sessao, trava, req>>
      BY <2>2 DEF Unblock
    <3>2. QED
      BY <3>1 DEF Out, RowsOfUser, Owner, Live
  <2>3. CASE \E w \in Rows : Expire(w)
    <3>1. /\ UNCHANGED <<familia, trava, req>>
          /\ \A v \in Rows : sessao'[v] \in Unrevoked => sessao[v] \in Unrevoked
      BY <1>1, <2>3 DEF Expire, Unrevoked, IInv, TypeOK
    <3>2. QED
      BY <3>1 DEF Out, RowsOfUser, Owner, Live
  <2>4. QED
    BY <2>1, <2>2, <2>3 DEF Next
<1>2. QED
  BY <1>1, Always, PTL DEF Spec, BlockedStaysOut

-----------------------------------------------------------------------------
(* The refinement of RefreshFamily: a commit is one of its steps, everything *)
(* before a commit, a rollback and the clock are stutters.                   *)

\* What is issued and what works, row by row.
LEMMA SameTokens ==
    ASSUME UNCHANGED familia, \A w \in Rows : sessao'[w] = sessao[w]
    PROVE  UNCHANGED <<Owners, Issued, Working>>
  BY DEF Owners, Issued, Working, Live

LEMMA CommitLoginOpens ==
    ASSUME IInv, NEW r \in Requests, CommitLogin(r)
    PROVE  \E f \in Families : Family!Open(f)
<1>1. PICK f \in Families :
         /\ req[r].op = "login"
         /\ familia[f].dono = Nobody
         /\ familia' = [familia EXCEPT ![f].dono = req[r].usuario]
         /\ sessao' = [sessao EXCEPT ![<<f, 1>>] = "viva"]
  BY DEF CommitLogin
<1>2. req[r].usuario \in Users
  BY Before, <1>1 DEF Sound, Phases
<1>3. <<f, 1>> \in Rows /\ \A g \in Gen : <<f, g>> \in Rows
  BY DEF Rows, Gen
<1>4. \A w \in Rows : sessao'[w] = IF w = <<f, 1>> THEN "viva" ELSE sessao[w]
  BY Before, <1>1 DEF TablesTyped
<1>5. \A g \in Gen : <<f, g>> \notin Issued
  BY <1>1, <1>3, PresentOwned DEF Issued
<1>6. Issued' = Issued \union {<<f, 1>>}
  BY <1>3, <1>4 DEF Issued
<1>7. Working' = Working \union {<<f, 1>>}
  BY <1>3, <1>4 DEF Working, Live, Unrevoked
<1>8. Owners' = [Owners EXCEPT ![f] = req[r].usuario]
  BY Before, <1>1 DEF Owners, TablesTyped
<1>9. Owners[f] = Nobody
  BY <1>1 DEF Owners
<1>10. Family!Open(f)
  BY <1>2, <1>5, <1>6, <1>7, <1>8, <1>9 DEF Family!Open, Family!Issue, Family!Gen, Gen
<1>11. QED
  BY <1>10

\* The rotation's generation is the next one when it commits: every earlier one is
\* there, and a later one would have it below it.
LEMMA CommitRotateTrades ==
    ASSUME IInv, NEW r \in Requests, CommitRotate(r)
    PROVE  \E f \in Families : Family!Rotate(f)
<1> DEFINE old == req[r].linha
           f == old[1]
           n == req[r].nova
<1>1. /\ old \in Rows /\ sessao[old] # "ausente"
      /\ n \in Gen /\ sessao[<<f, n>>] = "ausente"
      /\ \A h \in 1..(n - 1) : sessao[<<f, h>>] # "ausente"
  BY Before DEF CommitRotate, Sound, Phases, Presents, Reserves
<1>2. sessao' = [sessao EXCEPT ![old] = "rotacao", ![<<f, n>>] = "viva"] /\ UNCHANGED familia
  BY DEF CommitRotate, NewRow
<1>3. f \in Families /\ old[2] \in Gen /\ old = <<f, old[2]>>
      /\ \A g \in Gen : <<f, g>> \in Rows
  BY <1>1 DEF Rows
<1> HIDE DEF old, f, n
<1>4. \A w \in Rows : sessao'[w] = IF w = <<f, n>> THEN "viva"
                                   ELSE IF w = old THEN "rotacao" ELSE sessao[w]
  BY Before, <1>1, <1>2, <1>3 DEF TablesTyped
<1>5. ASSUME NEW h \in Gen
      PROVE  <<f, h>> \in Issued <=> h < n
  <2>1. CASE h < n
    BY <1>1, <1>3, <2>1 DEF Issued, Gen
  <2>2. CASE ~(h < n)
    <3>1. n \in 1..h
      BY <1>1, <2>2 DEF Gen
    <3>2. sessao[<<f, h>>] = "ausente"
      BY <1>1, <1>3, <3>1 DEF IInv, GenerationsContiguous
    <3>3. QED
      BY <2>2, <3>2 DEF Issued
  <2>3. QED
    BY <2>1, <2>2
<1>6. Issued' = Issued \union {<<f, n>>}
  BY <1>1, <1>3, <1>4 DEF Issued
<1>7. Working' = (Working \ {<<f, old[2]>>}) \union {<<f, n>>}
  BY <1>1, <1>3, <1>4 DEF Working, Live, Unrevoked
<1>8. <<f, old[2]>> \in Issued /\ UNCHANGED Owners
  BY <1>1, <1>2, <1>3 DEF Issued, Owners
<1>9. Family!Rotate(f)
  BY <1>1, <1>3, <1>5, <1>6, <1>7, <1>8 DEF Family!Rotate, Family!Issue, Family!Gen, Gen
<1>10. QED
  BY <1>3, <1>9

LEMMA CommitRevokeRevokes ==
    ASSUME IInv, NEW r \in Requests, CommitRevoke(r)
    PROVE  Family!Revoke
<1>1. req[r].op \in RevokeOps /\ Reason(req[r].op) \in Motivo
  BY Before, ReasonIsMotivo DEF CommitRevoke, Sound, Phases
<1>2. \A w \in Rows : sessao'[w] = sessao[w] \/ (Live(w) /\ sessao'[w] \in Motivo)
  BY <1>1 DEF CommitRevoke
<1>3. \A f \in Families : familia'[f].dono = familia[f].dono
  <2>1. \A f \in Families : \/ familia'[f] = familia[f]
                            \/ familia'[f] = [familia[f] EXCEPT !.revogada = TRUE]
    BY DEF CommitRevoke
  <2>2. QED
    BY Before, <2>1 DEF TablesTyped
<1>4. Working' \subseteq Working
  BY <1>2 DEF Working, Live, Unrevoked, Motivo
<1>5. Issued' = Issued
  BY <1>2 DEF Issued, Live, Unrevoked, Motivo
<1>6. Owners' = Owners
  BY <1>3 DEF Owners
<1>7. QED
  BY <1>4, <1>5, <1>6 DEF Family!Revoke

LEMMA ExpireIsInvisible ==
    ASSUME IInv, NEW w \in Rows, Expire(w)
    PROVE  UNCHANGED <<Owners, Issued, Working>>
<1>1. \A v \in Rows : /\ (sessao[v] = "ausente") <=> (sessao'[v] = "ausente")
                      /\ (sessao[v] \in Unrevoked) <=> (sessao'[v] \in Unrevoked)
  BY Before DEF Expire, IInv, TypeOK, Unrevoked
<1>2. QED
  BY <1>1 DEF Expire, Owners, Issued, Working, Live

\* A commit is the step of RefreshFamily it is named for; no other step of a
\* transaction writes the tables.
LEMMA RequestStepRefines ==
    ASSUME IInv, NEW r \in Requests, Arrive(r) \/ Step(r) \/ Abort(r)
    PROVE  Family!Next \/ UNCHANGED <<Owners, Issued, Working>>
<1>1. CASE CommitLogin(r)
  BY <1>1, CommitLoginOpens DEF Family!Next
<1>2. CASE CommitRotate(r)
  BY <1>2, CommitRotateTrades DEF Family!Next
<1>3. CASE CommitRevoke(r)
  BY <1>3, CommitRevokeRevokes DEF Family!Next
<1>4. CASE UNCHANGED Tables
  BY <1>4, SameTokens DEF Tables
<1>5. Arrive(r) => UNCHANGED Tables
  BY DEF Arrive, ReadLogin, ReadToken, BeginLogout, BeginReplay, BeginAccountRevoke,
         BeginRevoke, Tables
<1>6. \/ CommitLogin(r) \/ CommitRotate(r) \/ CommitRevoke(r)
      \/ Arrive(r) \/ UNCHANGED Tables
  BY DEF Step, CheckRole, LockToken, InsertNext, Refuse, Abort, Tables
<1>7. QED
  BY <1>1, <1>2, <1>3, <1>4, <1>5, <1>6

LEMMA StepRefines ==
    ASSUME IInv, [Next]_vars
    PROVE  Family!Next \/ UNCHANGED <<Owners, Issued, Working>>
<1>1. CASE \E r \in Requests : Arrive(r) \/ Step(r) \/ Abort(r)
  BY <1>1, RequestStepRefines
<1>2. CASE \E w \in Rows : Expire(w)
  BY <1>2, ExpireIsInvisible
<1>3. CASE (\E u \in Users : Unblock(u)) \/ UNCHANGED vars
  BY <1>3, SameTokens DEF Unblock, vars
<1>4. QED
  BY <1>1, <1>2, <1>3 DEF Next

\* The session tables implement the family of tokens, whatever overlaps
\* (open_session, rotate and revoke_family of sessions.py): one owner for good,
\* generations without a gap, nothing revoked works again.
THEOREM Implements == Spec => ImplementsFamilies
<1>1. Init => Family!Init
  <2> SUFFICES ASSUME Init PROVE Family!Init
    OBVIOUS
  <2>1. Owners = [f \in Families |-> Nobody]
    BY DEF Init, Owners, NoFamily
  <2>2. Issued = {} /\ Working = {}
    BY DEF Init, Issued, Working, Live, Unrevoked
  <2>3. QED
    BY <2>1, <2>2 DEF Family!Init
<1>2. IInv /\ [Next]_vars => [Family!Next]_<<Owners, Issued, Working>>
  BY StepRefines
<1>3. QED
  BY <1>1, <1>2, Always, PTL DEF Spec, ImplementsFamilies, Family!Spec

\* A token that was rotated, logged out, replayed or revoked with its account never
\* works again (DB10), not even when a rotation of it commits after that.
THEOREM RevokedForGood ==
    Spec => [][Issued \ Working \subseteq (Issued \ Working)']_<<Owners, Issued, Working>>
<1>1. ASSUME IInv, [Next]_vars
      PROVE  [Issued \ Working \subseteq (Issued \ Working)']_<<Owners, Issued, Working>>
  <2>1. CASE \E f \in Families : Family!Open(f)
    BY <2>1 DEF Family!Open, Family!Issue, Family!Gen, Gen
  <2>2. CASE \E f \in Families : Family!Rotate(f)
    BY <2>2 DEF Family!Rotate, Family!Issue, Family!Gen
  <2>3. CASE Family!Revoke
    BY <2>3 DEF Family!Revoke
  <2>4. CASE UNCHANGED <<Owners, Issued, Working>>
    BY <2>4
  <2>5. Family!Next \/ UNCHANGED <<Owners, Issued, Working>>
    BY <1>1, StepRefines
  <2>6. QED
    BY <2>1, <2>2, <2>3, <2>4, <2>5 DEF Family!Next
<1>2. QED
  BY <1>1, Always, PTL DEF Spec
=============================================================================

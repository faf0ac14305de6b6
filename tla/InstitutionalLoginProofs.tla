---------------------- MODULE InstitutionalLoginProofs ----------------------
(***************************************************************************)
(* The safety theorems about InstitutionalLogin, for any number of         *)
(* accounts, subjects, flows and callbacks: what is typed, then what       *)
(* binding and anonymisation, the state cookie and the audit trail         *)
(* guarantee.  The binding rests on the locks of the flush: from there to  *)
(* the commit nobody else touches the row, and no other open transaction   *)
(* enters the same subject, so what the constraints saw is still true.     *)
(***************************************************************************)
EXTENDS InstitutionalLogin, TLAPS

USE NobodyAssumption

-----------------------------------------------------------------------------
(* Typing: what each phase of a callback has filled in.                      *)

Named(c) == chamada[c].fase \in {"verificada", "procurando", "achada", "escrita", "respondida"}

WithAccount(c) == chamada[c].fase \in {"achada", "escrita", "respondida"}

Filled(c) ==
    /\ chamada[c].fase = "trocando" =>
          /\ chamada[c].fluxo \in Flows
          /\ chamada[c].cookie = chamada[c].fluxo
          /\ fluxo[chamada[c].fluxo].sujeito \in Subjects
    /\ Named(c) => chamada[c].sujeito \in Subjects
    /\ WithAccount(c) =>
          chamada[c].conta \in Users /\ usuario[chamada[c].conta].status # "ausente"
    /\ chamada[c].fase \in {"trocando", "verificada", "procurando"} => chamada[c].conta = Nobody

TInv == TypeOK /\ OwnCodeOnly /\ \A c \in Calls : Filled(c)

\* A step of one callback that leaves the tables alone has only that callback
\* to answer for.
LEMMA OneCall ==
    ASSUME TInv, NEW c \in Calls, NEW k \in Chamada,
           chamada' = [chamada EXCEPT ![c] = k], UNCHANGED tables, UNCHANGED diretorio,
           estado' \in [Browsers -> Flows \union {Nobody}],
           fluxo' \in [Flows -> Fluxo], OwnCodeOnly',
           \A f \in Flows : fluxo'[f].sujeito = fluxo[f].sujeito,
           trilha' \in [Calls -> {"nada", "auth.login", "auth.oidc_recusada"}],
           Filled(c)'
    PROVE  TInv'
<1>1. TypeOK'
  BY DEF TInv, TypeOK, tables
<1>2. ASSUME NEW d \in Calls PROVE Filled(d)'
  <2>1. CASE d = c
    BY <2>1
  <2>2. CASE d # c
    <3>1. chamada'[d] = chamada[d]
      BY <2>2 DEF TInv, TypeOK
    <3>2. QED
      BY <3>1 DEF TInv, TypeOK, Filled, Named, WithAccount, tables
  <2>3. QED
    BY <2>1, <2>2
<1>3. QED
  BY <1>1, <1>2 DEF TInv

\* A step outside the callbacks keeps what they have filled in, as long as no
\* row goes away and an issued code keeps its subject.
LEMMA NoCall ==
    ASSUME TInv, TypeOK', OwnCodeOnly', UNCHANGED chamada,
           \A u \in Users : usuario[u].status # "ausente" => usuario'[u].status # "ausente",
           \A f \in Flows : fluxo[f].sujeito \in Subjects =>
                               fluxo'[f].sujeito = fluxo[f].sujeito
    PROVE  TInv'
<1>1. ASSUME NEW c \in Calls PROVE Filled(c)'
  <2>1. Filled(c) /\ chamada'[c] = chamada[c]
    BY DEF TInv
  <2>2. QED
    BY <2>1 DEF Filled, Named, WithAccount
<1>2. QED
  BY <1>1 DEF TInv

LEMMA InitType == Init => TInv
  BY DEF Init, TInv, TypeOK, OwnCodeOnly, Filled, Named, WithAccount, Row, NoRow,
         Baixa, NoBaixa, Fluxo, NoFluxo, Chamada, NoChamada, Fase, Resposta

\* A write of one account's row that keeps the account.
LEMMA OneRow ==
    ASSUME TInv, NEW u \in Users, NEW row \in Row, row.status # "ausente",
           usuario' = [usuario EXCEPT ![u] = row],
           UNCHANGED <<baixa, outside, estado, chamada, trilha>>
    PROVE  TInv'
<1>1. TypeOK' /\ OwnCodeOnly'
  BY DEF TInv, TypeOK, OwnCodeOnly, outside
<1>2. QED
  BY <1>1, NoCall DEF TInv, TypeOK, outside

LEMMA MembersType ==
    ASSUME TInv,
           \/ \E u \in Users, p \in People : Invite(u, p)
           \/ \E u \in Users : Enable(u) \/ Block(u) \/ ReadDeactivate(u)
    PROVE  TInv'
<1>1. ASSUME NEW u \in Users, NEW p \in People, Invite(u, p) PROVE TInv'
  <2> DEFINE row == [usuario[u] EXCEPT !.status = "inativo", !.email = p]
  <2>1. usuario[u] \in Row
    BY DEF TInv, TypeOK
  <2>2. row \in Row /\ row.status # "ausente"
    BY <2>1 DEF Row
  <2>3. usuario' = [usuario EXCEPT ![u] = row] /\ UNCHANGED <<baixa, outside, estado, chamada, trilha>>
    BY <1>1 DEF Invite
  <2>4. QED
    BY <2>2, <2>3, OneRow
<1>2. ASSUME NEW u \in Users, Enable(u) PROVE TInv'
  <2> DEFINE row == [usuario[u] EXCEPT !.status = "ativo"]
  <2>1. usuario[u] \in Row
    BY DEF TInv, TypeOK
  <2>2. row \in Row /\ row.status # "ausente"
    BY <2>1 DEF Row
  <2>3. usuario' = [usuario EXCEPT ![u] = row] /\ UNCHANGED <<baixa, outside, estado, chamada, trilha>>
    BY <1>2 DEF Enable
  <2>4. QED
    BY <2>2, <2>3, OneRow
<1>3. ASSUME NEW u \in Users, Block(u) PROVE TInv'
  <2> DEFINE row == [usuario[u] EXCEPT !.status = "inativo"]
  <2>1. usuario[u] \in Row
    BY DEF TInv, TypeOK
  <2>2. row \in Row /\ row.status # "ausente"
    BY <2>1 DEF Row
  <2>3. usuario' = [usuario EXCEPT ![u] = row] /\ UNCHANGED <<baixa, outside, estado, chamada, trilha>>
    BY <1>3 DEF Block
  <2>4. QED
    BY <2>2, <2>3, OneRow
<1>4. ASSUME NEW u \in Users, ReadDeactivate(u) PROVE TInv'
  <2>1. TypeOK' /\ OwnCodeOnly'
    BY <1>4 DEF ReadDeactivate, TInv, TypeOK, OwnCodeOnly, Baixa, outside
  <2>2. QED
    BY <1>4, <2>1, NoCall DEF ReadDeactivate, outside
<1>5. QED
  BY <1>1, <1>2, <1>3, <1>4

\* A step of one flow that presents nothing and keeps an issued code's subject.
LEMMA OneFlow ==
    ASSUME TInv, NEW f \in Flows, NEW flow \in Fluxo,
           flow.apresentado = fluxo[f].apresentado,
           fluxo[f].sujeito \in Subjects => flow.sujeito = fluxo[f].sujeito,
           fluxo' = [fluxo EXCEPT ![f] = flow],
           estado' \in [Browsers -> Flows \union {Nobody}],
           UNCHANGED <<tables, diretorio, chamada, trilha>>
    PROVE  TInv'
<1>1. TypeOK'
  BY DEF TInv, TypeOK, tables
<1>2. OwnCodeOnly'
  BY DEF TInv, TypeOK, OwnCodeOnly
<1>3. QED
  BY <1>1, <1>2, NoCall DEF TInv, TypeOK, tables

LEMMA OutsideType ==
    ASSUME TInv,
           \/ \E s \in Subjects, p \in People \union {Nobody} : Rename(s, p)
           \/ \E b \in Browsers : Expire(b)
           \/ \E f \in Flows, s \in Subjects : IssueCode(f, s)
           \/ \E b \in Browsers, f \in Flows : Authorize(b, f)
    PROVE  TInv'
<1>1. ASSUME NEW s \in Subjects, NEW p \in People \union {Nobody}, Rename(s, p) PROVE TInv'
  BY <1>1, NoCall DEF Rename, TInv, TypeOK, OwnCodeOnly, tables
<1>2. ASSUME NEW b \in Browsers, Expire(b) PROVE TInv'
  BY <1>2, NoCall DEF Expire, TInv, TypeOK, OwnCodeOnly, tables, outside
<1>3. ASSUME NEW f \in Flows, NEW s \in Subjects, IssueCode(f, s) PROVE TInv'
  <2> DEFINE flow == [fluxo[f] EXCEPT !.sujeito = s]
  <2>1. fluxo[f] \in Fluxo /\ estado \in [Browsers -> Flows \union {Nobody}]
    BY DEF TInv, TypeOK
  <2>2. flow \in Fluxo /\ flow.apresentado = fluxo[f].apresentado
    BY <2>1 DEF Fluxo
  <2>3. fluxo[f].sujeito \notin Subjects /\ fluxo' = [fluxo EXCEPT ![f] = flow]
    BY <1>3 DEF IssueCode
  <2>4. QED
    BY <1>3, <2>1, <2>2, <2>3, OneFlow DEF IssueCode
<1>4. ASSUME NEW b \in Browsers, NEW f \in Flows, Authorize(b, f) PROVE TInv'
  <2> DEFINE flow == [fluxo[f] EXCEPT !.iniciado = TRUE]
  <2>1. fluxo[f] \in Fluxo
    BY DEF TInv, TypeOK
  <2>2. /\ flow \in Fluxo /\ flow.apresentado = fluxo[f].apresentado
        /\ flow.sujeito = fluxo[f].sujeito
    BY <2>1 DEF Fluxo
  <2>3. estado' \in [Browsers -> Flows \union {Nobody}] /\ fluxo' = [fluxo EXCEPT ![f] = flow]
    BY <1>4 DEF Authorize, TInv, TypeOK
  <2>4. QED
    BY <1>4, <2>2, <2>3, OneFlow DEF Authorize
<1>5. QED
  BY <1>1, <1>2, <1>3, <1>4

-----------------------------------------------------------------------------
(* The steps of a callback: what the request looks like after each.          *)

LEMMA CallTyped ==
    ASSUME TInv, NEW c \in Calls
    PROVE  /\ chamada[c] \in Chamada /\ Filled(c)
           /\ \A k \in Chamada : [chamada EXCEPT ![c] = k][c] = k
  BY DEF TInv, TypeOK

LEMMA RefusedTyped ==
    ASSUME TInv, NEW c \in Calls, NEW r \in {"recusa", "sem_conta"}
    PROVE  Refused(c, r) \in Chamada /\ Refused(c, r).fase = "recusada"
<1>1. chamada[c] \in Chamada
  BY CallTyped
<1>2. QED
  BY <1>1 DEF Refused, Chamada, Fase, Resposta

\* A refused callback keeps typing: nothing is asked of that phase.
LEMMA RefusalType ==
    ASSUME TInv, NEW c \in Calls, NEW r \in {"recusa", "sem_conta"},
           chamada' = [chamada EXCEPT ![c] = Refused(c, r)],
           UNCHANGED <<tables, diretorio, estado, trilha>>,
           fluxo' \in [Flows -> Fluxo], OwnCodeOnly',
           \A f \in Flows : fluxo'[f].sujeito = fluxo[f].sujeito
    PROVE  TInv'
<1>1. Refused(c, r) \in Chamada /\ Refused(c, r).fase = "recusada"
  BY RefusedTyped
<1>2. chamada'[c] = Refused(c, r)
  BY <1>1, CallTyped
<1>3. Filled(c)'
  BY <1>1, <1>2 DEF Filled, Named, WithAccount
<1>4. estado' \in [Browsers -> Flows \union {Nobody}]
      /\ trilha' \in [Calls -> {"nada", "auth.login", "auth.oidc_recusada"}]
  BY DEF TInv, TypeOK
<1>5. QED
  BY <1>1, <1>3, <1>4, OneCall

\* A callback presents a code with the verifier of that code's flow.
LEMMA PresentType ==
    ASSUME TInv, NEW c \in Calls, chamada[c].fase = "trocando", Present(c) \/ UNCHANGED fluxo
    PROVE  /\ fluxo' \in [Flows -> Fluxo] /\ OwnCodeOnly'
           /\ \A f \in Flows : fluxo'[f].sujeito = fluxo[f].sujeito
<1>1. CASE UNCHANGED fluxo
  BY <1>1 DEF TInv, TypeOK, OwnCodeOnly
<1>2. CASE Present(c)
  <2> DEFINE g == chamada[c].fluxo
             flow == [fluxo[g] EXCEPT !.apresentado = chamada[c].cookie]
  <2>1. g \in Flows /\ chamada[c].cookie = g
    BY CallTyped DEF Filled
  <2>2. fluxo \in [Flows -> Fluxo] /\ fluxo[g] \in Fluxo
    BY <2>1 DEF TInv, TypeOK
  <2>3. flow \in Fluxo /\ flow.apresentado = g /\ flow.sujeito = fluxo[g].sujeito
    BY <2>1, <2>2 DEF Fluxo
  <2>4. fluxo' = [fluxo EXCEPT ![g] = flow]
    BY <1>2 DEF Present
  <2> HIDE DEF g, flow
  <2>5. fluxo' \in [Flows -> Fluxo]
    BY <2>1, <2>2, <2>3, <2>4
  <2>6. ASSUME NEW f \in Flows
        PROVE  fluxo'[f].sujeito = fluxo[f].sujeito /\ fluxo'[f].apresentado \in {Nobody, f}
    BY <2>1, <2>2, <2>3, <2>4 DEF TInv, OwnCodeOnly
  <2>7. QED
    BY <2>5, <2>6 DEF OwnCodeOnly
<1>3. QED
  BY <1>1, <1>2

LEMMA ReceiveType ==
    ASSUME TInv, NEW c \in Calls, NEW b \in Browsers, NEW f \in Flows, Receive(c, b, f)
    PROVE  TInv'
<1>1. PICK k \in Chamada :
         /\ chamada' = [chamada EXCEPT ![c] = k]
         /\ \/ k.fase = "trocando" /\ k.fluxo = f /\ k.cookie = f /\ k.conta = Nobody
            \/ k.fase = "recusada"
  <2>1. CASE StateMatches(b, f)
    <3> DEFINE k == [NoChamada EXCEPT !.fase = "trocando", !.navegador = b, !.fluxo = f,
                                      !.cookie = estado[b]]
    <3>1. estado[b] = f
      BY <2>1 DEF StateMatches
    <3>2. /\ k \in Chamada /\ k.fase = "trocando"
          /\ k.fluxo = f /\ k.cookie = f /\ k.conta = Nobody
      BY <3>1 DEF NoChamada, Chamada, Fase, Resposta
    <3>3. QED
      BY <2>1, <3>2 DEF Receive
  <2>2. CASE ~StateMatches(b, f)
    <3> DEFINE k == [NoChamada EXCEPT !.fase = "recusada", !.resposta = "recusa"]
    <3>1. k \in Chamada /\ k.fase = "recusada"
      BY DEF NoChamada, Chamada, Fase, Resposta
    <3>2. QED
      BY <2>2, <3>1 DEF Receive
  <2>3. QED
    BY <2>1, <2>2
<1>2. chamada'[c] = k
  BY <1>1, CallTyped
<1>3. fluxo[f].sujeito \in Subjects /\ UNCHANGED fluxo
  BY DEF Receive, TInv, TypeOK, Fluxo, outside
<1>4. Filled(c)'
  BY <1>1, <1>2, <1>3 DEF Filled, Named, WithAccount
<1>5. /\ UNCHANGED <<tables, diretorio, estado>>
      /\ estado' \in [Browsers -> Flows \union {Nobody}]
      /\ fluxo' \in [Flows -> Fluxo] /\ OwnCodeOnly'
      /\ trilha' \in [Calls -> {"nada", "auth.login", "auth.oidc_recusada"}]
  BY DEF Receive, TInv, TypeOK, OwnCodeOnly, outside
<1>6. QED
  BY <1>1, <1>3, <1>4, <1>5, OneCall

LEMMA ExchangeType ==
    ASSUME TInv, NEW c \in Calls, Exchange(c) \/ ProviderFails(c)
    PROVE  TInv'
<1>1. /\ chamada[c].fase = "trocando" /\ (Present(c) \/ UNCHANGED fluxo)
      /\ UNCHANGED <<tables, diretorio, estado, trilha>>
  BY DEF Exchange, ProviderFails
<1>2. /\ fluxo' \in [Flows -> Fluxo] /\ OwnCodeOnly'
      /\ \A f \in Flows : fluxo'[f].sujeito = fluxo[f].sujeito
  BY <1>1, PresentType
<1>3. CASE chamada' = [chamada EXCEPT ![c] = Refused(c, "recusa")]
  BY <1>1, <1>2, <1>3, RefusalType
<1>4. CASE chamada' = [chamada EXCEPT ![c] = Verified(c)]
  <2> DEFINE s == fluxo[chamada[c].fluxo].sujeito
  <2>1. chamada[c] \in Chamada /\ s \in Subjects
    BY <1>1, CallTyped DEF Filled
  <2>2. diretorio[s] \in People \union {Nobody}
    BY <2>1 DEF TInv, TypeOK
  <2>3. PICK t \in Users \union {Nobody} :
           Verified(c) = [chamada[c] EXCEPT !.fase = "verificada", !.sujeito = s,
                                            !.email = diretorio[s], !.fluxo = Nobody,
                                            !.cookie = Nobody, !.titular = t]
    <3>1. CASE BySubject(s) = {}
      BY <3>1 DEF Verified
    <3>2. CASE BySubject(s) # {}
      <4>1. (CHOOSE u \in BySubject(s) : TRUE) \in BySubject(s)
        BY <3>2
      <4>2. (CHOOSE u \in BySubject(s) : TRUE) \in Users
        BY <4>1 DEF BySubject
      <4>3. QED
        BY <3>2, <4>2 DEF Verified
    <3>3. QED
      BY <3>1, <3>2
  <2>4. /\ Verified(c) \in Chamada /\ Verified(c).fase = "verificada"
        /\ Verified(c).sujeito = s /\ Verified(c).conta = chamada[c].conta
    BY <2>1, <2>2, <2>3 DEF Chamada, Fase
  <2>5. chamada'[c] = Verified(c)
    BY <1>4, <2>4, CallTyped
  <2>6. chamada[c].conta = Nobody
    BY <1>1, CallTyped DEF Filled
  <2>7. Filled(c)'
    BY <2>1, <2>4, <2>5, <2>6 DEF Filled, Named, WithAccount
  <2>8. /\ estado' \in [Browsers -> Flows \union {Nobody}]
        /\ trilha' \in [Calls -> {"nada", "auth.login", "auth.oidc_recusada"}]
    BY <1>1 DEF TInv, TypeOK
  <2>9. QED
    BY <1>1, <1>2, <1>4, <2>4, <2>7, <2>8, OneCall
<1>5. QED
  BY <1>3, <1>4 DEF Exchange, ProviderFails

\* A callback goes on to a state k that has what its phase needs; tables, outside,
\* cookies and trail are as they were.
LEMMA MoveType ==
    ASSUME TInv, NEW c \in Calls, NEW k \in Chamada,
           chamada' = [chamada EXCEPT ![c] = k], UNCHANGED <<tables, outside, trilha>>,
           estado' \in [Browsers -> Flows \union {Nobody}],
           k.fase # "trocando",
           k.fase \in {"verificada", "procurando", "achada", "escrita", "respondida"}
             => k.sujeito \in Subjects,
           k.fase \in {"achada", "escrita", "respondida"}
             => k.conta \in Users /\ usuario[k.conta].status # "ausente",
           k.fase \in {"verificada", "procurando"} => k.conta = Nobody
    PROVE  TInv'
<1>1. chamada'[c] = k
  BY CallTyped
<1>2. Filled(c)'
  BY <1>1 DEF Filled, Named, WithAccount, tables
<1>3. /\ fluxo' \in [Flows -> Fluxo] /\ OwnCodeOnly' /\ UNCHANGED <<tables, diretorio>>
      /\ \A f \in Flows : fluxo'[f].sujeito = fluxo[f].sujeito
      /\ trilha' \in [Calls -> {"nada", "auth.login", "auth.oidc_recusada"}]
  BY DEF outside, TInv, TypeOK, OwnCodeOnly
<1>4. QED
  BY <1>2, <1>3, OneCall

\* What an account that was looked up makes of the callback.
LEMMA LoadedTyped ==
    ASSUME TInv, NEW c \in Calls, NEW u \in Users, chamada[c].sujeito \in Subjects
    PROVE  /\ Loaded(c, u) \in Chamada /\ Loaded(c, u).sujeito = chamada[c].sujeito
           /\ \/ Loaded(c, u).fase = "recusada"
              \/ /\ Loaded(c, u).fase = "achada" /\ Loaded(c, u).conta = u
                 /\ usuario[u].status # "ausente"
<1>1. chamada[c] \in Chamada
  BY CallTyped
<1>2. CASE usuario[u].status = "ativo"
  BY <1>1, <1>2 DEF Loaded, Chamada, Fase
<1>3. CASE usuario[u].status # "ativo"
  BY <1>1, <1>3 DEF Loaded, Refused, Chamada, Fase, Resposta
<1>4. QED
  BY <1>2, <1>3

LEMMA LookUpType ==
    ASSUME TInv, NEW c \in Calls, LookUpSubject(c) \/ LookUpEmail(c)
    PROVE  TInv'
<1>1. /\ chamada[c] \in Chamada /\ chamada[c].sujeito \in Subjects
      /\ chamada[c].conta = Nobody
      /\ chamada[c].fase \in {"verificada", "procurando"}
  BY CallTyped DEF Filled, Named, LookUpSubject, LookUpEmail
<1>2. /\ UNCHANGED <<tables, outside, trilha>>
      /\ estado' \in [Browsers -> Flows \union {Nobody}]
  BY DEF LookUpSubject, LookUpEmail, TInv, TypeOK
<1>3. CASE \E u \in Users : chamada' = [chamada EXCEPT ![c] = Loaded(c, u)]
  <2>1. PICK u \in Users : chamada' = [chamada EXCEPT ![c] = Loaded(c, u)]
    BY <1>3
  <2>2. /\ Loaded(c, u) \in Chamada /\ Loaded(c, u).sujeito \in Subjects
        /\ \/ Loaded(c, u).fase = "recusada"
           \/ /\ Loaded(c, u).fase = "achada" /\ Loaded(c, u).conta = u
              /\ usuario[u].status # "ausente"
    BY <1>1, LoadedTyped
  <2>3. QED
    BY <1>2, <2>1, <2>2, MoveType
<1>4. CASE chamada' = [chamada EXCEPT ![c] = Refused(c, "sem_conta")]
  <2>1. Refused(c, "sem_conta") \in Chamada /\ Refused(c, "sem_conta").fase = "recusada"
    BY RefusedTyped
  <2>2. QED
    BY <1>2, <1>4, <2>1, MoveType
<1>5. CASE chamada' = [chamada EXCEPT ![c] = [chamada[c] EXCEPT !.fase = "procurando"]]
  <2> DEFINE k == [chamada[c] EXCEPT !.fase = "procurando"]
  <2>1. /\ k \in Chamada /\ k.fase = "procurando"
        /\ k.sujeito \in Subjects /\ k.conta = Nobody
    BY <1>1 DEF Chamada, Fase
  <2> HIDE DEF k
  <2>2. QED
    BY <1>2, <1>5, <2>1, MoveType DEF k
<1>6. BySubject(chamada[c].sujeito) \subseteq Users /\ ByEmail(chamada[c].email) \subseteq Users
  BY DEF BySubject, ByEmail
<1>7. CASE LookUpSubject(c)
  BY <1>3, <1>4, <1>5, <1>6, <1>7 DEF LookUpSubject, AfterSubject
<1>8. CASE LookUpEmail(c)
  BY <1>3, <1>4, <1>6, <1>8 DEF LookUpEmail
<1>9. QED
  BY <1>7, <1>8

\* A callback that ends leaves an empty request.
LEMMA ClosedTyped ==
    ASSUME NEW r \in Resposta
    PROVE  /\ [NoChamada EXCEPT !.resposta = r] \in Chamada
           /\ [NoChamada EXCEPT !.resposta = r].fase = "livre"
           /\ [NoChamada EXCEPT !.resposta = r].titular = Nobody
           /\ [NoChamada EXCEPT !.resposta = r].resposta = r
  BY DEF NoChamada, Chamada, Fase, Resposta

LEMMA FlushType ==
    ASSUME TInv, NEW c \in Calls, FlushBinding(c) \/ FlushSession(c) \/ Answer(c)
    PROVE  TInv'
<1>1. /\ chamada[c] \in Chamada /\ chamada[c].sujeito \in Subjects
      /\ chamada[c].conta \in Users /\ usuario[chamada[c].conta].status # "ausente"
  BY CallTyped DEF Filled, Named, WithAccount, FlushBinding, FlushSession, Answer
<1>2. UNCHANGED <<tables, outside, trilha>>
  BY DEF FlushBinding, FlushSession, Answer
<1>3. estado' \in [Browsers -> Flows \union {Nobody}]
  BY DEF FlushBinding, FlushSession, Answer, TInv, TypeOK
<1>4. ASSUME NEW f \in {"escrita", "respondida"},
             chamada' = [chamada EXCEPT ![c] = [chamada[c] EXCEPT !.fase = f]]
      PROVE  TInv'
  <2> DEFINE k == [chamada[c] EXCEPT !.fase = f]
  <2>1. /\ k \in Chamada /\ k.fase = f
        /\ k.sujeito = chamada[c].sujeito /\ k.conta = chamada[c].conta
    BY <1>1 DEF Chamada, Fase
  <2> HIDE DEF k
  <2>2. QED
    BY <1>1, <1>2, <1>3, <1>4, <2>1, MoveType DEF k
<1>5. CASE chamada' = Close(c, "erro")
  <2> DEFINE k == [NoChamada EXCEPT !.resposta = "erro"]
  <2>1. k \in Chamada /\ k.fase = "livre"
    BY ClosedTyped DEF Resposta
  <2> HIDE DEF k
  <2>2. QED
    BY <1>2, <1>3, <1>5, <2>1, MoveType DEF k, Close
<1>6. QED
  BY <1>4, <1>5 DEF FlushBinding, FlushSession, Answer

LEMMA RecordType ==
    ASSUME TInv, NEW c \in Calls, RecordRefusal(c)
    PROVE  TInv'
<1> DEFINE k == [NoChamada EXCEPT !.resposta = chamada[c].resposta]
<1>1. chamada[c].resposta \in Resposta
  BY CallTyped DEF Chamada
<1>2. k \in Chamada /\ k.fase = "livre"
  BY <1>1, ClosedTyped
<1>3. chamada' = [chamada EXCEPT ![c] = k]
  BY DEF RecordRefusal, Close
<1> HIDE DEF k
<1>4. chamada'[c] = k
  BY <1>2, <1>3, CallTyped
<1>5. Filled(c)'
  BY <1>2, <1>4 DEF Filled, Named, WithAccount
<1>6. /\ UNCHANGED <<tables, diretorio, estado, fluxo>>
      /\ estado' \in [Browsers -> Flows \union {Nobody}]
      /\ fluxo' \in [Flows -> Fluxo] /\ OwnCodeOnly'
      /\ trilha' \in [Calls -> {"nada", "auth.login", "auth.oidc_recusada"}]
  BY DEF RecordRefusal, outside, TInv, TypeOK, OwnCodeOnly
<1>7. QED
  BY <1>2, <1>3, <1>5, <1>6, OneCall

-----------------------------------------------------------------------------
(* The two steps that write oidc_subject.                                    *)

\* StillHeld changes no field but titular, and only to Nobody.
LEMMA HeldTyped ==
    ASSUME NEW ch \in [Calls -> Chamada], NEW linhas, NEW c \in Calls
    PROVE  /\ StillHeld(ch, linhas) \in [Calls -> Chamada]
           /\ \A f \in {"fase", "navegador", "fluxo", "cookie", "sujeito", "email",
                         "conta", "solta", "resposta"} :
                 StillHeld(ch, linhas)[c][f] = ch[c][f]
           /\ StillHeld(ch, linhas)[c].titular # Nobody =>
                 /\ StillHeld(ch, linhas)[c].titular = ch[c].titular
                 /\ linhas[ch[c].titular].sujeito = ch[c].sujeito
<1>1. ASSUME NEW d \in Calls
      PROVE  StillHeld(ch, linhas)[d] \in {ch[d], [ch[d] EXCEPT !.titular = Nobody]}
  BY DEF StillHeld
<1>2. ASSUME NEW d \in Calls
      PROVE  ch[d] \in Chamada /\ [ch[d] EXCEPT !.titular = Nobody] \in Chamada
  BY DEF Chamada
<1>3. StillHeld(ch, linhas) \in [Calls -> Chamada]
  <2>1. \A d \in Calls : StillHeld(ch, linhas)[d] \in Chamada
    BY <1>1, <1>2
  <2>2. QED
    BY <2>1 DEF StillHeld
<1>4. CASE ch[c].titular # Nobody /\ linhas[ch[c].titular].sujeito # ch[c].sujeito
  <2>1. StillHeld(ch, linhas)[c] = [ch[c] EXCEPT !.titular = Nobody]
    BY <1>4 DEF StillHeld
  <2>2. QED
    BY <1>2, <1>3, <2>1 DEF Chamada
<1>5. CASE ~(ch[c].titular # Nobody /\ linhas[ch[c].titular].sujeito # ch[c].sujeito)
  <2>1. StillHeld(ch, linhas)[c] = ch[c]
    BY <1>5 DEF StillHeld
  <2>2. QED
    BY <1>3, <1>5, <2>1
<1>6. QED
  BY <1>4, <1>5

\* A callback keeps what it has filled in when its own fields stay.
LEMMA SameFilled ==
    ASSUME NEW c \in Calls, Filled(c), UNCHANGED fluxo,
           \A f \in {"fase", "fluxo", "cookie", "sujeito", "conta"} :
              chamada'[c][f] = chamada[c][f],
           \A u \in Users : usuario[u].status # "ausente" => usuario'[u].status # "ausente"
    PROVE  Filled(c)'
<1>1. /\ chamada'[c].fase = chamada[c].fase /\ chamada'[c].fluxo = chamada[c].fluxo
      /\ chamada'[c].cookie = chamada[c].cookie /\ chamada'[c].sujeito = chamada[c].sujeito
      /\ chamada'[c].conta = chamada[c].conta
  OBVIOUS
<1>2. QED
  BY <1>1 DEF Filled, Named, WithAccount

\* What the write of one row by either step does to the table.
LEMMA WrittenTable ==
    ASSUME TInv, NEW u \in Users, NEW row \in Row, row.status # "ausente",
           usuario' = [usuario EXCEPT ![u] = row] \/ UNCHANGED usuario
    PROVE  /\ usuario' \in [Users -> Row]
           /\ \A v \in Users : usuario[v].status # "ausente" => usuario'[v].status # "ausente"
  BY DEF TInv, TypeOK

LEMMA AnonymisedTyped ==
    ASSUME TInv, NEW u \in Users
    PROVE  /\ Anonymised(u) \in Row /\ Anonymised(u).status = "inativo"
           /\ Anonymised(u).anonimizado
           /\ Anonymised(u).sujeito \in {Nobody, usuario[u].sujeito}
<1>1. usuario[u] \in Row
  BY DEF TInv, TypeOK
<1>2. QED
  BY <1>1 DEF Anonymised, Row

LEMMA BoundTyped ==
    ASSUME TInv, NEW c \in Calls, WithAccount(c)
    PROVE  /\ chamada[c] \in Chamada /\ chamada[c].conta \in Users
           /\ chamada[c].sujeito \in Subjects
           /\ BoundRow(c) \in Row /\ BoundRow(c).sujeito = chamada[c].sujeito
           /\ BoundRow(c).status = usuario[chamada[c].conta].status
           /\ BoundRow(c).anonimizado = usuario[chamada[c].conta].anonimizado
           /\ BoundRow(c).email = usuario[chamada[c].conta].email
           /\ BoundRow(c).status # "ausente"
<1>1. /\ chamada[c] \in Chamada /\ chamada[c].sujeito \in Subjects
      /\ chamada[c].conta \in Users /\ usuario[chamada[c].conta].status # "ausente"
  BY CallTyped DEF Filled, Named, WithAccount
<1>2. usuario[chamada[c].conta] \in Row
  BY <1>1 DEF TInv, TypeOK
<1>3. QED
  BY <1>1, <1>2 DEF BoundRow, Row

LEMMA DeactivateType ==
    ASSUME TInv, WriteDeactivate
    PROVE  TInv'
<1>1. baixa.conta \in Users /\ chamada \in [Calls -> Chamada]
  BY DEF WriteDeactivate, TInv, TypeOK, Baixa
<1>2. /\ usuario' \in [Users -> Row]
      /\ \A v \in Users : usuario[v].status # "ausente" => usuario'[v].status # "ausente"
  BY <1>1, AnonymisedTyped, WrittenTable DEF WriteDeactivate
<1>3. chamada' = StillHeld(chamada, usuario')
  BY DEF WriteDeactivate
<1>4. chamada' \in [Calls -> Chamada]
  <2>1. CASE Calls = {}
    BY <1>1, <1>3, <2>1 DEF StillHeld
  <2>2. CASE Calls # {}
    BY <1>1, <1>3, <2>2, HeldTyped
  <2>3. QED
    BY <2>1, <2>2
<1>5. TypeOK' /\ OwnCodeOnly'
  BY <1>2, <1>4 DEF WriteDeactivate, TInv, TypeOK, OwnCodeOnly, Baixa, NoBaixa, outside
<1>6. ASSUME NEW c \in Calls PROVE Filled(c)'
  <2>1. \A f \in {"fase", "fluxo", "cookie", "sujeito", "conta"} :
           chamada'[c][f] = chamada[c][f]
    BY <1>1, <1>3, HeldTyped
  <2>2. Filled(c) /\ UNCHANGED fluxo
    BY DEF TInv, WriteDeactivate, outside
  <2>3. QED
    BY <1>2, <2>1, <2>2, SameFilled
<1>7. QED
  BY <1>5, <1>6 DEF TInv

LEMMA CommitType ==
    ASSUME TInv, NEW c \in Calls, Commit(c)
    PROVE  TInv'
<1>1. WithAccount(c) /\ Close(c, "sessao") \in [Calls -> Chamada]
  <2>1. [NoChamada EXCEPT !.resposta = "sessao"] \in Chamada
    BY ClosedTyped DEF Resposta
  <2>2. QED
    BY <2>1 DEF Commit, WithAccount, Close, TInv, TypeOK
<1>2. /\ usuario' \in [Users -> Row]
      /\ \A v \in Users : usuario[v].status # "ausente" => usuario'[v].status # "ausente"
  BY <1>1, BoundTyped, WrittenTable DEF Commit
<1>3. chamada' = StillHeld(Close(c, "sessao"), usuario')
  BY DEF Commit
<1>4. chamada' \in [Calls -> Chamada]
  BY <1>1, <1>3, HeldTyped
<1>5. TypeOK' /\ OwnCodeOnly'
  BY <1>2, <1>4 DEF Commit, TInv, TypeOK, OwnCodeOnly, outside
<1>6. ASSUME NEW d \in Calls PROVE Filled(d)'
  <2>1. \A f \in {"fase", "fluxo", "cookie", "sujeito", "conta"} :
           chamada'[d][f] = Close(c, "sessao")[d][f]
    BY <1>1, <1>3, HeldTyped
  <2>2. CASE d = c
    <3>1. Close(c, "sessao")[d] = [NoChamada EXCEPT !.resposta = "sessao"]
      BY <2>2 DEF Close, TInv, TypeOK
    <3>2. chamada'[d].fase = "livre"
      <4>1. Close(c, "sessao")[d].fase = "livre"
        BY <3>1, ClosedTyped DEF Resposta
      <4>2. QED
        BY <2>1, <4>1
    <3>3. QED
      BY <3>2 DEF Filled, Named, WithAccount
  <2>3. CASE d # c
    <3>1. Close(c, "sessao")[d] = chamada[d]
      BY <2>3 DEF Close, TInv, TypeOK
    <3>2. Filled(d) /\ UNCHANGED fluxo
      BY DEF TInv, Commit, outside
    <3>3. QED
      BY <1>2, <2>1, <3>1, <3>2, SameFilled
  <2>4. QED
    BY <2>2, <2>3
<1>7. QED
  BY <1>5, <1>6 DEF TInv

LEMMA StepType == TInv /\ [Next]_vars => TInv'
<1> SUFFICES ASSUME TInv, [Next]_vars PROVE TInv'
  OBVIOUS
<1>1. CASE UNCHANGED vars
  <2>1. TypeOK' /\ OwnCodeOnly'
    BY <1>1 DEF vars, TInv, TypeOK, OwnCodeOnly
  <2>2. QED
    BY <1>1, <2>1, NoCall DEF vars
<1>2. CASE Next
  BY <1>2, MembersType, OutsideType, DeactivateType, ReceiveType, ExchangeType,
     LookUpType, FlushType, CommitType, RecordType DEF Next
<1>3. QED
  BY <1>1, <1>2

LEMMA TypingInvariant == Spec => []TInv
  BY InitType, StepType, PTL DEF Spec

\* TypeOK holds for any number of accounts, subjects, flows and callbacks: every
\* phase of a callback finds the fields it works on filled in (api/oidc.py).
THEOREM TypeCorrect == Spec => []TypeOK
<1>1. TInv => TypeOK
  BY DEF TInv
<1>2. QED
  BY <1>1, TypingInvariant, PTL

\* OwnCodeOnly holds whatever flows are started over each other: the state that
\* finish compares travels with the verifier it sends (services/oidc.py).
THEOREM OwnCodePresented == Spec => []OwnCodeOnly
<1>1. TInv => OwnCodeOnly
  BY DEF TInv
<1>2. QED
  BY <1>1, TypingInvariant, PTL

-----------------------------------------------------------------------------
(* Identity.                                                                 *)

Pending(c) == Flushed(c) /\ chamada[c].solta

IdInv ==
    /\ TInv /\ IdentityConsistent
    /\ \A u \in Users : usuario[u].status = "ausente" => ~usuario[u].anonimizado
    /\ \A c \in Calls : Pending(c) =>
          /\ ~usuario[chamada[c].conta].anonimizado
          /\ BySubject(chamada[c].sujeito) \subseteq {chamada[c].conta}
    /\ \A c, d \in Calls : Pending(c) /\ Pending(d) /\ c # d =>
          chamada[c].conta # chamada[d].conta /\ chamada[c].sujeito # chamada[d].sujeito

\* The bindings that are open after a step were open before it, on the same
\* account and for the same subject.
NoNewBinding ==
    \A c \in Calls : Pending(c)' =>
        /\ Pending(c)
        /\ chamada'[c].conta = chamada[c].conta /\ chamada'[c].sujeito = chamada[c].sujeito

LEMMA PendingTyped ==
    ASSUME TInv, NEW c \in Calls, Pending(c)
    PROVE  /\ WithAccount(c) /\ chamada[c].conta \in Users /\ chamada[c].sujeito \in Subjects
           /\ usuario[chamada[c].conta].status # "ausente"
  BY CallTyped DEF Pending, Flushed, WithAccount, Filled, Named

\* A step that writes no account and flushes no binding.
LEMMA Calm ==
    ASSUME IdInv, TInv', UNCHANGED usuario, NoNewBinding
    PROVE  IdInv'
<1>1. \A s : BySubject(s)' = BySubject(s)
  BY DEF BySubject
<1>2. IdentityConsistent'
  BY <1>1 DEF IdInv, IdentityConsistent
<1>3. ASSUME NEW c \in Calls, Pending(c)'
      PROVE  (/\ ~usuario[chamada[c].conta].anonimizado
              /\ BySubject(chamada[c].sujeito) \subseteq {chamada[c].conta})'
  <2>1. Pending(c) /\ chamada'[c].conta = chamada[c].conta
        /\ chamada'[c].sujeito = chamada[c].sujeito
    BY <1>3 DEF NoNewBinding
  <2>2. QED
    BY <1>1, <2>1 DEF IdInv
<1>4. ASSUME NEW c \in Calls, NEW d \in Calls, Pending(c)', Pending(d)', c # d
      PROVE  (chamada[c].conta # chamada[d].conta /\ chamada[c].sujeito # chamada[d].sujeito)'
  BY <1>4 DEF IdInv, NoNewBinding
<1>5. QED
  BY <1>2, <1>3, <1>4 DEF IdInv

\* A step that writes one account's row, while every open binding concerns other
\* accounts and other subjects.
LEMMA Rewrite ==
    ASSUME IdInv, TInv', NEW u \in Users, NEW row \in Row, RowIsLegal(u, row),
           row.status # "ausente", usuario' = [usuario EXCEPT ![u] = row], NoNewBinding,
           \A c \in Calls : Pending(c)' =>
              chamada[c].conta # u /\ chamada[c].sujeito # row.sujeito
    PROVE  IdInv'
<1>1. usuario \in [Users -> Row]
  BY DEF IdInv, TInv, TypeOK
<1>2. usuario'[u] = row /\ \A v \in Users : v # u => usuario'[v] = usuario[v]
  BY <1>1
<1>3. ASSUME NEW s PROVE BySubject(s)' \subseteq BySubject(s) \union {u}
                        /\ (s # row.sujeito => BySubject(s)' \subseteq BySubject(s))
  BY <1>2 DEF BySubject
<1>4. BySubject(row.sujeito)' \subseteq {u}
  BY <1>3 DEF RowIsLegal
<1>5. IdentityConsistent'
  <2>1. ASSUME NEW v \in Users, usuario'[v].anonimizado
        PROVE  usuario'[v].sujeito = Nobody /\ usuario'[v].email = Nobody
    BY <1>2, <2>1 DEF RowIsLegal, IdInv, IdentityConsistent
  <2>2. ASSUME NEW s \in Subjects, NEW v \in BySubject(s)', NEW w \in BySubject(s)'
        PROVE  v = w
    <3>1. CASE s = row.sujeito
      BY <1>4, <3>1, <2>2
    <3>2. CASE s # row.sujeito
      BY <1>3, <3>2, <2>2 DEF IdInv, IdentityConsistent
    <3>3. QED
      BY <3>1, <3>2
  <2>3. QED
    BY <2>1, <2>2 DEF IdentityConsistent
<1>6. \A v \in Users : usuario'[v].status = "ausente" => ~usuario'[v].anonimizado
  BY <1>2 DEF IdInv
<1>7. ASSUME NEW c \in Calls, Pending(c)'
      PROVE  (/\ ~usuario[chamada[c].conta].anonimizado
              /\ BySubject(chamada[c].sujeito) \subseteq {chamada[c].conta})'
  <2>1. /\ Pending(c) /\ chamada'[c].conta = chamada[c].conta
        /\ chamada'[c].sujeito = chamada[c].sujeito
        /\ chamada[c].conta # u /\ chamada[c].sujeito # row.sujeito
    BY <1>7 DEF NoNewBinding
  <2>2. chamada[c].conta \in Users
    BY <2>1, PendingTyped DEF IdInv
  <2>3. QED
    BY <1>2, <1>3, <2>1, <2>2 DEF IdInv
<1>8. ASSUME NEW c \in Calls, NEW d \in Calls, Pending(c)', Pending(d)', c # d
      PROVE  (chamada[c].conta # chamada[d].conta /\ chamada[c].sujeito # chamada[d].sujeito)'
  BY <1>8 DEF IdInv, NoNewBinding
<1>9. QED
  BY <1>5, <1>6, <1>7, <1>8 DEF IdInv

\* An account nobody is binding can be rewritten with the subject it has or none.
LEMMA RewriteUnbound ==
    ASSUME IdInv, TInv', NEW u \in Users, NEW row \in Row, row.status # "ausente",
           row.sujeito \in {Nobody, usuario[u].sujeito},
           row.anonimizado => row.email = Nobody /\ row.sujeito = Nobody,
           usuario' = [usuario EXCEPT ![u] = row], NoNewBinding,
           \A c \in Calls : Pending(c) => chamada[c].conta # u
    PROVE  IdInv'
<1>1. usuario[u].sujeito \in Subjects \union {Nobody}
  BY DEF IdInv, TInv, TypeOK, Row
<1>2. RowIsLegal(u, row)
  BY <1>1 DEF RowIsLegal, BySubject, IdInv, IdentityConsistent
<1>3. ASSUME NEW c \in Calls, Pending(c)'
      PROVE  chamada[c].conta # u /\ chamada[c].sujeito # row.sujeito
  <2>1. Pending(c)
    BY <1>3 DEF NoNewBinding
  <2>2. chamada[c].sujeito \in Subjects
    BY <2>1, PendingTyped DEF IdInv
  <2>3. chamada[c].sujeito # usuario[u].sujeito
    BY <2>1, <2>2 DEF IdInv, BySubject
  <2>4. QED
    BY <2>1, <2>2, <2>3
<1>4. QED
  BY <1>2, <1>3, Rewrite

LEMMA InitIdentity == Init => IdInv
<1> SUFFICES ASSUME Init PROVE IdInv
  OBVIOUS
<1>1. \A u \in Users : usuario[u].status = "ausente" /\ ~usuario[u].anonimizado
                        /\ usuario[u].sujeito = Nobody
  BY DEF Init, NoRow
<1>2. \A c \in Calls : ~Pending(c)
  BY DEF Init, NoChamada, Pending, Flushed
<1>3. QED
  BY <1>1, <1>2, InitType DEF IdInv, IdentityConsistent, BySubject

\* A callback that is not flushing a binding opens none.
LEMMA OneCallBinding ==
    ASSUME TInv, NEW c \in Calls, NEW k \in Chamada, chamada' = [chamada EXCEPT ![c] = k],
           k.fase \in {"escrita", "respondida"} /\ k.solta =>
              Pending(c) /\ k.conta = chamada[c].conta /\ k.sujeito = chamada[c].sujeito
    PROVE  NoNewBinding
<1>1. chamada'[c] = k /\ \A d \in Calls : d # c => chamada'[d] = chamada[d]
  BY DEF TInv, TypeOK
<1>2. QED
  BY <1>1 DEF NoNewBinding, Pending, Flushed

LEMMA SameBinding == UNCHANGED chamada => NoNewBinding
  BY DEF NoNewBinding, Pending, Flushed

LEMMA MembersIdentity ==
    ASSUME IdInv, TInv',
           \/ \E u \in Users, p \in People : Invite(u, p)
           \/ \E u \in Users : Enable(u) \/ Block(u) \/ ReadDeactivate(u)
    PROVE  IdInv'
<1>0. TInv
  BY DEF IdInv
<1>1. ASSUME NEW u \in Users, NEW p \in People, Invite(u, p) PROVE IdInv'
  <2> DEFINE row == [usuario[u] EXCEPT !.status = "inativo", !.email = p]
  <2>1. usuario[u] \in Row /\ usuario[u].status = "ausente" /\ ~usuario[u].anonimizado
    BY <1>1 DEF Invite, IdInv, TInv, TypeOK
  <2>2. /\ row \in Row /\ row.status # "ausente" /\ row.sujeito = usuario[u].sujeito
        /\ ~row.anonimizado
    BY <2>1 DEF Row
  <2>3. usuario' = [usuario EXCEPT ![u] = row] /\ NoNewBinding
    BY <1>1, SameBinding DEF Invite
  <2> HIDE DEF row
  <2>4. \A c \in Calls : Pending(c) => chamada[c].conta # u
    BY <1>0, <2>1, PendingTyped
  <2>5. QED
    BY <2>2, <2>3, <2>4, RewriteUnbound
<1>2. ASSUME NEW u \in Users, NEW st \in {"ativo", "inativo"}, Binding(u) = {},
             usuario[u].status # "ausente", UNCHANGED chamada,
             usuario' = [usuario EXCEPT ![u] = [usuario[u] EXCEPT !.status = st]]
      PROVE  IdInv'
  <2> DEFINE row == [usuario[u] EXCEPT !.status = st]
  <2>1. usuario[u] \in Row
    BY <1>0 DEF TInv, TypeOK
  <2>2. /\ row \in Row /\ row.status # "ausente" /\ row.sujeito = usuario[u].sujeito
        /\ row.email = usuario[u].email /\ row.anonimizado = usuario[u].anonimizado
    BY <2>1 DEF Row
  <2>3. row.anonimizado => row.email = Nobody /\ row.sujeito = Nobody
    BY <2>2 DEF IdInv, IdentityConsistent
  <2>4. usuario' = [usuario EXCEPT ![u] = row] /\ NoNewBinding
    BY <1>2, SameBinding
  <2> HIDE DEF row
  <2>5. \A c \in Calls : Pending(c) => chamada[c].conta # u
    BY <1>2 DEF Pending, Binding
  <2>6. QED
    BY <2>2, <2>3, <2>4, <2>5, RewriteUnbound
<1>3. ASSUME NEW u \in Users, Enable(u) PROVE IdInv'
  BY <1>2, <1>3 DEF Enable
<1>4. ASSUME NEW u \in Users, Block(u) PROVE IdInv'
  BY <1>2, <1>4 DEF Block
<1>5. ASSUME NEW u \in Users, ReadDeactivate(u) PROVE IdInv'
  BY <1>5, Calm, SameBinding DEF ReadDeactivate
<1>6. QED
  BY <1>1, <1>3, <1>4, <1>5

LEMMA OutsideIdentity ==
    ASSUME IdInv, TInv',
           \/ \E s \in Subjects, p \in People \union {Nobody} : Rename(s, p)
           \/ \E b \in Browsers : Expire(b)
           \/ \E f \in Flows, s \in Subjects : IssueCode(f, s)
           \/ \E b \in Browsers, f \in Flows : Authorize(b, f)
    PROVE  IdInv'
<1>1. UNCHANGED usuario /\ UNCHANGED chamada
  BY DEF Rename, Expire, IssueCode, Authorize, tables
<1>2. QED
  BY <1>1, Calm, SameBinding

\* The steps before the flush and after a refusal hold no binding.
LEMMA CallIdentity ==
    ASSUME IdInv, TInv', NEW c \in Calls,
           \/ \E b \in Browsers, f \in Flows : Receive(c, b, f)
           \/ Exchange(c) \/ ProviderFails(c) \/ LookUpSubject(c) \/ LookUpEmail(c)
           \/ FlushSession(c) \/ Answer(c) \/ RecordRefusal(c)
    PROVE  IdInv'
<1>0. TInv /\ chamada[c] \in Chamada /\ chamada'[c] \in Chamada
  BY DEF IdInv, TInv, TypeOK
<1>1. UNCHANGED usuario
  BY DEF Receive, Exchange, ProviderFails, LookUpSubject, LookUpEmail, FlushSession, Answer,
         RecordRefusal, tables
<1>2. CASE \E k \in Chamada : /\ chamada' = [chamada EXCEPT ![c] = k]
                               /\ ~(k.fase \in {"escrita", "respondida"} /\ k.solta)
  BY <1>0, <1>1, <1>2, OneCallBinding, Calm
<1>3. CASE Answer(c)
  <2> DEFINE k == [chamada[c] EXCEPT !.fase = "respondida"]
  <2>1. /\ k \in Chamada /\ k.conta = chamada[c].conta /\ k.sujeito = chamada[c].sujeito
        /\ k.solta = chamada[c].solta
    BY <1>0 DEF Chamada, Fase
  <2>2. chamada' = [chamada EXCEPT ![c] = k] /\ chamada[c].fase = "escrita"
    BY <1>3 DEF Answer
  <2> HIDE DEF k
  <2>3. NoNewBinding
    BY <1>0, <2>1, <2>2, OneCallBinding DEF Pending, Flushed
  <2>4. QED
    BY <1>1, <2>3, Calm
<1>4. CASE FlushSession(c)
  <2> DEFINE k == [chamada[c] EXCEPT !.fase = "escrita"]
  <2>1. k \in Chamada /\ ~k.solta
    BY <1>0, <1>4 DEF FlushSession, Chamada, Fase
  <2>2. QED
    BY <1>2, <1>4, <2>1 DEF FlushSession
<1>5. ASSUME NEW r \in {"recusa", "sem_conta"},
             chamada' = [chamada EXCEPT ![c] = Refused(c, r)]
      PROVE  IdInv'
  BY <1>0, <1>2, <1>5, RefusedTyped
<1>6. CASE \E b \in Browsers, f \in Flows : Receive(c, b, f)
  <2>1. PICK k : chamada' = [chamada EXCEPT ![c] = k] /\ k.fase \in {"trocando", "recusada"}
    <3>1. PICK b \in Browsers, f \in Flows : Receive(c, b, f)
      BY <1>6
    <3>2. CASE StateMatches(b, f)
      <4> DEFINE k == [NoChamada EXCEPT !.fase = "trocando", !.navegador = b, !.fluxo = f,
                                        !.cookie = estado[b]]
      <4>1. k.fase = "trocando"
        BY DEF NoChamada
      <4>2. QED
        BY <3>1, <3>2, <4>1 DEF Receive
    <3>3. CASE ~StateMatches(b, f)
      <4> DEFINE k == [NoChamada EXCEPT !.fase = "recusada", !.resposta = "recusa"]
      <4>1. k.fase = "recusada"
        BY DEF NoChamada
      <4>2. QED
        BY <3>1, <3>3, <4>1 DEF Receive
    <3>4. QED
      BY <3>2, <3>3
  <2>2. chamada'[c] = k
    BY <2>1 DEF IdInv, TInv, TypeOK
  <2>3. QED
    BY <1>0, <1>2, <2>1, <2>2
<1>7. CASE Exchange(c) \/ ProviderFails(c)
  <2>1. CASE chamada' = [chamada EXCEPT ![c] = Verified(c)]
    <3>1. Verified(c).fase = "verificada"
      BY <1>0 DEF Verified, Chamada
    <3>2. chamada'[c] = Verified(c)
      BY <2>1 DEF IdInv, TInv, TypeOK
    <3>3. QED
      BY <1>0, <1>2, <2>1, <3>1, <3>2
  <2>2. QED
    BY <1>5, <1>7, <2>1 DEF Exchange, ProviderFails
<1>8. ASSUME NEW u \in Users, chamada' = [chamada EXCEPT ![c] = Loaded(c, u)]
      PROVE  IdInv'
  <2>1. Loaded(c, u).fase \in {"achada", "recusada"}
    BY <1>0 DEF Loaded, Refused, Chamada
  <2>2. chamada'[c] = Loaded(c, u)
    BY <1>8 DEF IdInv, TInv, TypeOK
  <2>3. QED
    BY <1>0, <1>2, <1>8, <2>1, <2>2
<1>9. CASE chamada' = [chamada EXCEPT ![c] = [chamada[c] EXCEPT !.fase = "procurando"]]
  <2>1. [chamada[c] EXCEPT !.fase = "procurando"].fase = "procurando"
    BY <1>0 DEF Chamada
  <2>2. chamada'[c] = [chamada[c] EXCEPT !.fase = "procurando"]
    BY <1>9 DEF IdInv, TInv, TypeOK
  <2>3. QED
    BY <1>0, <1>2, <1>9, <2>1, <2>2
<1>10. CASE LookUpSubject(c) \/ LookUpEmail(c)
  <2>1. BySubject(chamada[c].sujeito) \subseteq Users
        /\ ByEmail(chamada[c].email) \subseteq Users
    BY DEF BySubject, ByEmail
  <2>2. QED
    BY <1>5, <1>8, <1>9, <1>10, <2>1 DEF LookUpSubject, LookUpEmail, AfterSubject
<1>11. CASE RecordRefusal(c)
  <2> DEFINE k == [NoChamada EXCEPT !.resposta = chamada[c].resposta]
  <2>1. k.fase = "livre"
    BY DEF NoChamada
  <2>2. chamada' = [chamada EXCEPT ![c] = k]
    BY <1>11 DEF RecordRefusal, Close
  <2>3. chamada'[c] = k
    BY <2>2 DEF IdInv, TInv, TypeOK
  <2>4. QED
    BY <1>0, <1>2, <2>1, <2>2, <2>3
<1>12. QED
  BY <1>3, <1>4, <1>6, <1>7, <1>10, <1>11

\* The flush: what the constraints see is nobody else's to change from here on.
LEMMA FlushIdentity ==
    ASSUME IdInv, TInv', NEW c \in Calls, FlushBinding(c)
    PROVE  IdInv'
<1>0. TInv /\ WithAccount(c)
  BY DEF IdInv, FlushBinding, WithAccount
<1>1. /\ chamada[c] \in Chamada /\ chamada[c].conta \in Users
      /\ chamada[c].sujeito \in Subjects /\ UNCHANGED usuario
  BY <1>0, BoundTyped DEF FlushBinding, tables
<1>2. CASE ~RowIsLegal(chamada[c].conta, BoundRow(c))
  <2> DEFINE k == [NoChamada EXCEPT !.resposta = "erro"]
  <2>1. k \in Chamada /\ k.fase = "livre"
    BY ClosedTyped DEF Resposta
  <2>2. chamada' = [chamada EXCEPT ![c] = k]
    BY <1>2 DEF FlushBinding, Close
  <2> HIDE DEF k
  <2>3. QED
    BY <1>0, <1>1, <2>1, <2>2, OneCallBinding, Calm
<1>3. CASE RowIsLegal(chamada[c].conta, BoundRow(c))
  <2> DEFINE k == [chamada[c] EXCEPT !.fase = "escrita"]
  <2>1. k.conta = chamada[c].conta /\ k.sujeito = chamada[c].sujeito
    BY <1>1 DEF Chamada
  <2>2. chamada' = [chamada EXCEPT ![c] = k] /\ chamada \in [Calls -> Chamada]
    BY <1>0, <1>3 DEF FlushBinding, TInv, TypeOK
  <2> HIDE DEF k
  <2>3. /\ chamada'[c].conta = chamada[c].conta /\ chamada'[c].sujeito = chamada[c].sujeito
        /\ \A d \in Calls : d # c => chamada'[d] = chamada[d]
    BY <2>1, <2>2
  <2>4. \A d \in Calls : d # c /\ Pending(d)' => Pending(d)
    BY <2>3 DEF Pending, Flushed
  <2>5. \A d \in Calls : Pending(d) =>
           chamada[d].conta # chamada[c].conta /\ chamada[d].sujeito # chamada[c].sujeito
    BY DEF FlushBinding, Pending, Binding, Inserting
  <2>6. /\ ~usuario[chamada[c].conta].anonimizado
        /\ BySubject(chamada[c].sujeito) \subseteq {chamada[c].conta}
    BY <1>0, <1>1, <1>3, BoundTyped DEF RowIsLegal
  <2>7. \A s : BySubject(s)' = BySubject(s)
    BY <1>1 DEF BySubject
  <2>8. IdentityConsistent'
    BY <1>1, <2>7 DEF IdInv, IdentityConsistent
  <2>9. ASSUME NEW d \in Calls, Pending(d)'
        PROVE  (/\ ~usuario[chamada[d].conta].anonimizado
                /\ BySubject(chamada[d].sujeito) \subseteq {chamada[d].conta})'
    <3>1. CASE d = c
      BY <1>1, <2>3, <2>6, <2>7, <3>1
    <3>2. CASE d # c
      BY <1>1, <2>3, <2>4, <2>7, <2>9, <3>2 DEF IdInv
    <3>3. QED
      BY <3>1, <3>2
  <2>10. ASSUME NEW d \in Calls, NEW e \in Calls, Pending(d)', Pending(e)', d # e
         PROVE  (chamada[d].conta # chamada[e].conta /\ chamada[d].sujeito # chamada[e].sujeito)'
    <3>1. CASE d = c
      BY <2>3, <2>4, <2>5, <2>10, <3>1
    <3>2. CASE e = c
      BY <2>3, <2>4, <2>5, <2>10, <3>2
    <3>3. CASE d # c /\ e # c
      BY <2>3, <2>4, <2>10, <3>3 DEF IdInv
    <3>4. QED
      BY <3>1, <3>2, <3>3
  <2>11. QED
    BY <1>1, <2>8, <2>9, <2>10 DEF IdInv
<1>4. QED
  BY <1>2, <1>3

-----------------------------------------------------------------------------
(* The two steps that write oidc_subject.                                    *)

\* Which bindings are open is seen in three fields of each request.
LEMMA HeldBinding ==
    ASSUME NEW ch \in [Calls -> Chamada], chamada' = StillHeld(ch, usuario'), NEW c \in Calls
    PROVE  /\ chamada'[c].fase = ch[c].fase /\ chamada'[c].solta = ch[c].solta
           /\ chamada'[c].conta = ch[c].conta /\ chamada'[c].sujeito = ch[c].sujeito
           /\ chamada'[c].resposta = ch[c].resposta
<1>1. \A f \in {"fase", "navegador", "fluxo", "cookie", "sujeito", "email",
                "conta", "solta", "resposta"} : chamada'[c][f] = ch[c][f]
  BY HeldTyped
<1>2. QED
  BY <1>1

\* What was read bound is cleared, what was read unbound meets the constraint.
LEMMA DeactivateIdentity ==
    ASSUME IdInv, TInv', WriteDeactivate
    PROVE  IdInv'
<1>1. /\ TInv /\ baixa.conta \in Users /\ chamada \in [Calls -> Chamada]
      /\ chamada' = StillHeld(chamada, usuario')
  BY DEF IdInv, WriteDeactivate, TInv, TypeOK, Baixa
<1>2. NoNewBinding
  BY <1>1, HeldBinding DEF NoNewBinding, Pending, Flushed
<1>3. CASE RowIsLegal(baixa.conta, Anonymised(baixa.conta))
  <2>1. usuario' = [usuario EXCEPT ![baixa.conta] = Anonymised(baixa.conta)]
    BY <1>3 DEF WriteDeactivate
  <2>2. \A c \in Calls : Pending(c) => chamada[c].conta # baixa.conta
    BY DEF WriteDeactivate, Pending, Binding
  <2>3. /\ Anonymised(baixa.conta) \in Row /\ Anonymised(baixa.conta).status # "ausente"
        /\ Anonymised(baixa.conta).sujeito \in {Nobody, usuario[baixa.conta].sujeito}
        /\ Anonymised(baixa.conta).anonimizado =>
              Anonymised(baixa.conta).email = Nobody /\ Anonymised(baixa.conta).sujeito = Nobody
    BY <1>1, <1>3, AnonymisedTyped DEF RowIsLegal
  <2>4. QED
    BY <1>1, <1>2, <2>1, <2>2, <2>3, RewriteUnbound
<1>4. CASE ~RowIsLegal(baixa.conta, Anonymised(baixa.conta))
  BY <1>2, <1>4, Calm DEF WriteDeactivate
<1>5. QED
  BY <1>3, <1>4

\* The commit makes a binding last that the constraints saw at its flush.
LEMMA CommitIdentity ==
    ASSUME IdInv, TInv', NEW c \in Calls, Commit(c)
    PROVE  IdInv'
<1>1. /\ TInv /\ WithAccount(c) /\ chamada \in [Calls -> Chamada]
      /\ chamada' = StillHeld(Close(c, "sessao"), usuario')
  BY DEF IdInv, Commit, WithAccount, TInv, TypeOK
<1>2. /\ chamada[c].conta \in Users /\ chamada[c].sujeito \in Subjects
      /\ BoundRow(c) \in Row /\ BoundRow(c).sujeito = chamada[c].sujeito
      /\ BoundRow(c).anonimizado = usuario[chamada[c].conta].anonimizado
      /\ BoundRow(c).status # "ausente"
  BY <1>1, BoundTyped
<1>3. /\ Close(c, "sessao") \in [Calls -> Chamada] /\ Close(c, "sessao")[c].fase = "livre"
      /\ \A d \in Calls : d # c => Close(c, "sessao")[d] = chamada[d]
  <2> DEFINE k == [NoChamada EXCEPT !.resposta = "sessao"]
  <2>1. k \in Chamada /\ k.fase = "livre"
    BY ClosedTyped DEF Resposta
  <2>2. Close(c, "sessao") = [chamada EXCEPT ![c] = k]
    BY DEF Close
  <2> HIDE DEF k
  <2>3. QED
    BY <1>1, <2>1, <2>2
<1>4. ASSUME NEW d \in Calls, Pending(d)'
      PROVE  /\ d # c /\ Pending(d)
             /\ chamada'[d].conta = chamada[d].conta /\ chamada'[d].sujeito = chamada[d].sujeito
  BY <1>1, <1>3, <1>4, HeldBinding DEF Pending, Flushed
<1>5. NoNewBinding
  BY <1>4 DEF NoNewBinding
<1>6. CASE chamada[c].solta
  <2>1. Pending(c)
    BY <1>6 DEF Commit, Pending, Flushed
  <2>2. usuario' = [usuario EXCEPT ![chamada[c].conta] = BoundRow(c)]
    BY <1>6 DEF Commit
  <2>3. RowIsLegal(chamada[c].conta, BoundRow(c))
    BY <1>2, <2>1 DEF RowIsLegal, IdInv
  <2>4. \A d \in Calls : Pending(d)' =>
           chamada[d].conta # chamada[c].conta /\ chamada[d].sujeito # BoundRow(c).sujeito
    BY <1>2, <1>4, <2>1 DEF IdInv
  <2>5. QED
    BY <1>2, <1>5, <2>2, <2>3, <2>4, Rewrite
<1>7. CASE ~chamada[c].solta
  BY <1>5, <1>7, Calm DEF Commit
<1>8. QED
  BY <1>6, <1>7

LEMMA StepIdentity == IdInv /\ [Next]_vars => IdInv'
<1> SUFFICES ASSUME IdInv, [Next]_vars PROVE IdInv'
  OBVIOUS
<1>1. TInv'
  BY StepType DEF IdInv
<1>2. CASE UNCHANGED vars
  BY <1>1, <1>2, Calm, SameBinding DEF vars
<1>3. CASE Next
  BY <1>1, <1>3, MembersIdentity, OutsideIdentity, DeactivateIdentity, CallIdentity,
     FlushIdentity, CommitIdentity DEF Next
<1>4. QED
  BY <1>2, <1>3

LEMMA IdentityInvariant == Spec => []IdInv
  BY InitIdentity, StepIdentity, PTL DEF Spec

\* IdentityConsistent holds however many callbacks and deactivations overlap: no
\* subject is on two accounts or stays on an anonymised one (core/models.py).
THEOREM IdentityKept == Spec => []IdentityConsistent
<1>1. IdInv => IdentityConsistent
  BY DEF IdInv
<1>2. QED
  BY <1>1, IdentityInvariant, PTL

-----------------------------------------------------------------------------
(* Answers: what a request k and its row t of the audit trail say, and whose *)
(* account it goes to.                                                       *)

Told(k, t) ==
    /\ k.fase = "recusada" => k.resposta \in {"recusa", "sem_conta"}
    /\ k.fase \notin {"livre", "recusada"} => k.resposta = "nenhuma"
    /\ k.fase # "livre" => t = "nada"
    /\ k.fase = "livre" =>
          /\ (k.resposta = "sessao") <=> (t = "auth.login")
          /\ (k.resposta \in {"recusa", "sem_conta"}) <=> (t = "auth.oidc_recusada")

\* The account that held the subject holds it still, so the look-up by subject
\* finds it and the look-up by e-mail is never reached.
Keeps(k) ==
    k.titular # Nobody =>
        /\ k.titular \in Users /\ k.sujeito \in Subjects
        /\ usuario[k.titular].sujeito = k.sujeito
        /\ k.fase # "procurando"
        /\ k.conta \in {Nobody, k.titular} /\ k.resposta # "sem_conta"

AnswerInv == IdInv /\ \A c \in Calls : Told(chamada[c], trilha[c]) /\ Keeps(chamada[c])

LEMMA InitAnswers == Init => AnswerInv
  BY InitIdentity DEF Init, NoChamada, AnswerInv, Told, Keeps

\* A step of one callback that writes no account.
LEMMA OneAnswer ==
    ASSUME AnswerInv, IdInv', NEW c \in Calls, NEW k \in Chamada,
           chamada' = [chamada EXCEPT ![c] = k], UNCHANGED usuario,
           \A d \in Calls : d # c => trilha'[d] = trilha[d],
           Told(k, trilha'[c]), Keeps(k)
    PROVE  AnswerInv'
<1>1. /\ chamada'[c] = k
      /\ \A d \in Calls : d # c => chamada'[d] = chamada[d] /\ trilha'[d] = trilha[d]
  BY DEF AnswerInv, IdInv, TInv, TypeOK
<1>2. ASSUME NEW d \in Calls PROVE (Told(chamada[d], trilha[d]) /\ Keeps(chamada[d]))'
  <2>1. CASE d = c
    BY <1>1, <2>1 DEF Told, Keeps
  <2>2. CASE d # c
    BY <1>1, <2>2 DEF AnswerInv, Told, Keeps
  <2>3. QED
    BY <2>1, <2>2
<1>3. QED
  BY <1>2 DEF AnswerInv

\* A step that moves no callback and no subject.
LEMMA NoAnswer ==
    ASSUME AnswerInv, IdInv', UNCHANGED <<chamada, trilha>>,
           \A u \in Users : usuario'[u].sujeito = usuario[u].sujeito
    PROVE  AnswerInv'
  BY DEF AnswerInv, Told, Keeps

LEMMA ElsewhereAnswers ==
    ASSUME AnswerInv, IdInv',
           \/ \E u \in Users, p \in People : Invite(u, p)
           \/ \E u \in Users : Enable(u) \/ Block(u) \/ ReadDeactivate(u)
           \/ \E s \in Subjects, p \in People \union {Nobody} : Rename(s, p)
           \/ \E b \in Browsers : Expire(b)
           \/ \E f \in Flows, s \in Subjects : IssueCode(f, s)
           \/ \E b \in Browsers, f \in Flows : Authorize(b, f)
    PROVE  AnswerInv'
<1>1. UNCHANGED <<chamada, trilha>>
  BY DEF Invite, Enable, Block, ReadDeactivate, Rename, Expire, IssueCode, Authorize
<1>2. usuario \in [Users -> Row]
  BY DEF AnswerInv, IdInv, TInv, TypeOK
<1>3. ASSUME NEW u \in Users, NEW row, row.sujeito = usuario[u].sujeito,
             usuario' = [usuario EXCEPT ![u] = row]
      PROVE  \A v \in Users : usuario'[v].sujeito = usuario[v].sujeito
  BY <1>2, <1>3
<1>4. ASSUME NEW u \in Users, NEW p, NEW st
      PROVE  /\ [usuario[u] EXCEPT !.status = st, !.email = p].sujeito = usuario[u].sujeito
             /\ [usuario[u] EXCEPT !.status = st].sujeito = usuario[u].sujeito
  <2>1. usuario[u] \in Row
    BY <1>2
  <2>2. QED
    BY <2>1 DEF Row
<1>5. ASSUME NEW u \in Users, NEW p \in People, Invite(u, p)
      PROVE  \A v \in Users : usuario'[v].sujeito = usuario[v].sujeito
  BY <1>3, <1>4, <1>5 DEF Invite
<1>6. ASSUME NEW u \in Users, Enable(u) \/ Block(u)
      PROVE  \A v \in Users : usuario'[v].sujeito = usuario[v].sujeito
  <2>1. PICK st : usuario' = [usuario EXCEPT ![u] = [usuario[u] EXCEPT !.status = st]]
    BY <1>6 DEF Enable, Block
  <2>2. [usuario[u] EXCEPT !.status = st].sujeito = usuario[u].sujeito
    BY <1>4
  <2>3. QED
    BY <1>3, <2>1, <2>2
<1>7. ASSUME UNCHANGED usuario
      PROVE  \A v \in Users : usuario'[v].sujeito = usuario[v].sujeito
  BY <1>7
<1>8. \A v \in Users : usuario'[v].sujeito = usuario[v].sujeito
  BY <1>5, <1>6, <1>7 DEF ReadDeactivate, Rename, Expire, IssueCode, Authorize, tables
<1>9. QED
  BY <1>1, <1>8, NoAnswer

LEMMA RefusedAnswers ==
    ASSUME AnswerInv, IdInv', NEW c \in Calls, NEW r \in {"recusa", "sem_conta"},
           chamada' = [chamada EXCEPT ![c] = Refused(c, r)], UNCHANGED <<usuario, trilha>>,
           chamada[c].fase # "livre", r = "sem_conta" => chamada[c].titular = Nobody
    PROVE  AnswerInv'
<1> DEFINE k == Refused(c, r)
<1>1. chamada[c] \in Chamada /\ Told(chamada[c], trilha[c]) /\ Keeps(chamada[c])
  BY DEF AnswerInv, IdInv, TInv, TypeOK
<1>2. /\ k \in Chamada /\ k.fase = "recusada" /\ k.resposta = r
      /\ k.titular = chamada[c].titular /\ k.sujeito = chamada[c].sujeito
      /\ k.conta = chamada[c].conta
  BY <1>1 DEF Refused, Chamada, Fase, Resposta
<1>3. chamada' = [chamada EXCEPT ![c] = k]
  OBVIOUS
<1> HIDE DEF k
<1>4. Told(k, trilha'[c]) /\ Keeps(k)
  BY <1>1, <1>2 DEF Told, Keeps
<1>5. QED
  BY <1>2, <1>3, <1>4, OneAnswer

LEMMA ReceiveAnswers ==
    ASSUME AnswerInv, IdInv', NEW c \in Calls, NEW b \in Browsers, NEW f \in Flows,
           Receive(c, b, f)
    PROVE  AnswerInv'
<1>1. /\ UNCHANGED usuario /\ trilha'[c] = "nada"
      /\ \A d \in Calls : d # c => trilha'[d] = trilha[d]
  BY DEF Receive, AnswerInv, IdInv, TInv, TypeOK, tables
<1>2. \E k : /\ chamada' = [chamada EXCEPT ![c] = k] /\ k.titular = Nobody
             /\ \/ k.fase = "trocando" /\ k.resposta = "nenhuma"
                \/ k.fase = "recusada" /\ k.resposta = "recusa"
  <2>1. CASE StateMatches(b, f)
    <3> DEFINE k == [NoChamada EXCEPT !.fase = "trocando", !.navegador = b, !.fluxo = f,
                                      !.cookie = estado[b]]
    <3>1. k.titular = Nobody /\ k.fase = "trocando" /\ k.resposta = "nenhuma"
      BY DEF NoChamada
    <3>2. chamada' = [chamada EXCEPT ![c] = k]
      BY <2>1 DEF Receive
    <3>3. QED
      BY <3>1, <3>2
  <2>2. CASE ~StateMatches(b, f)
    <3> DEFINE k == [NoChamada EXCEPT !.fase = "recusada", !.resposta = "recusa"]
    <3>1. k.titular = Nobody /\ k.fase = "recusada" /\ k.resposta = "recusa"
      BY DEF NoChamada
    <3>2. chamada' = [chamada EXCEPT ![c] = k]
      BY <2>2 DEF Receive
    <3>3. QED
      BY <3>1, <3>2
  <2>3. QED
    BY <2>1, <2>2
<1>3. PICK k : /\ chamada' = [chamada EXCEPT ![c] = k] /\ k.titular = Nobody
               /\ \/ k.fase = "trocando" /\ k.resposta = "nenhuma"
                  \/ k.fase = "recusada" /\ k.resposta = "recusa"
  BY <1>2
<1>4. k \in Chamada
  BY <1>3 DEF AnswerInv, IdInv, TInv, TypeOK
<1>5. Told(k, trilha'[c]) /\ Keeps(k)
  BY <1>1, <1>3 DEF Told, Keeps
<1>6. QED
  BY <1>1, <1>3, <1>4, <1>5, OneAnswer

LEMMA ExchangeAnswers ==
    ASSUME AnswerInv, IdInv', NEW c \in Calls, Exchange(c) \/ ProviderFails(c)
    PROVE  AnswerInv'
<1>1. /\ chamada[c] \in Chamada /\ Told(chamada[c], trilha[c])
      /\ chamada[c].fase = "trocando" /\ UNCHANGED <<usuario, trilha>>
  BY DEF AnswerInv, IdInv, TInv, TypeOK, Exchange, ProviderFails, tables
<1>2. CASE chamada' = [chamada EXCEPT ![c] = Refused(c, "recusa")]
  BY <1>1, <1>2, RefusedAnswers
<1>3. CASE chamada' = [chamada EXCEPT ![c] = Verified(c)]
  <2> DEFINE s == fluxo[chamada[c].fluxo].sujeito
             k == Verified(c)
  <2>1. Filled(c) /\ s \in Subjects /\ chamada[c].conta = Nobody
    BY <1>1 DEF AnswerInv, IdInv, TInv, Filled
  <2>2. /\ k.fase = "verificada" /\ k.sujeito = s /\ k.conta = chamada[c].conta
        /\ k.resposta = chamada[c].resposta
        /\ k.titular = (IF BySubject(s) = {} THEN Nobody
                        ELSE CHOOSE u \in BySubject(s) : TRUE)
    BY <1>1 DEF Verified, Chamada
  <2>3. k.titular # Nobody => k.titular \in BySubject(s)
    BY <2>2
  <2>4. k \in Chamada
    BY <1>3 DEF AnswerInv, IdInv, TInv, TypeOK
  <2>5. chamada' = [chamada EXCEPT ![c] = k]
    BY <1>3
  <2>6. Told(k, trilha'[c]) /\ Keeps(k)
    <3> HIDE DEF k, s
    <3>1. QED
      BY <1>1, <2>1, <2>2, <2>3 DEF Told, Keeps, BySubject
  <2> HIDE DEF k, s
  <2>7. QED
    BY <1>1, <2>4, <2>5, <2>6, OneAnswer
<1>4. QED
  BY <1>2, <1>3 DEF Exchange, ProviderFails

\* No other account than the one that held the subject is found by it.
LEMMA LookUpAnswers ==
    ASSUME AnswerInv, IdInv', NEW c \in Calls, LookUpSubject(c) \/ LookUpEmail(c)
    PROVE  AnswerInv'
<1>1. /\ chamada[c] \in Chamada /\ Told(chamada[c], trilha[c]) /\ Keeps(chamada[c])
      /\ chamada[c].fase \in {"verificada", "procurando"}
      /\ chamada[c].conta = Nobody /\ UNCHANGED <<usuario, trilha>>
  BY DEF AnswerInv, IdInv, TInv, TypeOK, Filled, LookUpSubject, LookUpEmail, tables
<1>2. chamada[c].titular # Nobody =>
         chamada[c].fase = "verificada" /\ BySubject(chamada[c].sujeito) = {chamada[c].titular}
  BY <1>1 DEF Keeps, BySubject, AnswerInv, IdInv, IdentityConsistent
<1>3. ASSUME NEW r \in {"recusa", "sem_conta"},
             chamada' = [chamada EXCEPT ![c] = Refused(c, r)],
             r = "sem_conta" => chamada[c].titular = Nobody
      PROVE  AnswerInv'
  BY <1>1, <1>3, RefusedAnswers
<1>4. ASSUME NEW u \in Users, chamada' = [chamada EXCEPT ![c] = Loaded(c, u)],
             chamada[c].titular # Nobody => u = chamada[c].titular
      PROVE  AnswerInv'
  <2>1. CASE usuario[u].status = "ativo"
    <3> DEFINE k == [chamada[c] EXCEPT !.fase = "achada", !.conta = u, !.email = Nobody,
                                       !.solta = usuario[u].sujeito = Nobody]
    <3>1. chamada' = [chamada EXCEPT ![c] = k]
      BY <1>4, <2>1 DEF Loaded
    <3>2. /\ k.fase = "achada" /\ k.conta = u /\ k.titular = chamada[c].titular
          /\ k.sujeito = chamada[c].sujeito /\ k.resposta = chamada[c].resposta
      BY <1>1 DEF Chamada
    <3>3. k \in Chamada
      BY <3>1 DEF AnswerInv, IdInv, TInv, TypeOK
    <3> HIDE DEF k
    <3>4. Told(k, trilha'[c]) /\ Keeps(k)
      BY <1>1, <1>4, <3>2 DEF Told, Keeps
    <3>5. QED
      BY <1>1, <3>1, <3>3, <3>4, OneAnswer
  <2>2. CASE usuario[u].status # "ativo"
    BY <1>3, <1>4, <2>2 DEF Loaded
  <2>3. QED
    BY <2>1, <2>2
<1>5. CASE /\ chamada' = [chamada EXCEPT ![c] = [chamada[c] EXCEPT !.fase = "procurando"]]
           /\ chamada[c].titular = Nobody
  <2> DEFINE k == [chamada[c] EXCEPT !.fase = "procurando"]
  <2>1. /\ k \in Chamada /\ k.fase = "procurando" /\ k.titular = Nobody
        /\ k.resposta = chamada[c].resposta
    BY <1>1, <1>5 DEF Chamada, Fase
  <2>2. chamada' = [chamada EXCEPT ![c] = k]
    BY <1>5
  <2> HIDE DEF k
  <2>3. Told(k, trilha'[c]) /\ Keeps(k)
    BY <1>1, <2>1 DEF Told, Keeps
  <2>4. QED
    BY <1>1, <2>1, <2>2, <2>3, OneAnswer
<1>6. BySubject(chamada[c].sujeito) \subseteq Users /\ ByEmail(chamada[c].email) \subseteq Users
  BY DEF BySubject, ByEmail
<1>7. CASE LookUpSubject(c)
  <2>1. CASE BySubject(chamada[c].sujeito) # {}
    <3>1. PICK u \in BySubject(chamada[c].sujeito) :
             chamada' = [chamada EXCEPT ![c] = Loaded(c, u)]
      BY <1>7, <2>1 DEF LookUpSubject, AfterSubject
    <3>2. QED
      BY <1>2, <1>4, <1>6, <3>1
  <2>2. CASE BySubject(chamada[c].sujeito) = {}
    <3>1. chamada[c].titular = Nobody
      BY <1>2, <2>2
    <3>2. QED
      BY <1>3, <1>5, <1>7, <2>2, <3>1 DEF LookUpSubject, AfterSubject
  <2>3. QED
    BY <2>1, <2>2
<1>8. CASE LookUpEmail(c)
  <2>1. chamada[c].titular = Nobody
    BY <1>2, <1>8 DEF LookUpEmail
  <2>2. QED
    BY <1>3, <1>4, <1>6, <1>8, <2>1 DEF LookUpEmail
<1>9. QED
  BY <1>7, <1>8

LEMMA FlushAnswers ==
    ASSUME AnswerInv, IdInv', NEW c \in Calls, FlushBinding(c) \/ FlushSession(c) \/ Answer(c)
    PROVE  AnswerInv'
<1>1. /\ chamada[c] \in Chamada /\ Told(chamada[c], trilha[c]) /\ Keeps(chamada[c])
      /\ chamada[c].fase \in {"achada", "escrita"} /\ UNCHANGED <<usuario, trilha>>
  BY DEF AnswerInv, IdInv, TInv, TypeOK, FlushBinding, FlushSession, Answer, tables
<1>2. ASSUME NEW f \in {"escrita", "respondida"},
             chamada' = [chamada EXCEPT ![c] = [chamada[c] EXCEPT !.fase = f]]
      PROVE  AnswerInv'
  <2> DEFINE k == [chamada[c] EXCEPT !.fase = f]
  <2>1. /\ k \in Chamada /\ k.fase = f /\ k.titular = chamada[c].titular
        /\ k.sujeito = chamada[c].sujeito /\ k.conta = chamada[c].conta
        /\ k.resposta = chamada[c].resposta
    BY <1>1 DEF Chamada, Fase
  <2>2. chamada' = [chamada EXCEPT ![c] = k]
    BY <1>2
  <2> HIDE DEF k
  <2>3. Told(k, trilha'[c]) /\ Keeps(k)
    BY <1>1, <2>1 DEF Told, Keeps
  <2>4. QED
    BY <1>1, <2>1, <2>2, <2>3, OneAnswer
<1>3. CASE chamada' = Close(c, "erro")
  <2> DEFINE k == [NoChamada EXCEPT !.resposta = "erro"]
  <2>1. k \in Chamada /\ k.fase = "livre" /\ k.titular = Nobody /\ k.resposta = "erro"
    BY ClosedTyped DEF Resposta
  <2>2. chamada' = [chamada EXCEPT ![c] = k]
    BY <1>3 DEF Close
  <2> HIDE DEF k
  <2>3. Told(k, trilha'[c]) /\ Keeps(k)
    BY <1>1, <2>1 DEF Told, Keeps
  <2>4. QED
    BY <1>1, <2>1, <2>2, <2>3, OneAnswer
<1>4. QED
  BY <1>2, <1>3 DEF FlushBinding, FlushSession, Answer

LEMMA RecordAnswers ==
    ASSUME AnswerInv, IdInv', NEW c \in Calls, RecordRefusal(c)
    PROVE  AnswerInv'
<1> DEFINE r == chamada[c].resposta
           k == [NoChamada EXCEPT !.resposta = r]
<1>1. r \in {"recusa", "sem_conta"}
  BY DEF AnswerInv, Told, RecordRefusal
<1>2. k \in Chamada /\ k.fase = "livre" /\ k.titular = Nobody /\ k.resposta = r
  BY <1>1, ClosedTyped DEF Resposta
<1>3. /\ chamada' = [chamada EXCEPT ![c] = k] /\ UNCHANGED usuario
      /\ trilha'[c] = "auth.oidc_recusada"
      /\ \A d \in Calls : d # c => trilha'[d] = trilha[d]
  BY DEF RecordRefusal, Close, AnswerInv, IdInv, TInv, TypeOK, tables
<1> HIDE DEF r, k
<1>4. Told(k, trilha'[c]) /\ Keeps(k)
  BY <1>1, <1>2, <1>3 DEF Told, Keeps
<1>5. QED
  BY <1>2, <1>3, <1>4, OneAnswer

\* The table changes: whoever no longer holds the subject is forgotten.
LEMMA WriteAnswers ==
    ASSUME AnswerInv, IdInv', NEW ch \in [Calls -> Chamada],
           chamada' = StillHeld(ch, usuario'),
           \A d \in Calls : Told(ch[d], trilha'[d]) /\ Keeps(ch[d])
    PROVE  AnswerInv'
<1>1. ASSUME NEW d \in Calls PROVE (Told(chamada[d], trilha[d]) /\ Keeps(chamada[d]))'
  <2>1. /\ chamada'[d].fase = ch[d].fase /\ chamada'[d].conta = ch[d].conta
        /\ chamada'[d].sujeito = ch[d].sujeito /\ chamada'[d].resposta = ch[d].resposta
    BY HeldBinding
  <2>2. chamada'[d].titular # Nobody =>
           /\ chamada'[d].titular = ch[d].titular
           /\ usuario'[ch[d].titular].sujeito = ch[d].sujeito
    BY HeldTyped
  <2>3. Told(ch[d], trilha'[d]) /\ Keeps(ch[d])
    OBVIOUS
  <2>4. QED
    BY <2>1, <2>2, <2>3 DEF Told, Keeps
<1>2. QED
  BY <1>1 DEF AnswerInv

LEMMA CommitAnswers ==
    ASSUME AnswerInv, IdInv', NEW c \in Calls, Commit(c)
    PROVE  AnswerInv'
<1> DEFINE k == [NoChamada EXCEPT !.resposta = "sessao"]
           ch == Close(c, "sessao")
<1>1. k \in Chamada /\ k.fase = "livre" /\ k.titular = Nobody /\ k.resposta = "sessao"
  BY ClosedTyped DEF Resposta
<1>2. /\ trilha'[c] = "auth.login"
      /\ \A d \in Calls : d # c => trilha'[d] = trilha[d]
      /\ chamada \in [Calls -> Chamada] /\ chamada' = StillHeld(ch, usuario')
  BY DEF Commit, AnswerInv, IdInv, TInv, TypeOK
<1>3. ch = [chamada EXCEPT ![c] = k]
  BY DEF Close
<1> HIDE DEF k, ch
<1>4. ch \in [Calls -> Chamada] /\ ch[c] = k /\ \A d \in Calls : d # c => ch[d] = chamada[d]
  BY <1>1, <1>2, <1>3
<1>5. ASSUME NEW d \in Calls PROVE Told(ch[d], trilha'[d]) /\ Keeps(ch[d])
  <2>1. CASE d = c
    BY <1>1, <1>2, <1>4, <2>1 DEF Told, Keeps
  <2>2. CASE d # c
    BY <1>2, <1>4, <2>2 DEF AnswerInv
  <2>3. QED
    BY <2>1, <2>2
<1>6. QED
  BY <1>2, <1>4, <1>5, WriteAnswers

LEMMA DeactivateAnswers ==
    ASSUME AnswerInv, IdInv', WriteDeactivate
    PROVE  AnswerInv'
<1>1. /\ chamada \in [Calls -> Chamada] /\ chamada' = StillHeld(chamada, usuario')
      /\ UNCHANGED trilha
  BY DEF WriteDeactivate, AnswerInv, IdInv, TInv, TypeOK
<1>2. \A d \in Calls : Told(chamada[d], trilha'[d]) /\ Keeps(chamada[d])
  BY <1>1 DEF AnswerInv
<1>3. QED
  BY <1>1, <1>2, WriteAnswers

LEMMA StepAnswers == AnswerInv /\ [Next]_vars => AnswerInv'
<1> SUFFICES ASSUME AnswerInv, [Next]_vars PROVE AnswerInv'
  OBVIOUS
<1>1. IdInv'
  BY StepIdentity DEF AnswerInv
<1>2. CASE UNCHANGED vars
  BY <1>1, <1>2, NoAnswer DEF vars
<1>3. CASE Next
  BY <1>1, <1>3, ElsewhereAnswers, DeactivateAnswers, ReceiveAnswers, ExchangeAnswers,
     LookUpAnswers, FlushAnswers, CommitAnswers, RecordAnswers DEF Next
<1>4. QED
  BY <1>2, <1>3

LEMMA AnswerInvariant == Spec => []AnswerInv
  BY InitAnswers, StepAnswers, PTL DEF Spec

\* EmailChangeDoesNotOrphan holds for every directory: the account that holds the
\* subject is looked up first, and nothing else finds it (api/oidc.py finish).
THEOREM BoundAccountFound == Spec => []EmailChangeDoesNotOrphan
<1>1. AnswerInv => EmailChangeDoesNotOrphan
  BY DEF AnswerInv, Keeps, EmailChangeDoesNotOrphan
<1>2. QED
  BY <1>1, AnswerInvariant, PTL

\* AnsweredAsRecorded holds for every interleaving of callbacks: a refusal is
\* recorded by its own transaction, a login by the one that opened the session.
THEOREM EveryAnswerRecorded == Spec => []AnsweredAsRecorded
<1>1. AnswerInv => AnsweredAsRecorded
  BY DEF AnswerInv, Told, AnsweredAsRecorded
<1>2. QED
  BY <1>1, AnswerInvariant, PTL

=============================================================================

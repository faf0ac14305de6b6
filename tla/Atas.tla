-------------------------------- MODULE Atas --------------------------------
(***************************************************************************)
(* Atas de registro de precos (services/atas.py, repositories/ata.py,      *)
(* migration 0003).  A request is a READ COMMITTED transaction; every      *)
(* write to an existing ata takes its row FOR UPDATE first, a registration *)
(* takes no lock and rests on the UNIQUE of numero and of the CNPJ.        *)
(*                                                                         *)
(*   conferido  a registration passed its duplicate check                  *)
(*   travado    the row of the ata is locked and was read                  *)
(*                                                                         *)
(* What the caller asked for is chosen where the code tests it.  An ata's  *)
(* own data is its numero, its company, its term and its value; objeto,    *)
(* orgao, responsavel, data_emissao and the budget date are only carried   *)
(* along.                                                                  *)
(***************************************************************************)
EXTENDS Integers, FiniteSets

CONSTANTS Atas,          \* ids of ata
          Numeros,       \* values of ata.numero
          Cnpjs,         \* companies
          Days,          \* the calendar, as numbers
          Starts,        \* the days a term may start
          Totals,        \* values an ata is registered with
          Values,        \* values of an aditivo
          Window,        \* ata_alert_days
          Requests,      \* transactions open at the same time
          Nobody         \* no number, no company, no ata, no lock holder

ASSUME DaysAssumption == Days \subseteq Nat /\ Starts \subseteq Days
ASSUME ValuesAssumption == Totals \subseteq Nat \ {0} /\ Values \subseteq Nat \ {0}
ASSUME WindowAssumption == Window \in Nat
ASSUME NobodyAssumption == Nobody \notin Atas \union Numeros \union Cnpjs \union Requests

VARIABLES ata,           \* the ata table
          fornecedores,  \* the CNPJs of the fornecedor table
          aditivo,       \* per ata: the sum of its aditivos de valor, whether it has one de prazo
          reajuste,      \* the atas with a reajuste request
          trava,         \* holder of each ata row's lock
          req,           \* the open transactions
          trilha         \* the historico_movimentacao row the latest step committed

vars == <<ata, fornecedores, aditivo, reajuste, trava, req, trilha>>

Status == {"ausente", "rascunho", "vigente", "suspensa", "encerrada", "cancelada"}

Row == [status : Status, numero : Numeros \union {Nobody}, fornecedor : Cnpjs \union {Nobody},
        inicio : Days \union {0}, fim : Days \union {0}, total : Totals \union {0}]

NoRow == [status |-> "ausente", numero |-> Nobody, fornecedor |-> Nobody,
          inicio |-> 0, fim |-> 0, total |-> 0]

\* services/atas.py MOVES: where each move may start and where it ends.
From == [ativar |-> {"rascunho"}, suspender |-> {"vigente"}, retomar |-> {"suspensa"},
         encerrar |-> {"vigente", "suspensa"},
         cancelar |-> {"rascunho", "vigente", "suspensa"}]

\* A destination ck_ata_status does not know (a mutant).
ToMisspelt == [ativar |-> "vigente", suspender |-> "suspenso", retomar |-> "vigente",
               encerrar |-> "encerrada", cancelar |-> "cancelada"]

To == [ativar |-> "vigente", suspender |-> "suspensa", retomar |-> "vigente",
       encerrar |-> "encerrada", cancelar |-> "cancelada"]

Request == [fase : {"livre", "conferido", "travado"}, ata : Atas \union {Nobody},
            visto : Row, soma : Nat, numero : Numeros \union {Nobody},
            cnpj : Cnpjs \union {Nobody}, achou : BOOLEAN]

Idle == [fase |-> "livre", ata |-> Nobody, visto |-> NoRow, soma |-> 0,
         numero |-> Nobody, cnpj |-> Nobody, achou |-> FALSE]

AuditRow == [acao : DOMAIN From \union {"criar", "editar", "aditivo", "reajuste", "nada"},
             ata : Atas \union {Nobody}, anterior : Row, contratado : Nat]

NoAudit == [acao |-> "nada", ata |-> Nobody, anterior |-> NoRow, contratado |-> 0]

TypeOK ==
    /\ ata \in [Atas -> Row]
    /\ fornecedores \subseteq Cnpjs
    /\ aditivo \in [Atas -> [soma : Nat, prazo : BOOLEAN]]
    /\ reajuste \subseteq Atas
    /\ trava \in [Atas -> Requests \union {Nobody}]
    /\ req \in [Requests -> Request]
    /\ trilha \in AuditRow

Init ==
    /\ ata = [a \in Atas |-> NoRow]
    /\ fornecedores = {}
    /\ aditivo = [a \in Atas |-> [soma |-> 0, prazo |-> FALSE]]
    /\ reajuste = {}
    /\ trava = [a \in Atas |-> Nobody]
    /\ req = [r \in Requests |-> Idle]
    /\ trilha = NoAudit

-----------------------------------------------------------------------------
Taken(n) == \E a \in Atas : ata[a].numero = n

Open(r, fields) == req' = [req EXCEPT ![r] = fields]

Close(r) ==
    /\ req' = [req EXCEPT ![r] = Idle]
    /\ trava' = [a \in Atas |-> IF trava[a] = r THEN Nobody ELSE trava[a]]

Audit(acao, a, anterior) ==
    trilha' = [acao |-> acao, ata |-> a, anterior |-> anterior, contratado |-> 0]

\* The row of an aditivo de valor: the value contracted so far.
AuditValor(a, anterior, contratado) ==
    trilha' = [acao |-> "aditivo", ata |-> a, anterior |-> anterior, contratado |-> contratado]

Tables == <<ata, fornecedores, aditivo, reajuste>>

\* vigencia_fim after vigencia_inicio: _require_interval and ck_ata_vigencia.
Interval(inicio, fim) == inicio < fim

-----------------------------------------------------------------------------
(* register.                                                                 *)

CheckNumber(r) ==
    \E n \in Numeros, c \in Cnpjs :
        /\ req[r].fase = "livre"
        /\ ~Taken(n)
        /\ Open(r, [Idle EXCEPT !.fase = "conferido", !.numero = n, !.cnpj = c,
                                !.achou = c \in fornecedores])
        /\ trilha' = NoAudit
        /\ UNCHANGED <<Tables, trava>>

\* fornecedor.cnpj is UNIQUE: creating one that somebody else just committed fails.
SupplierLost(r) == ~req[r].achou /\ req[r].cnpj \in fornecedores

CommitRegister(r) ==
    \E a \in Atas, inicio \in Starts, fim \in Days, total \in Totals :
        /\ req[r].fase = "conferido"
        /\ ata[a].status = "ausente"
        /\ Interval(inicio, fim)
        /\ ~SupplierLost(r)
        /\ ~Taken(req[r].numero)
        /\ ata' = [ata EXCEPT ![a] = [status |-> "rascunho", numero |-> req[r].numero,
                                      fornecedor |-> req[r].cnpj, inicio |-> inicio,
                                      fim |-> fim, total |-> total]]
        /\ fornecedores' = fornecedores \union {req[r].cnpj}
        /\ Audit("criar", a, NoRow)
        /\ Close(r)
        /\ UNCHANGED <<aditivo, reajuste>>

-----------------------------------------------------------------------------
(* Every other write: by_id_for_update, then the decision on what was read.  *)

\* The row read without waiting for its lock (a mutant).
ReadAta(r) ==
    \E a \in Atas :
        /\ req[r].fase = "livre"
        /\ ata[a].status # "ausente"
        /\ Open(r, [Idle EXCEPT !.fase = "travado", !.ata = a, !.visto = ata[a],
                                !.soma = aditivo[a].soma])
        /\ trilha' = NoAudit
        /\ UNCHANGED <<Tables, trava>>

LockAta(r) ==
    \E a \in Atas :
        /\ req[r].fase = "livre"
        /\ ata[a].status # "ausente"
        /\ trava[a] = Nobody
        /\ trava' = [trava EXCEPT ![a] = r]
        /\ Open(r, [Idle EXCEPT !.fase = "travado", !.ata = a, !.visto = ata[a],
                                !.soma = aditivo[a].soma])
        /\ trilha' = NoAudit
        /\ UNCHANGED Tables

\* No company was looked up since: only an edit does that.
Locked(r) == req[r].fase = "travado" /\ req[r].cnpj = Nobody

Move(r) ==
    \E move \in DOMAIN From :
        /\ Locked(r)
        /\ req[r].visto.status \in From[move]
        /\ ata' = [ata EXCEPT ![req[r].ata].status = To[move]]
        /\ Audit(move, req[r].ata, req[r].visto)
        /\ Close(r)
        /\ UNCHANGED <<fornecedores, aditivo, reajuste>>

\* edit that names a company: _find_or_create_fornecedor, under the lock.
FindSupplier(r) ==
    \E c \in Cnpjs :
        /\ Locked(r)
        /\ Open(r, [req[r] EXCEPT !.cnpj = c, !.achou = c \in fornecedores])
        /\ trilha' = NoAudit
        /\ UNCHANGED <<Tables, trava>>

\* The company an edit leaves the ata with.
Supplier(r, atual) == IF req[r].cnpj = Nobody THEN atual ELSE req[r].cnpj

\* edit of a draft. Only the columns whose value changes are written.
EditDraft(r) ==
    \E n \in Numeros, inicio \in Starts, fim \in Days, total \in Totals :
        LET visto == req[r].visto
            novo(antes, agora, linha) == IF agora = antes THEN linha ELSE agora
            linha == ata[req[r].ata]
            fornecedor == Supplier(r, visto.fornecedor)
        IN /\ req[r].fase = "travado"
           /\ visto.status = "rascunho"
           /\ ~SupplierLost(r)
           /\ Interval(inicio, fim)
           /\ n # visto.numero => ~Taken(n)
           /\ ata' = [ata EXCEPT ![req[r].ata] =
                  [status |-> linha.status,
                   numero |-> novo(visto.numero, n, linha.numero),
                   fornecedor |-> novo(visto.fornecedor, fornecedor, linha.fornecedor),
                   inicio |-> novo(visto.inicio, inicio, linha.inicio),
                   fim    |-> novo(visto.fim, fim, linha.fim),
                   total  |-> novo(visto.total, total, linha.total)]]
           /\ fornecedores' = fornecedores \union {fornecedor}
           /\ Audit("editar", req[r].ata, visto)
           /\ Close(r)
           /\ UNCHANGED <<aditivo, reajuste>>

\* edit of objeto, orgao or responsavel, in any status: a company it names is
\* the ata's own.
EditCarried(r) ==
    /\ req[r].fase = "travado"
    /\ Supplier(r, req[r].visto.fornecedor) = req[r].visto.fornecedor
    /\ Audit("editar", req[r].ata, req[r].visto)
    /\ Close(r)
    /\ UNCHANGED Tables

\* The new aditivo compared on its own, not with the ones before it (a mutant).
EachWithinCeiling(soma, v, total) == 4 * v <= total

\* already + valor_acrescimo > total_value * 0.25 is refused.
WithinCeiling(soma, v, total) == 4 * (soma + v) <= total

AddValor(r) ==
    \E v \in Values :
        /\ Locked(r)
        /\ req[r].visto.status = "vigente"
        /\ WithinCeiling(req[r].soma, v, req[r].visto.total)
        /\ aditivo' = [aditivo EXCEPT ![req[r].ata].soma = aditivo[req[r].ata].soma + v]
        /\ AuditValor(req[r].ata, req[r].visto, req[r].visto.total + req[r].soma)
        /\ Close(r)
        /\ UNCHANGED <<ata, fornecedores, reajuste>>

AddPrazo(r) ==
    \E d \in Days :
        /\ Locked(r)
        /\ req[r].visto.status = "vigente"
        /\ d > req[r].visto.fim
        /\ ata' = [ata EXCEPT ![req[r].ata].fim = d]
        /\ aditivo' = [aditivo EXCEPT ![req[r].ata].prazo = TRUE]
        /\ Audit("aditivo", req[r].ata, req[r].visto)
        /\ Close(r)
        /\ UNCHANGED <<fornecedores, reajuste>>

AddReajuste(r) ==
    /\ Locked(r)
    /\ req[r].visto.status = "vigente"
    /\ reajuste' = reajuste \union {req[r].ata}
    /\ Audit("reajuste", req[r].ata, NoRow)
    /\ Close(r)
    /\ UNCHANGED <<ata, fornecedores, aditivo>>

\* A move, an edit or an aditivo the rules refuse, a registration that lost a
\* race, or a failure anywhere: the transaction rolls back.
RollBack(r) ==
    /\ req[r].fase # "livre"
    /\ Close(r)
    /\ trilha' = NoAudit
    /\ UNCHANGED Tables

Next == \E r \in Requests :
    \/ CheckNumber(r) \/ CommitRegister(r) \/ LockAta(r)
    \/ Move(r) \/ FindSupplier(r) \/ EditDraft(r) \/ EditCarried(r)
    \/ AddValor(r) \/ AddPrazo(r) \/ AddReajuste(r)
    \/ RollBack(r)

Spec == Init /\ [][Next]_vars

-----------------------------------------------------------------------------
(* What is derived on read.                                                  *)

Situacao(fim, hoje) ==
    IF fim - hoje < 0 THEN "vencida"
    ELSE IF fim - hoje <= Window THEN "a_vencer"
    ELSE "vigente"

\* A filter for what is not vencida that forgets the lower end of a_vencer (a mutant).
OverlappingFilter(situacao, fim, hoje) ==
    /\ situacao = "vencida"  => fim <= hoje - 1
    /\ situacao = "a_vencer" => fim <= hoje + Window
    /\ situacao = "vigente"  => fim >= hoje + Window + 1

\* list_atas turns the filter into a range of vigencia_fim for the query.
InFilter(situacao, fim, hoje) ==
    /\ situacao = "vencida"  => fim <= hoje - 1
    /\ situacao = "a_vencer" => hoje <= fim /\ fim <= hoje + Window
    /\ situacao = "vigente"  => fim >= hoje + Window + 1

RenewalAlert(hoje) ==
    {a \in Atas : ata[a].status = "vigente" /\ ata[a].fim <= hoje + Window /\ ~aditivo[a].prazo}

-----------------------------------------------------------------------------
(* Properties.                                                               *)

Contrato == [a \in Atas |-> [status |-> ata[a].status, fornecedor |-> ata[a].fornecedor,
                             total |-> ata[a].total, soma |-> aditivo[a].soma,
                             fim |-> ata[a].fim]]

Lifecycle == INSTANCE AtaLifecycle WITH contrato <- Contrato

\* However registrations, edits, moves and aditivos of the same atas interleave,
\* each committed ata lives the life AtaLifecycle promises: the moves of MOVES and
\* no way out of encerrada or cancelada, no change of the company or the contracted
\* value after the draft, a term that only grows and aditivos within the ceiling
\* (AC-0002-13, -14, -22, -24).
ImplementsLifecycle == Lifecycle!Spec

\* The audit row of a change holds the values the change replaced, not values
\* some other request had replaced already, and that of an aditivo de valor the
\* value contracted with every aditivo before it (AC-0002-16, edit, move and
\* add_aditivo).
AuditTellsTheBefore ==
    [][/\ trilha'.acao \notin {"nada", "criar", "reajuste"}
              => trilha'.anterior = ata[trilha'.ata]
       /\ \A a \in Atas : aditivo'[a].soma # aditivo[a].soma
              => /\ trilha'.ata = a
                 /\ trilha'.contratado = ata[a].total + aditivo[a].soma]_vars

\* The filter of the list and the situacao shown in it never contradict each
\* other, and every vigente ata about to end or past its end that was never
\* extended is in the renewal alert (AC-0002-09, -15, -23).
ViewsAgree ==
    \A a \in Atas, hoje \in Days :
        /\ \A s \in {"vencida", "a_vencer", "vigente"} :
              ata[a].status # "ausente" =>
                  (InFilter(s, ata[a].fim, hoje) <=> Situacao(ata[a].fim, hoje) = s)
        /\ ata[a].status = "vigente" /\ ~aditivo[a].prazo =>
              (a \in RenewalAlert(hoje) <=> Situacao(ata[a].fim, hoje) # "vigente")

=============================================================================

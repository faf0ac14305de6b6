----------------------------- MODULE AtasProofs -----------------------------
(***************************************************************************)
(* The safety theorems about Atas, for any number of atas, companies and   *)
(* open transactions, any calendar and any amounts, and that Atas          *)
(* implements AtaLifecycle; then those about Calendar, for every date of   *)
(* any range of years and every instant.                                   *)
(***************************************************************************)
EXTENDS Calendar, WellFoundedInduction, TLAPS

USE DaysAssumption, ValuesAssumption, WindowAssumption, NobodyAssumption

-----------------------------------------------------------------------------
(* The invariant.                                                            *)

\* A transaction that took an ata's row still has it, and still knows what is in
\* it; one that registers knows what it registers.
Knows(r, k, t, ata_, aditivo_) ==
    /\ k.fase = "travado" =>
          /\ k.ata \in Atas /\ t[k.ata] = r
          /\ ata_[k.ata].status # "ausente"
          /\ k.visto = ata_[k.ata] /\ k.soma = aditivo_[k.ata].soma
    /\ k.fase = "conferido" => k.numero \in Numeros /\ k.cnpj \in Cnpjs

\* Nothing is added to the value of an ata before it is activated, and each has
\* its company.
RowsSound ==
    \A a \in Atas : /\ ata[a].status \in {"ausente", "rascunho"} => aditivo[a].soma = 0
                    /\ ata[a].status # "ausente" => ata[a].fornecedor \in Cnpjs

IInv ==
    /\ TypeOK
    /\ \A r \in Requests : Knows(r, req[r], trava, ata, aditivo)
    /\ RowsSound

TablesTyped ==
    /\ ata \in [Atas -> Row]
    /\ fornecedores \subseteq Cnpjs
    /\ aditivo \in [Atas -> [soma : Nat, prazo : BOOLEAN]]
    /\ reajuste \subseteq Atas

LEMMA Before ==
    ASSUME IInv, NEW r \in Requests
    PROVE  /\ TablesTyped /\ trava \in [Atas -> Requests \union {Nobody}]
           /\ req \in [Requests -> Request] /\ req[r] \in Request
           /\ Knows(r, req[r], trava, ata, aditivo)
  BY DEF IInv, TypeOK, TablesTyped

LEMMA NullsTyped == NoRow \in Row /\ Idle \in Request /\ NoAudit \in AuditRow
  BY DEF NoRow, Row, Status, Idle, Request, NoAudit, AuditRow

\* The end of a transaction keeps what the others know, if it wrote no ata of theirs.
LEMMA CloseKeeps ==
    ASSUME IInv, NEW r \in Requests, Close(r),
           TablesTyped', trilha' \in AuditRow, RowsSound',
           \A s \in Requests \ {r} : req[s].fase = "travado" =>
               ata'[req[s].ata] = ata[req[s].ata] /\ aditivo'[req[s].ata] = aditivo[req[s].ata]
    PROVE  IInv'
<1>1. req' = [req EXCEPT ![r] = Idle]
      /\ trava' = [a \in Atas |-> IF trava[a] = r THEN Nobody ELSE trava[a]]
  BY DEF Close
<1>2. TypeOK'
  <2>1. req' \in [Requests -> Request]
    BY Before, NullsTyped, <1>1
  <2>2. trava' \in [Atas -> Requests \union {Nobody}]
    BY Before, <1>1
  <2>3. QED
    BY <2>1, <2>2 DEF TypeOK, TablesTyped
<1>3. ASSUME NEW s \in Requests PROVE Knows(s, req'[s], trava', ata', aditivo')
  <2>1. CASE s = r
    BY Before, <1>1, <2>1 DEF Knows, Idle
  <2>2. CASE s # r
    <3>1. req'[s] = req[s] /\ Knows(s, req[s], trava, ata, aditivo)
      BY Before, <1>1, <2>2
    <3>2. QED
      BY <1>1, <2>2, <3>1 DEF Knows
  <2>3. QED
    BY <2>1, <2>2
<1>4. QED
  BY <1>2, <1>3 DEF IInv

\* Two transactions never hold one ata.
LEMMA HeldByOne ==
    ASSUME IInv, NEW r \in Requests, req[r].fase = "travado",
           NEW s \in Requests \ {r}, req[s].fase = "travado"
    PROVE  req[s].ata # req[r].ata
  BY Before DEF Knows

\* A write to the ata a transaction holds, and what it has to show.
LEMMA HolderKeeps ==
    ASSUME IInv, NEW r \in Requests, req[r].fase = "travado", Close(r),
           TablesTyped', trilha' \in AuditRow,
           \A b \in Atas \ {req[r].ata} : ata'[b] = ata[b] /\ aditivo'[b] = aditivo[b],
           ata'[req[r].ata].status # "ausente", ata'[req[r].ata].fornecedor \in Cnpjs,
           ata'[req[r].ata].status = "rascunho" => aditivo'[req[r].ata].soma = 0
    PROVE  IInv'
<1>1. RowsSound'
  BY DEF IInv, RowsSound
<1>2. \A s \in Requests \ {r} : req[s].fase = "travado" =>
          ata'[req[s].ata] = ata[req[s].ata] /\ aditivo'[req[s].ata] = aditivo[req[s].ata]
  BY Before, HeldByOne DEF Knows
<1>3. QED
  BY <1>1, <1>2, CloseKeeps

\* What a holder sees is what is there.
LEMMA HolderSees ==
    ASSUME IInv, NEW r \in Requests, req[r].fase = "travado"
    PROVE  /\ req[r].ata \in Atas /\ req[r].visto = ata[req[r].ata]
           /\ ata[req[r].ata] \in Row /\ ata[req[r].ata].status # "ausente"
           /\ ata[req[r].ata].fornecedor \in Cnpjs
           /\ req[r].soma = aditivo[req[r].ata].soma /\ aditivo[req[r].ata].soma \in Nat
           /\ aditivo[req[r].ata].prazo \in BOOLEAN
           /\ ata[req[r].ata].status = "rascunho" => aditivo[req[r].ata].soma = 0
<1>1. req[r].ata \in Atas /\ req[r].visto = ata[req[r].ata]
      /\ ata[req[r].ata].status # "ausente" /\ req[r].soma = aditivo[req[r].ata].soma
  BY Before DEF Knows
<1>2. ata[req[r].ata] \in Row /\ aditivo[req[r].ata] \in [soma : Nat, prazo : BOOLEAN]
  BY Before, <1>1 DEF TablesTyped
<1>3. QED
  BY <1>1, <1>2 DEF IInv, RowsSound

-----------------------------------------------------------------------------
(* Every action keeps the invariant.                                         *)

\* A transaction with a field rewritten is a transaction.
LEMMA Rewritten ==
    ASSUME NEW p \in Request
    PROVE  /\ \A fase \in {"livre", "conferido", "travado"} : [p EXCEPT !.fase = fase] \in Request
           /\ \A a \in Atas : [p EXCEPT !.ata = a] \in Request
           /\ \A row \in Row : [p EXCEPT !.visto = row] \in Request
           /\ \A soma \in Nat : [p EXCEPT !.soma = soma] \in Request
           /\ \A n \in Numeros : [p EXCEPT !.numero = n] \in Request
           /\ \A c \in Cnpjs : [p EXCEPT !.cnpj = c] \in Request
           /\ \A b \in BOOLEAN : [p EXCEPT !.achou = b] \in Request
  BY DEF Request

LEMMA CheckNumberKeeps ==
    ASSUME IInv, NEW r \in Requests, CheckNumber(r)
    PROVE  IInv'
<1>1. PICK n \in Numeros, c \in Cnpjs :
         Open(r, [Idle EXCEPT !.fase = "conferido", !.numero = n, !.cnpj = c,
                              !.achou = c \in fornecedores])
  BY DEF CheckNumber
<1> DEFINE k == [Idle EXCEPT !.fase = "conferido", !.numero = n, !.cnpj = c,
                             !.achou = c \in fornecedores]
<1> DEFINE k1 == [Idle EXCEPT !.fase = "conferido"]
           k2 == [k1 EXCEPT !.numero = n]
           k3 == [k2 EXCEPT !.cnpj = c]
<1>2. k \in Request
  <2>1. k1 \in Request
    BY NullsTyped, Rewritten
  <2>2. k2 \in Request
    <3> HIDE DEF k1
    <3>1. QED
      BY <2>1, Rewritten
  <2>3. k3 \in Request
    <3> HIDE DEF k2
    <3>1. QED
      BY <2>2, Rewritten
  <2>4. k = [k3 EXCEPT !.achou = c \in fornecedores] /\ (c \in fornecedores) \in BOOLEAN
    OBVIOUS
  <2> HIDE DEF k, k3
  <2>5. QED
    BY <2>3, <2>4, Rewritten
<1>4. k.fase = "conferido" /\ k.numero = n /\ k.cnpj = c
  BY DEF Idle
<1> HIDE DEF k
<1>5. req' = [req EXCEPT ![r] = k] /\ trilha' = NoAudit
      /\ UNCHANGED <<ata, fornecedores, aditivo, reajuste, trava>>
  BY <1>1 DEF CheckNumber, Open, Tables, k
<1>6. TypeOK'
  BY Before, NullsTyped, <1>2, <1>5 DEF TypeOK, TablesTyped
<1>7. ASSUME NEW s \in Requests PROVE Knows(s, req'[s], trava', ata', aditivo')
  <2>1. CASE s = r
    BY Before, <1>4, <1>5, <2>1 DEF Knows
  <2>2. CASE s # r
    BY Before, <1>5, <2>2
  <2>3. QED
    BY <2>1, <2>2
<1>8. QED
  BY <1>5, <1>6, <1>7 DEF IInv, RowsSound

LEMMA LockAtaKeeps ==
    ASSUME IInv, NEW r \in Requests, LockAta(r)
    PROVE  IInv'
<1>1. PICK a \in Atas :
         /\ ata[a].status # "ausente"
         /\ trava[a] = Nobody
         /\ trava' = [trava EXCEPT ![a] = r]
         /\ Open(r, [Idle EXCEPT !.fase = "travado", !.ata = a, !.visto = ata[a],
                                 !.soma = aditivo[a].soma])
         /\ trilha' = NoAudit
         /\ UNCHANGED Tables
  BY DEF LockAta
<1> DEFINE k == [Idle EXCEPT !.fase = "travado", !.ata = a, !.visto = ata[a],
                             !.soma = aditivo[a].soma]
<1>2. ata[a] \in Row /\ aditivo[a].soma \in Nat
  BY Before DEF TablesTyped
<1> DEFINE k1 == [Idle EXCEPT !.fase = "travado"]
           k2 == [k1 EXCEPT !.ata = a]
           k3 == [k2 EXCEPT !.visto = ata[a]]
<1>3. k \in Request
  <2>1. k1 \in Request
    BY NullsTyped, Rewritten
  <2>2. k2 \in Request
    <3> HIDE DEF k1
    <3>1. QED
      BY <2>1, Rewritten
  <2>3. k3 \in Request
    <3> HIDE DEF k2
    <3>1. QED
      BY <1>2, <2>2, Rewritten
  <2>4. k = [k3 EXCEPT !.soma = aditivo[a].soma]
    OBVIOUS
  <2> HIDE DEF k, k3
  <2>5. QED
    BY <1>2, <2>3, <2>4, Rewritten
<1>4. k.fase = "travado" /\ k.ata = a /\ k.visto = ata[a] /\ k.soma = aditivo[a].soma
  BY DEF Idle
<1> HIDE DEF k
<1>5. req' = [req EXCEPT ![r] = k] /\ trilha' = NoAudit
      /\ UNCHANGED <<ata, fornecedores, aditivo, reajuste>>
  BY <1>1 DEF Open, Tables, k
<1>6. TypeOK'
  BY Before, NullsTyped, <1>1, <1>3, <1>5 DEF TypeOK, TablesTyped
<1>7. ASSUME NEW s \in Requests PROVE Knows(s, req'[s], trava', ata', aditivo')
  <2>1. CASE s = r
    BY Before, <1>1, <1>4, <1>5, <2>1 DEF Knows
  <2>2. CASE s # r
    <3>1. req'[s] = req[s] /\ Knows(s, req[s], trava, ata, aditivo)
      BY Before, <1>5, <2>2
    <3>2. s # Nobody
      OBVIOUS
    <3>3. QED
      BY Before, <1>1, <1>5, <3>1, <3>2 DEF Knows
  <2>3. QED
    BY <2>1, <2>2
<1>8. QED
  BY <1>5, <1>6, <1>7 DEF IInv, RowsSound

LEMMA FindSupplierKeeps ==
    ASSUME IInv, NEW r \in Requests, FindSupplier(r)
    PROVE  IInv'
<1>1. PICK c \in Cnpjs : Open(r, [req[r] EXCEPT !.cnpj = c, !.achou = c \in fornecedores])
  BY DEF FindSupplier
<1> DEFINE k1 == [req[r] EXCEPT !.cnpj = c]
           k == [k1 EXCEPT !.achou = c \in fornecedores]
<1>2. k1 \in Request
  BY Before, Rewritten
<1>3. k \in Request
  <2>1. (c \in fornecedores) \in BOOLEAN
    OBVIOUS
  <2> HIDE DEF k1
  <2>2. QED
    BY <1>2, <2>1, Rewritten
<1>4. req[r] \in Request /\ req[r].fase = "travado"
  BY Before DEF FindSupplier, Locked
<1>5. /\ k.fase = "travado" /\ k.ata = req[r].ata
      /\ k.visto = req[r].visto /\ k.soma = req[r].soma
  BY <1>4 DEF Request
<1>6. req' = [req EXCEPT ![r] = k]
  BY <1>1 DEF Open
<1> HIDE DEF k, k1
<1>7. trilha' = NoAudit /\ UNCHANGED <<ata, fornecedores, aditivo, reajuste, trava>>
  BY DEF FindSupplier, Tables
<1>8. TypeOK'
  BY Before, NullsTyped, <1>3, <1>6, <1>7 DEF TypeOK, TablesTyped
<1>9. ASSUME NEW s \in Requests PROVE Knows(s, req'[s], trava', ata', aditivo')
  <2>1. CASE s = r
    BY Before, <1>4, <1>5, <1>6, <1>7, <2>1 DEF Knows
  <2>2. CASE s # r
    BY Before, <1>6, <1>7, <2>2
  <2>3. QED
    BY <2>1, <2>2
<1>10. QED
  BY <1>7, <1>8, <1>9 DEF IInv, RowsSound

LEMMA CommitRegisterKeeps ==
    ASSUME IInv, NEW r \in Requests, CommitRegister(r)
    PROVE  IInv'
<1>1. PICK a \in Atas, inicio \in Starts, fim \in Days, total \in Totals :
         /\ req[r].fase = "conferido"
         /\ ata[a].status = "ausente"
         /\ ata' = [ata EXCEPT ![a] = [status |-> "rascunho", numero |-> req[r].numero,
                                       fornecedor |-> req[r].cnpj, inicio |-> inicio,
                                       fim |-> fim, total |-> total]]
         /\ fornecedores' = fornecedores \union {req[r].cnpj}
         /\ Audit("criar", a, NoRow)
         /\ Close(r)
         /\ UNCHANGED <<aditivo, reajuste>>
  BY DEF CommitRegister
<1>2. req[r].numero \in Numeros /\ req[r].cnpj \in Cnpjs
  BY Before, <1>1 DEF Knows
<1>3. TablesTyped'
  BY Before, <1>1, <1>2 DEF TablesTyped, Row, Status
<1>4. trilha' \in AuditRow
  BY NullsTyped, <1>1 DEF Audit, AuditRow
<1>5. RowsSound'
  <2>1. ata'[a].status = "rascunho" /\ ata'[a].fornecedor \in Cnpjs /\ aditivo'[a].soma = 0
    BY Before, <1>1, <1>2 DEF TablesTyped, IInv, RowsSound
  <2>2. \A b \in Atas \ {a} : ata'[b] = ata[b] /\ aditivo'[b] = aditivo[b]
    BY Before, <1>1 DEF TablesTyped
  <2>3. QED
    BY <2>1, <2>2 DEF IInv, RowsSound
<1>6. \A s \in Requests : req[s].fase = "travado" => ata'[req[s].ata] = ata[req[s].ata]
  BY Before, <1>1 DEF TablesTyped, Knows
<1>7. QED
  BY <1>1, <1>3, <1>4, <1>5, <1>6, CloseKeeps

\* The moves of MOVES, each with where it ends.
LEMMA MovesAreKnown ==
    /\ DOMAIN From = {"ativar", "suspender", "retomar", "encerrar", "cancelar"}
    /\ From["ativar"] = {"rascunho"} /\ To["ativar"] = "vigente"
    /\ From["suspender"] = {"vigente"} /\ To["suspender"] = "suspensa"
    /\ From["retomar"] = {"suspensa"} /\ To["retomar"] = "vigente"
    /\ From["encerrar"] = {"vigente", "suspensa"} /\ To["encerrar"] = "encerrada"
    /\ From["cancelar"] = {"rascunho", "vigente", "suspensa"} /\ To["cancelar"] = "cancelada"
  BY DEF From, To

LEMMA HolderAudits ==
    ASSUME IInv, NEW r \in Requests, req[r].fase = "travado",
           NEW acao \in DOMAIN From \union {"editar", "aditivo"}, Audit(acao, req[r].ata, req[r].visto)
    PROVE  trilha' \in AuditRow
  BY HolderSees DEF Audit, AuditRow

LEMMA MoveKeeps ==
    ASSUME IInv, NEW r \in Requests, Move(r)
    PROVE  IInv'
<1> DEFINE a == req[r].ata
<1>1. PICK move \in DOMAIN From :
         /\ req[r].fase = "travado"
         /\ ata' = [ata EXCEPT ![req[r].ata].status = To[move]]
         /\ Audit(move, req[r].ata, req[r].visto)
         /\ Close(r)
         /\ UNCHANGED <<fornecedores, aditivo, reajuste>>
  BY DEF Move, Locked
<1> DEFINE row == [ata[a] EXCEPT !.status = To[move]]
<1>2. To[move] \in Status \ {"ausente", "rascunho"}
  BY MovesAreKnown DEF Status
<1>3. row \in Row /\ row.status = To[move] /\ row.fornecedor = ata[a].fornecedor
  BY HolderSees, <1>1, <1>2 DEF Row
<1>4. ata' = [ata EXCEPT ![a] = row]
  BY HolderSees, <1>1
<1>5. trilha' \in AuditRow
  BY HolderAudits, <1>1
<1> HIDE DEF row
<1>6. /\ TablesTyped' /\ ata'[a] = row
      /\ \A b \in Atas \ {a} : ata'[b] = ata[b] /\ aditivo'[b] = aditivo[b]
  BY Before, HolderSees, <1>1, <1>3, <1>4 DEF TablesTyped
<1>7. QED
  BY HolderKeeps, HolderSees, <1>1, <1>2, <1>3, <1>5, <1>6

Draft == [status : {"rascunho"}, numero : Numeros, fornecedor : Cnpjs,
          inicio : Days, fim : Days, total : Totals]

\* An edited draft is exactly what was asked for: nobody else can have written it.
LEMMA EditedDraft ==
    ASSUME IInv, NEW r \in Requests, EditDraft(r)
    PROVE  /\ req[r].fase = "travado" /\ ata[req[r].ata].status = "rascunho"
           /\ \E row \in Draft : /\ ata' = [ata EXCEPT ![req[r].ata] = row]
                                 /\ fornecedores' = fornecedores \union {row.fornecedor}
<1> DEFINE old == ata[req[r].ata]
           novo(antes, agora, linha) == IF agora = antes THEN linha ELSE agora
           f == Supplier(r, req[r].visto.fornecedor)
<1>1. req[r].fase = "travado" /\ req[r].visto.status = "rascunho"
  BY DEF EditDraft
<1>2. req[r].visto = old /\ old.status = "rascunho"
  BY HolderSees, <1>1
<1> f \in Cnpjs
  <2>1. req[r].cnpj \in Cnpjs \union {Nobody} /\ old.fornecedor \in Cnpjs
    BY Before, HolderSees, <1>1 DEF Request
  <2>2. QED
    BY <1>2, <2>1 DEF Supplier
<1>3. PICK n \in Numeros, inicio \in Starts, fim \in Days, total \in Totals :
         /\ req[r].fase = "travado"
         /\ req[r].visto.status = "rascunho"
         /\ ~SupplierLost(r)
         /\ Interval(inicio, fim)
         /\ n # req[r].visto.numero => ~Taken(n)
         /\ ata' = [ata EXCEPT ![req[r].ata] =
                [status |-> old.status,
                 numero |-> novo(req[r].visto.numero, n, old.numero),
                 fornecedor |-> novo(req[r].visto.fornecedor, f, old.fornecedor),
                 inicio |-> novo(req[r].visto.inicio, inicio, old.inicio),
                 fim    |-> novo(req[r].visto.fim, fim, old.fim),
                 total  |-> novo(req[r].visto.total, total, old.total)]]
         /\ fornecedores' = fornecedores \union {f}
         /\ Audit("editar", req[r].ata, req[r].visto)
         /\ Close(r)
         /\ UNCHANGED <<aditivo, reajuste>>
  BY DEF EditDraft
<1> DEFINE row == [status |-> "rascunho", numero |-> n, fornecedor |-> f,
                   inicio |-> inicio, fim |-> fim, total |-> total]
<1>4. /\ old.status = "rascunho"
      /\ novo(req[r].visto.numero, n, old.numero) = n
      /\ novo(req[r].visto.fornecedor, f, old.fornecedor) = f
      /\ novo(req[r].visto.inicio, inicio, old.inicio) = inicio
      /\ novo(req[r].visto.fim, fim, old.fim) = fim
      /\ novo(req[r].visto.total, total, old.total) = total
  BY <1>2
<1> HIDE DEF novo, old, f
<1>5. ata' = [ata EXCEPT ![req[r].ata] = row]
  BY <1>3, <1>4
<1>6. row \in Draft /\ row.fornecedor = f
  BY DEF Draft
<1> HIDE DEF row
<1>7. QED
  BY <1>1, <1>2, <1>3, <1>5, <1>6 DEF old

LEMMA EditDraftKeeps ==
    ASSUME IInv, NEW r \in Requests, EditDraft(r)
    PROVE  IInv'
<1> DEFINE a == req[r].ata
<1>1. PICK row \in Draft : /\ ata' = [ata EXCEPT ![a] = row]
                           /\ fornecedores' = fornecedores \union {row.fornecedor}
  BY EditedDraft
<1>2. /\ req[r].fase = "travado" /\ ata[a].status = "rascunho"
      /\ Audit("editar", a, req[r].visto) /\ Close(r)
      /\ UNCHANGED <<aditivo, reajuste>>
  BY EditedDraft DEF EditDraft
<1>3. row \in Row /\ row.status = "rascunho" /\ row.fornecedor \in Cnpjs
  BY DEF Draft, Row, Status
<1>4. trilha' \in AuditRow
  BY HolderAudits, <1>2
<1>5. /\ TablesTyped' /\ ata'[a] = row
      /\ \A b \in Atas \ {a} : ata'[b] = ata[b] /\ aditivo'[b] = aditivo[b]
  BY Before, HolderSees, <1>1, <1>2, <1>3 DEF TablesTyped
<1>6. aditivo'[a].soma = 0
  BY HolderSees, <1>2
<1>7. QED
  BY HolderKeeps, <1>2, <1>3, <1>4, <1>5, <1>6

\* A transaction that changes neither an ata nor the sum of its aditivos.
LEMMA LeavesAtasKeeps ==
    ASSUME IInv, NEW r \in Requests, Close(r), trilha' \in AuditRow,
           UNCHANGED <<ata, fornecedores, aditivo>>, reajuste' \subseteq Atas
    PROVE  IInv'
<1>1. TablesTyped' /\ RowsSound'
  BY Before DEF TablesTyped, IInv, RowsSound
<1>2. QED
  BY <1>1, CloseKeeps

LEMMA EditCarriedKeeps ==
    ASSUME IInv, NEW r \in Requests, EditCarried(r)
    PROVE  IInv'
<1>1. trilha' \in AuditRow
  BY HolderAudits DEF EditCarried
<1>2. QED
  BY Before, <1>1, LeavesAtasKeeps DEF EditCarried, Tables, TablesTyped

LEMMA AddReajusteKeeps ==
    ASSUME IInv, NEW r \in Requests, AddReajuste(r)
    PROVE  IInv'
<1>1. req[r].ata \in Atas
  BY HolderSees DEF AddReajuste, Locked
<1>2. trilha' \in AuditRow
  BY NullsTyped, <1>1 DEF AddReajuste, Audit, AuditRow
<1>3. QED
  BY Before, <1>1, <1>2, LeavesAtasKeeps DEF AddReajuste, TablesTyped

LEMMA RollBackKeeps ==
    ASSUME IInv, NEW r \in Requests, RollBack(r)
    PROVE  IInv'
  BY Before, NullsTyped, LeavesAtasKeeps DEF RollBack, Tables, TablesTyped

LEMMA AddValorKeeps ==
    ASSUME IInv, NEW r \in Requests, AddValor(r)
    PROVE  IInv'
<1> DEFINE a == req[r].ata
<1>1. PICK v \in Values :
         /\ req[r].fase = "travado"
         /\ req[r].visto.status = "vigente"
         /\ aditivo' = [aditivo EXCEPT ![a].soma = aditivo[a].soma + v]
         /\ AuditValor(a, req[r].visto, req[r].visto.total + req[r].soma)
         /\ Close(r)
         /\ UNCHANGED <<ata, fornecedores, reajuste>>
  BY DEF AddValor, Locked
<1>2. a \in Atas /\ ata[a].status = "vigente"
  BY HolderSees, <1>1
<1>3. aditivo[a].soma + v \in Nat
  BY HolderSees, <1>1
<1>4. aditivo' \in [Atas -> [soma : Nat, prazo : BOOLEAN]]
  BY Before, <1>1, <1>2, <1>3 DEF TablesTyped
<1>5. trilha' \in AuditRow
  <2>1. req[r].visto \in Row /\ req[r].soma \in Nat /\ req[r].visto.total \in Nat
    BY HolderSees, <1>1 DEF Row
  <2>2. QED
    BY <1>1, <1>2, <2>1 DEF AuditValor, AuditRow
<1>6. /\ TablesTyped' /\ ata'[a] = ata[a]
      /\ \A b \in Atas \ {a} : ata'[b] = ata[b] /\ aditivo'[b] = aditivo[b]
  BY Before, <1>1, <1>4 DEF TablesTyped
<1>7. QED
  BY HolderKeeps, HolderSees, <1>1, <1>2, <1>5, <1>6

LEMMA AddPrazoKeeps ==
    ASSUME IInv, NEW r \in Requests, AddPrazo(r)
    PROVE  IInv'
<1> DEFINE a == req[r].ata
<1>1. PICK d \in Days :
         /\ req[r].fase = "travado"
         /\ req[r].visto.status = "vigente"
         /\ ata' = [ata EXCEPT ![a].fim = d]
         /\ aditivo' = [aditivo EXCEPT ![a].prazo = TRUE]
         /\ Audit("aditivo", a, req[r].visto)
         /\ Close(r)
         /\ UNCHANGED <<fornecedores, reajuste>>
  BY DEF AddPrazo, Locked
<1> DEFINE row == [ata[a] EXCEPT !.fim = d]
<1>2. row \in Row /\ row.status = "vigente" /\ row.fornecedor = ata[a].fornecedor
  BY HolderSees, <1>1 DEF Row
<1>3. ata' = [ata EXCEPT ![a] = row]
  BY <1>1
<1> HIDE DEF row
<1> DEFINE soma == [aditivo[a] EXCEPT !.prazo = TRUE]
<1>4. a \in Atas /\ aditivo' \in [Atas -> [soma : Nat, prazo : BOOLEAN]]
  <2>1. a \in Atas
    BY HolderSees, <1>1
  <2>2. soma \in [soma : Nat, prazo : BOOLEAN]
    BY Before, <2>1 DEF TablesTyped
  <2>3. aditivo' = [aditivo EXCEPT ![a] = soma]
    BY <1>1
  <2> HIDE DEF soma
  <2>4. QED
    BY Before, <2>1, <2>2, <2>3 DEF TablesTyped
<1>5. trilha' \in AuditRow
  BY HolderAudits, <1>1
<1>6. /\ TablesTyped' /\ ata'[a] = row
      /\ \A b \in Atas \ {a} : ata'[b] = ata[b] /\ aditivo'[b] = aditivo[b]
  BY Before, <1>1, <1>2, <1>3, <1>4 DEF TablesTyped
<1>7. QED
  BY HolderKeeps, HolderSees, <1>1, <1>2, <1>5, <1>6

LEMMA InitIInv == Init => IInv
<1> SUFFICES ASSUME Init PROVE IInv
  OBVIOUS
<1>1. TypeOK
  BY NullsTyped DEF Init, TypeOK
<1>2. QED
  BY <1>1 DEF Init, IInv, Knows, Idle, NoRow, RowsSound

LEMMA NextKeeps == IInv /\ [Next]_vars => IInv'
<1> SUFFICES ASSUME IInv, [Next]_vars PROVE IInv'
  OBVIOUS
<1>1. CASE UNCHANGED vars
  BY <1>1 DEF vars, IInv, TypeOK, RowsSound
<1>2. CASE Next
  <2>1. PICK r \in Requests :
          \/ CheckNumber(r) \/ CommitRegister(r) \/ LockAta(r)
          \/ Move(r) \/ FindSupplier(r) \/ EditDraft(r) \/ EditCarried(r)
          \/ AddValor(r) \/ AddPrazo(r) \/ AddReajuste(r)
          \/ RollBack(r)
    BY <1>2 DEF Next
  <2>2. CASE CheckNumber(r) \/ CommitRegister(r) \/ LockAta(r) \/ FindSupplier(r)
    BY <2>2, CheckNumberKeeps, CommitRegisterKeeps, LockAtaKeeps, FindSupplierKeeps
  <2>3. CASE Move(r) \/ EditDraft(r) \/ EditCarried(r)
    BY <2>3, MoveKeeps, EditDraftKeeps, EditCarriedKeeps
  <2>4. CASE AddValor(r) \/ AddPrazo(r) \/ AddReajuste(r) \/ RollBack(r)
    BY <2>4, AddValorKeeps, AddPrazoKeeps, AddReajusteKeeps, RollBackKeeps
  <2>5. QED
    BY <2>1, <2>2, <2>3, <2>4
<1>3. QED
  BY <1>1, <1>2

THEOREM Always == Spec => []IInv
  BY InitIInv, NextKeeps, PTL DEF Spec

-----------------------------------------------------------------------------
(* The theorems.                                                             *)

\* Every table, transaction and audit row keeps its type: no move ends in a
\* status that does not exist.
THEOREM TypeCorrect == Spec => []TypeOK
<1>1. IInv => TypeOK
  BY DEF IInv
<1>2. QED
  BY <1>1, Always, PTL

\* The filter of the list, the situacao shown in it and the renewal alert agree,
\* for any calendar and any window (list_atas, situacao_vigencia, renewal_alert).
THEOREM ViewsNeverDisagree == Spec => []ViewsAgree
<1>1. IInv => ViewsAgree
  <2> SUFFICES ASSUME IInv, NEW a \in Atas, NEW hoje \in Days
               PROVE  /\ \A s \in {"vencida", "a_vencer", "vigente"} :
                            ata[a].status # "ausente" =>
                                (InFilter(s, ata[a].fim, hoje) <=> Situacao(ata[a].fim, hoje) = s)
                      /\ ata[a].status = "vigente" /\ ~aditivo[a].prazo =>
                            (a \in RenewalAlert(hoje) <=> Situacao(ata[a].fim, hoje) # "vigente")
    BY DEF ViewsAgree
  <2>1. ata[a].fim \in Nat /\ hoje \in Nat
    <3>1. ata[a] \in Row
      BY DEF IInv, TypeOK
    <3>2. ata[a].fim \in Days \union {0}
      BY <3>1 DEF Row
    <3>3. Days \subseteq Nat /\ Days \union {0} \subseteq Nat
      BY DaysAssumption
    <3>4. QED
      BY <3>2, <3>3
  <2>2. \A s \in {"vencida", "a_vencer", "vigente"} :
            InFilter(s, ata[a].fim, hoje) <=> Situacao(ata[a].fim, hoje) = s
    BY <2>1 DEF InFilter, Situacao
  <2>3. ata[a].fim <= hoje + Window <=> Situacao(ata[a].fim, hoje) # "vigente"
    BY <2>1 DEF Situacao
  <2>4. QED
    BY <2>2, <2>3 DEF RenewalAlert
<1>2. QED
  BY <1>1, Always, PTL

\* The audit row of a change holds what the change replaced, and that of an
\* aditivo de valor all that was contracted before it, however many transactions
\* write the same ata (by_id_for_update before every decision).
THEOREM AuditIsBefore == Spec => AuditTellsTheBefore
<1> DEFINE Told == trilha'.acao \notin {"nada", "criar", "reajuste"}
                       => trilha'.anterior = ata[trilha'.ata]
           Summed == \A a \in Atas : aditivo'[a].soma # aditivo[a].soma
                         => /\ trilha'.ata = a
                            /\ trilha'.contratado = ata[a].total + aditivo[a].soma
<1>1. ASSUME IInv, [Next]_vars, ~UNCHANGED vars
      PROVE  Told /\ Summed
  <2>1. PICK r \in Requests :
          \/ CheckNumber(r) \/ CommitRegister(r) \/ LockAta(r)
          \/ Move(r) \/ FindSupplier(r) \/ EditDraft(r) \/ EditCarried(r)
          \/ AddValor(r) \/ AddPrazo(r) \/ AddReajuste(r)
          \/ RollBack(r)
    BY <1>1 DEF Next
  <2>2. CASE \/ CheckNumber(r) \/ CommitRegister(r) \/ LockAta(r) \/ FindSupplier(r)
             \/ AddReajuste(r) \/ RollBack(r)
    <3>1. trilha' = NoAudit \/ \E acao \in {"criar", "reajuste"} : \E a : Audit(acao, a, NoRow)
      BY <2>2 DEF CheckNumber, CommitRegister, LockAta, FindSupplier, AddReajuste, RollBack
    <3>2. trilha'.acao \in {"nada", "criar", "reajuste"}
      BY <3>1 DEF Audit, NoAudit
    <3>3. UNCHANGED aditivo
      BY <2>2 DEF CheckNumber, CommitRegister, LockAta, FindSupplier, AddReajuste, RollBack, Tables
    <3>4. QED
      BY <3>2, <3>3
  <2>3. CASE Move(r) \/ EditDraft(r) \/ EditCarried(r) \/ AddPrazo(r)
    <3>1. req[r].fase = "travado" /\ \E acao : Audit(acao, req[r].ata, req[r].visto)
      BY <2>3 DEF Move, EditDraft, EditCarried, AddPrazo, Locked
    <3>2. trilha'.ata = req[r].ata /\ trilha'.anterior = req[r].visto
      BY <3>1 DEF Audit
    <3>3. req[r].visto = ata[req[r].ata]
      BY <1>1, <3>1, HolderSees
    <3>4. \A a \in Atas : aditivo'[a].soma = aditivo[a].soma
      <4>1. CASE Move(r) \/ EditDraft(r) \/ EditCarried(r)
        BY <4>1 DEF Move, EditDraft, EditCarried, Tables
      <4>2. CASE AddPrazo(r)
        <5>1. aditivo' = [aditivo EXCEPT ![req[r].ata].prazo = TRUE]
          BY <4>2 DEF AddPrazo
        <5>2. aditivo \in [Atas -> [soma : Nat, prazo : BOOLEAN]]
          BY <1>1 DEF IInv, TypeOK
        <5>3. QED
          BY <5>1, <5>2
      <4>3. QED
        BY <2>3, <4>1, <4>2
    <3>5. QED
      BY <3>2, <3>3, <3>4
  <2>4. CASE AddValor(r)
    <3>1. PICK v \in Values :
            /\ req[r].fase = "travado"
            /\ aditivo' = [aditivo EXCEPT ![req[r].ata].soma = aditivo[req[r].ata].soma + v]
            /\ AuditValor(req[r].ata, req[r].visto, req[r].visto.total + req[r].soma)
      BY <2>4 DEF AddValor, Locked
    <3>2. /\ trilha'.ata = req[r].ata /\ trilha'.anterior = req[r].visto
          /\ trilha'.contratado = req[r].visto.total + req[r].soma
      BY <3>1 DEF AuditValor
    <3>3. req[r].visto = ata[req[r].ata] /\ req[r].soma = aditivo[req[r].ata].soma
      BY <1>1, <3>1, HolderSees
    <3>4. aditivo \in [Atas -> [soma : Nat, prazo : BOOLEAN]]
      BY <1>1 DEF IInv, TypeOK
    <3>5. \A a \in Atas : aditivo'[a].soma # aditivo[a].soma => a = req[r].ata
      BY <3>1, <3>4
    <3>6. QED
      BY <3>2, <3>3, <3>5
  <2>5. QED
    BY <2>1, <2>2, <2>3, <2>4
<1>2. ASSUME IInv, [Next]_vars PROVE [Told /\ Summed]_vars
  BY <1>1, <1>2
<1>3. QED
  BY <1>2, Always, PTL DEF Spec, AuditTellsTheBefore

-----------------------------------------------------------------------------
(* Atas implements AtaLifecycle.                                             *)

\* A change of one ata is a change of its contract.
LEMMA OneContract ==
    ASSUME NEW a \in Atas,
           \A b \in Atas \ {a} : ata'[b] = ata[b] /\ aditivo'[b] = aditivo[b]
    PROVE  Contrato' = [Contrato EXCEPT ![a] = [status |-> ata'[a].status,
                                                fornecedor |-> ata'[a].fornecedor, total |-> ata'[a].total,
                                                soma |-> aditivo'[a].soma, fim |-> ata'[a].fim]]
  BY DEF Contrato

LEMMA ContractOf ==
    ASSUME NEW a \in Atas
    PROVE  /\ Contrato[a].status = ata[a].status /\ Contrato[a].fornecedor = ata[a].fornecedor
           /\ Contrato[a].total = ata[a].total
           /\ Contrato[a].soma = aditivo[a].soma /\ Contrato[a].fim = ata[a].fim
           /\ \A x : [Contrato[a] EXCEPT !.status = x] =
                        [status |-> x, fornecedor |-> ata[a].fornecedor, total |-> ata[a].total,
                         soma |-> aditivo[a].soma, fim |-> ata[a].fim]
           /\ \A x : [Contrato[a] EXCEPT !.soma = x] =
                        [status |-> ata[a].status, fornecedor |-> ata[a].fornecedor, total |-> ata[a].total,
                         soma |-> x, fim |-> ata[a].fim]
           /\ \A x : [Contrato[a] EXCEPT !.fim = x] =
                        [status |-> ata[a].status, fornecedor |-> ata[a].fornecedor, total |-> ata[a].total,
                         soma |-> aditivo[a].soma, fim |-> x]
<1> DEFINE row == [status |-> ata[a].status, fornecedor |-> ata[a].fornecedor, total |-> ata[a].total,
                   soma |-> aditivo[a].soma, fim |-> ata[a].fim]
<1>1. Contrato[a] = row
  BY DEF Contrato
<1>2. row.status = ata[a].status /\ row.fornecedor = ata[a].fornecedor /\ row.total = ata[a].total
      /\ row.soma = aditivo[a].soma /\ row.fim = ata[a].fim
  OBVIOUS
<1>3. \A x : [row EXCEPT !.status = x] = [status |-> x, fornecedor |-> ata[a].fornecedor, total |-> ata[a].total,
                                          soma |-> aditivo[a].soma, fim |-> ata[a].fim]
  OBVIOUS
<1>4. \A x : [row EXCEPT !.soma = x] = [status |-> ata[a].status, fornecedor |-> ata[a].fornecedor, total |-> ata[a].total,
                                        soma |-> x, fim |-> ata[a].fim]
  OBVIOUS
<1>5. \A x : [row EXCEPT !.fim = x] = [status |-> ata[a].status, fornecedor |-> ata[a].fornecedor, total |-> ata[a].total,
                                       soma |-> aditivo[a].soma, fim |-> x]
  OBVIOUS
<1> HIDE DEF row
<1>6. QED
  BY <1>1, <1>2, <1>3, <1>4, <1>5

\* The contract of one ata goes from one row to another, and the rest stays.
LEMMA ContractStep ==
    ASSUME IInv, NEW r \in Requests,
           CommitRegister(r) \/ EditDraft(r) \/ Move(r) \/ AddValor(r) \/ AddPrazo(r)
    PROVE  \E a \in Atas : Lifecycle!Draft(a) \/ Lifecycle!Move(a)
                           \/ Lifecycle!Increase(a) \/ Lifecycle!Extend(a)
<1>1. CASE CommitRegister(r)
  <2>1. PICK a \in Atas, inicio \in Starts, fim \in Days, total \in Totals :
          /\ req[r].fase = "conferido"
          /\ ata[a].status = "ausente"
          /\ Interval(inicio, fim)
          /\ ~SupplierLost(r)
          /\ ~Taken(req[r].numero)
          /\ ata' = [ata EXCEPT ![a] = [status |-> "rascunho", numero |-> req[r].numero,
                                        fornecedor |-> req[r].cnpj, inicio |-> inicio,
                                        fim |-> fim, total |-> total]]
          /\ fornecedores' = fornecedores \union {req[r].cnpj}
          /\ Audit("criar", a, NoRow)
          /\ Close(r)
          /\ UNCHANGED <<aditivo, reajuste>>
    BY <1>1 DEF CommitRegister
  <2>2. aditivo[a].soma = 0
    BY <2>1 DEF IInv, RowsSound
  <2>3. /\ ata'[a].status = "rascunho" /\ ata'[a].fornecedor = req[r].cnpj /\ ata'[a].total = total /\ ata'[a].fim = fim
        /\ \A b \in Atas \ {a} : ata'[b] = ata[b] /\ aditivo'[b] = aditivo[b]
    BY <2>1 DEF IInv, TypeOK
  <2>4. Contrato' = [Contrato EXCEPT ![a] = [status |-> "rascunho", fornecedor |-> req[r].cnpj, total |-> total,
                                             soma |-> 0, fim |-> fim]]
    BY OneContract, <2>1, <2>2, <2>3
  <2>5. Contrato[a].status = "ausente"
    BY ContractOf, <2>1
  <2>6. req[r].cnpj \in Cnpjs
    BY Before, <2>1 DEF Knows
  <2>7. Lifecycle!Draft(a)
    BY <2>4, <2>5, <2>6 DEF Lifecycle!Draft, Lifecycle!Write
  <2>8. QED
    BY <2>7
<1>2. CASE EditDraft(r)
  <2> DEFINE a == req[r].ata
  <2>1. PICK row \in Draft : ata' = [ata EXCEPT ![a] = row]
    BY <1>2, EditedDraft
  <2>2. a \in Atas /\ ata[a].status = "rascunho" /\ aditivo[a].soma = 0 /\ UNCHANGED aditivo
    BY <1>2, EditedDraft, HolderSees DEF EditDraft
  <2>3. /\ ata'[a] = row /\ row.status = "rascunho" /\ row.fornecedor \in Cnpjs /\ row.total \in Totals /\ row.fim \in Days
        /\ \A b \in Atas \ {a} : ata'[b] = ata[b] /\ aditivo'[b] = aditivo[b]
    BY <2>1, <2>2 DEF IInv, TypeOK, Draft
  <2>4. Contrato' = [Contrato EXCEPT ![a] = [status |-> "rascunho", fornecedor |-> row.fornecedor, total |-> row.total,
                                             soma |-> 0, fim |-> row.fim]]
    BY OneContract, <2>2, <2>3
  <2>5. Contrato[a].status = "rascunho"
    BY ContractOf, <2>2
  <2> HIDE DEF a
  <2>6. Lifecycle!Draft(a)
    BY <2>3, <2>4, <2>5 DEF Lifecycle!Draft, Lifecycle!Write
  <2>7. QED
    BY <2>2, <2>6
<1>3. CASE Move(r)
  <2> DEFINE a == req[r].ata
  <2>1. PICK move \in DOMAIN From :
          /\ req[r].fase = "travado"
          /\ req[r].visto.status \in From[move]
          /\ ata' = [ata EXCEPT ![a].status = To[move]]
          /\ UNCHANGED aditivo
    BY <1>3 DEF Move, Locked
  <2>2. a \in Atas /\ ata[a].status \in From[move] /\ ata[a] \in Row
    BY HolderSees, <2>1
  <2>3. /\ ata'[a].status = To[move] /\ ata'[a].fornecedor = ata[a].fornecedor
        /\ ata'[a].total = ata[a].total /\ ata'[a].fim = ata[a].fim
        /\ \A b \in Atas \ {a} : ata'[b] = ata[b] /\ aditivo'[b] = aditivo[b]
    BY <2>1, <2>2 DEF IInv, TypeOK, Row
  <2>4. Contrato' = [Contrato EXCEPT ![a] = [Contrato[a] EXCEPT !.status = To[move]]]
    <3>1. Contrato' = [Contrato EXCEPT ![a] = [status |-> To[move], fornecedor |-> ata[a].fornecedor, total |-> ata[a].total,
                                               soma |-> aditivo[a].soma, fim |-> ata[a].fim]]
      BY OneContract, <2>1, <2>2, <2>3
    <3>2. [Contrato[a] EXCEPT !.status = To[move]]
            = [status |-> To[move], fornecedor |-> ata[a].fornecedor, total |-> ata[a].total,
               soma |-> aditivo[a].soma, fim |-> ata[a].fim]
      BY ContractOf, <2>2
    <3>3. QED
      BY <3>1, <3>2
  <2>5. Contrato[a].status \in From[move]
    BY ContractOf, <2>2
  <2> HIDE DEF a
  <2>6. Lifecycle!Reach(a, From[move], To[move])
    BY <2>4, <2>5 DEF Lifecycle!Reach, Lifecycle!Write
  <2>7. Lifecycle!Move(a)
    BY <2>4, <2>5, MovesAreKnown DEF Lifecycle!Move, Lifecycle!Reach, Lifecycle!Write
  <2>8. QED
    BY <2>2, <2>7
<1>4. CASE AddValor(r)
  <2> DEFINE a == req[r].ata
  <2>1. PICK v \in Values :
          /\ req[r].fase = "travado" /\ req[r].visto.status = "vigente"
          /\ WithinCeiling(req[r].soma, v, req[r].visto.total)
          /\ aditivo' = [aditivo EXCEPT ![a].soma = aditivo[a].soma + v]
          /\ UNCHANGED ata
    BY <1>4 DEF AddValor, Locked
  <2>2. /\ a \in Atas /\ ata[a].status = "vigente"
        /\ 4 * (aditivo[a].soma + v) <= ata[a].total
    BY HolderSees, <2>1 DEF WithinCeiling
  <2>3. /\ aditivo'[a].soma = aditivo[a].soma + v
        /\ \A b \in Atas \ {a} : ata'[b] = ata[b] /\ aditivo'[b] = aditivo[b]
    BY <2>1, <2>2 DEF IInv, TypeOK
  <2>4. Contrato' = [Contrato EXCEPT ![a] = [Contrato[a] EXCEPT !.soma = Contrato[a].soma + v]]
    <3>1. Contrato' = [Contrato EXCEPT ![a] = [status |-> ata[a].status, fornecedor |-> ata[a].fornecedor, total |-> ata[a].total,
                                               soma |-> aditivo[a].soma + v, fim |-> ata[a].fim]]
      BY OneContract, <2>1, <2>2, <2>3
    <3>2. [Contrato[a] EXCEPT !.soma = Contrato[a].soma + v]
            = [status |-> ata[a].status, fornecedor |-> ata[a].fornecedor, total |-> ata[a].total,
               soma |-> aditivo[a].soma + v, fim |-> ata[a].fim]
      BY ContractOf, <2>2
    <3>3. QED
      BY <3>1, <3>2
  <2>5. Contrato[a].status = "vigente" /\ 4 * (Contrato[a].soma + v) <= Contrato[a].total
    BY ContractOf, <2>2
  <2> HIDE DEF a
  <2>6. Lifecycle!Increase(a)
    BY <2>4, <2>5 DEF Lifecycle!Increase, Lifecycle!Write
  <2>7. QED
    BY <2>2, <2>6
<1>5. CASE AddPrazo(r)
  <2> DEFINE a == req[r].ata
  <2>1. PICK d \in Days :
          /\ req[r].fase = "travado" /\ req[r].visto.status = "vigente"
          /\ d > req[r].visto.fim
          /\ ata' = [ata EXCEPT ![a].fim = d]
          /\ aditivo' = [aditivo EXCEPT ![a].prazo = TRUE]
    BY <1>5 DEF AddPrazo, Locked
  <2>2. a \in Atas /\ ata[a].status = "vigente" /\ d > ata[a].fim /\ ata[a] \in Row
    BY HolderSees, <2>1
  <2>3. /\ ata'[a].status = ata[a].status /\ ata'[a].fornecedor = ata[a].fornecedor
        /\ ata'[a].total = ata[a].total /\ ata'[a].fim = d
        /\ aditivo'[a].soma = aditivo[a].soma
        /\ \A b \in Atas \ {a} : ata'[b] = ata[b] /\ aditivo'[b] = aditivo[b]
    BY <2>1, <2>2 DEF IInv, TypeOK, Row
  <2>4. Contrato' = [Contrato EXCEPT ![a] = [Contrato[a] EXCEPT !.fim = d]]
    <3>1. Contrato' = [Contrato EXCEPT ![a] = [status |-> ata[a].status, fornecedor |-> ata[a].fornecedor, total |-> ata[a].total,
                                               soma |-> aditivo[a].soma, fim |-> d]]
      BY OneContract, <2>2, <2>3
    <3>2. [Contrato[a] EXCEPT !.fim = d]
            = [status |-> ata[a].status, fornecedor |-> ata[a].fornecedor, total |-> ata[a].total,
               soma |-> aditivo[a].soma, fim |-> d]
      BY ContractOf, <2>2
    <3>3. QED
      BY <3>1, <3>2
  <2>5. Contrato[a].status = "vigente" /\ d > Contrato[a].fim
    BY ContractOf, <2>2
  <2> HIDE DEF a
  <2>6. Lifecycle!Extend(a)
    BY <2>4, <2>5 DEF Lifecycle!Extend, Lifecycle!Write
  <2>7. QED
    BY <2>2, <2>6
<1>6. QED
  BY <1>1, <1>2, <1>3, <1>4, <1>5

\* Atas promises what AtaLifecycle states, whatever the interleaving of its
\* transactions: every step of theirs is a step of one contract or none.
THEOREM Implements == Spec => ImplementsLifecycle
<1>1. Init => Lifecycle!Init
  BY DEF Init, NoRow, Contrato, Lifecycle!Init
<1>2. ASSUME IInv, [Next]_vars PROVE [Lifecycle!Next]_Contrato
  <2>1. CASE \E r \in Requests :
               CommitRegister(r) \/ EditDraft(r) \/ Move(r) \/ AddValor(r) \/ AddPrazo(r)
    BY <1>2, <2>1, ContractStep DEF Lifecycle!Next
  <2>2. CASE UNCHANGED <<ata, aditivo>>
    BY <2>2 DEF Contrato
  <2>3. QED
    BY <1>2, <2>1, <2>2 DEF Next, vars, CheckNumber, LockAta, FindSupplier,
                                   EditCarried, AddReajuste, RollBack, Tables
<1>3. QED
  BY <1>1, <1>2, Always, PTL DEF Spec, ImplementsLifecycle, Lifecycle!Spec

-----------------------------------------------------------------------------
(* The calendar. tlapm knows a recursive function by its CHOOSE alone: each  *)
(* is first shown to satisfy its own equation, by a closed form that does,   *)
(* and then to be that closed form, by a least counterexample.               *)

USE CalendarAssumption

\* The years with a first day that is counted.
Years == FirstYear..(LastYear + 2)

\* The leap years before a year.
LeapsBefore(y) == ((y + 3) \div 4 - (y + 99) \div 100) + (y + 399) \div 400

\* A leap year, and no other, adds one to the leap years before the next.
LEMMA LeapsCounted ==
    ASSUME NEW y \in Nat
    PROVE  /\ LeapsBefore(y) \in Int
           /\ LeapsBefore(y + 1) = LeapsBefore(y) + (IF Leap(y) THEN 1 ELSE 0)
<1>1. (y + 4) \div 4 = (y + 3) \div 4 + (IF y % 4 = 0 THEN 1 ELSE 0)
  OBVIOUS
<1>2. (y + 100) \div 100 = (y + 99) \div 100 + (IF y % 100 = 0 THEN 1 ELSE 0)
  OBVIOUS
<1>3. (y + 400) \div 400 = (y + 399) \div 400 + (IF y % 400 = 0 THEN 1 ELSE 0)
  OBVIOUS
<1>4. (y % 400 = 0 => y % 100 = 0) /\ (y % 100 = 0 => y % 4 = 0)
  OBVIOUS
<1>5. QED
  BY <1>1, <1>2, <1>3, <1>4 DEF LeapsBefore, Leap

\* BeforeYear is the function its definition describes.
LEMMA BeforeYearDef ==
    BeforeYear = [y \in Years |-> IF y = FirstYear THEN 0
                                  ELSE BeforeYear[y - 1] + (IF Leap(y - 1) THEN 366 ELSE 365)]
<1> DEFINE Eq(f) == f = [y \in Years |-> IF y = FirstYear THEN 0
                                  ELSE f[y - 1] + (IF Leap(y - 1) THEN 366 ELSE 365)]
           g == [y \in Years |-> 365 * (y - FirstYear) + (LeapsBefore(y) - LeapsBefore(FirstYear))]
<1>1. Eq(g)
  <2> SUFFICES ASSUME NEW y \in Years
      PROVE g[y] = IF y = FirstYear THEN 0
                                  ELSE g[y - 1] + (IF Leap(y - 1) THEN 366 ELSE 365)
    OBVIOUS
  <2>1. CASE y = FirstYear
    BY <2>1, LeapsCounted
  <2>2. CASE y # FirstYear
    <3>1. y - 1 \in Years /\ y - 1 \in Nat /\ (y - 1) + 1 = y
      BY <2>2 DEF Years
    <3>2. LeapsBefore(y) = LeapsBefore(y - 1) + (IF Leap(y - 1) THEN 1 ELSE 0)
      BY <3>1, LeapsCounted
    <3>3. LeapsBefore(y) \in Int /\ LeapsBefore(y - 1) \in Int /\ LeapsBefore(FirstYear) \in Int
      BY <3>1, LeapsCounted DEF Years
    <3>4. QED
      BY <2>2, <3>1, <3>2, <3>3
  <2>3. QED
    BY <2>1, <2>2
<1>2. BeforeYear = CHOOSE f : Eq(f)
  BY DEF BeforeYear, Years
<1> HIDE DEF Eq
<1>3. Eq(BeforeYear)
  BY <1>1, <1>2
<1>4. QED
  BY <1>3 DEF Eq

\* ... and what it computes.
LEMMA BeforeYearIs ==
    ASSUME NEW y \in Years
    PROVE  BeforeYear[y] = 365 * (y - FirstYear) + (LeapsBefore(y) - LeapsBefore(FirstYear))
<1> DEFINE Sum(z) == 365 * (z - FirstYear) + (LeapsBefore(z) - LeapsBefore(FirstYear))
           T == {z \in Years : BeforeYear[z] # Sum(z)}
<1> SUFFICES ASSUME T # {} PROVE FALSE
  OBVIOUS
<1>1. PICK z \in T : \A x \in T : ~(<<x, z>> \in OpToRel(<, Nat))
  <2>1. T \subseteq Nat /\ T # {}
    BY DEF Years
  <2> HIDE DEF T
  <2>2. QED
    BY <2>1, NatLessThanWellFounded, WFMin
<1>2. z \in Years /\ z \in Nat /\ BeforeYear[z] # Sum(z) /\ \A x \in Years : x < z => BeforeYear[x] = Sum(x)
  <2>1. z \in Years /\ z \in Nat /\ BeforeYear[z] # Sum(z)
    BY DEF Years
  <2>2. ASSUME NEW x \in Years, x < z, BeforeYear[x] # Sum(x) PROVE FALSE
    <3>1. x \in T /\ x \in Nat
      BY <2>2 DEF Years
    <3>2. <<x, z>> \in OpToRel(<, Nat)
      BY <2>1, <2>2, <3>1 DEF OpToRel
    <3>3. QED
      BY <1>1, <3>1, <3>2
  <2>3. QED
    BY <2>1, <2>2
<1>3. z # FirstYear
  BY <1>2, BeforeYearDef, LeapsCounted
<1>4. z - 1 \in Years /\ z - 1 \in Nat /\ (z - 1) + 1 = z /\ z - 1 < z
  BY <1>2, <1>3 DEF Years
<1>5. BeforeYear[z] = Sum(z - 1) + (IF Leap(z - 1) THEN 366 ELSE 365)
  BY <1>2, <1>3, <1>4, BeforeYearDef
<1>6. /\ LeapsBefore(z) = LeapsBefore(z - 1) + (IF Leap(z - 1) THEN 1 ELSE 0)
      /\ LeapsBefore(z) \in Int /\ LeapsBefore(z - 1) \in Int /\ LeapsBefore(FirstYear) \in Int
  BY <1>2, <1>4, LeapsCounted
<1>7. QED
  BY <1>2, <1>4, <1>5, <1>6

\* The days before a month, in a year whose February has n days.
Table(n) == <<0, 31, 31 + n, 62 + n, 92 + n, 123 + n, 153 + n, 184 + n, 215 + n, 245 + n,
              276 + n, 306 + n>>

\* BeforeMonth is the function its definition describes ...
LEMMA BeforeMonthDef ==
    ASSUME NEW y \in Years
    PROVE  BeforeMonth(y) = [m \in 1..12 |->
              IF m = 1 THEN 0 ELSE BeforeMonth(y)[m - 1] + Length(y, m - 1)]
<1> DEFINE Eq(f) == f = [m \in 1..12 |-> IF m = 1 THEN 0 ELSE f[m - 1] + Length(y, m - 1)]
           g == [m \in 1..12 |-> Table(February(y))[m]]
<1>1. Eq(g)
  <2> SUFFICES ASSUME NEW m \in 1..12
      PROVE g[m] = IF m = 1 THEN 0 ELSE g[m - 1] + Length(y, m - 1)
    OBVIOUS
  <2>1. m = 1 \/ m - 1 \in 1..12
    OBVIOUS
  <2>2. g[m] = Table(February(y))[m] /\ (m # 1 => g[m - 1] = Table(February(y))[m - 1])
    BY <2>1
  <2> HIDE DEF g
  <2>3. Table(February(y))[m] = IF m = 1 THEN 0 ELSE Table(February(y))[m - 1] + Length(y, m - 1)
    BY DEF Table, Length, February
  <2>4. QED
    BY <2>2, <2>3
<1>2. BeforeMonth(y) = CHOOSE f : Eq(f)
  BY DEF BeforeMonth
<1> HIDE DEF Eq
<1>3. Eq(BeforeMonth(y))
  BY <1>1, <1>2
<1>4. QED
  BY <1>3 DEF Eq

\* ... and computes the table.
LEMMA BeforeMonthIs ==
    ASSUME NEW y \in Years, NEW m \in 1..12
    PROVE  BeforeMonth(y)[m] = Table(February(y))[m]
<1> DEFINE b(k) == BeforeMonth(y)[k]
           n == February(y)
<1>1. b(1) = 0 /\ \A k \in 2..12 : b(k) = b(k - 1) + Length(y, k - 1)
  BY BeforeMonthDef
<1>2. /\ Length(y, 1) = 31 /\ Length(y, 2) = n /\ Length(y, 3) = 31 /\ Length(y, 4) = 30
      /\ Length(y, 5) = 31 /\ Length(y, 6) = 30 /\ Length(y, 7) = 31 /\ Length(y, 8) = 31
      /\ Length(y, 9) = 30 /\ Length(y, 10) = 31 /\ Length(y, 11) = 30
  BY DEF Length
<1>3. n \in 28..29
  BY DEF February
<1> HIDE DEF b, n
<1>4. /\ b(2) = 31 /\ b(3) = 31 + n /\ b(4) = 62 + n /\ b(5) = 92 + n /\ b(6) = 123 + n
  BY <1>1, <1>2, <1>3
<1>5. /\ b(7) = 153 + n /\ b(8) = 184 + n /\ b(9) = 215 + n
      /\ b(10) = 245 + n /\ b(11) = 276 + n /\ b(12) = 306 + n
  BY <1>1, <1>2, <1>3, <1>4
<1>6. QED
  BY <1>1, <1>3, <1>4, <1>5 DEF Table, b, n

\* No two leap years follow each other.
LEMMA NoTwoLeapYears ==
    ASSUME NEW y \in Nat, Leap(y)
    PROVE  ~Leap(y + 1)
<1>1. y % 4 = 0
  BY DEF Leap
<1>2. (y + 1) % 4 # 0
  BY <1>1
<1>3. (y + 1) % 400 = 0 => (y + 1) % 4 = 0
  OBVIOUS
<1>4. QED
  BY <1>2, <1>3 DEF Leap

\* The days before a year, counted from FirstYear.
DaysBefore(y) == 365 * (y - FirstYear) + (LeapsBefore(y) - LeapsBefore(FirstYear))

\* Each year adds its own days to the ones before it.
LEMMA DaysBeforeNext ==
    ASSUME NEW y \in Nat
    PROVE  /\ DaysBefore(y) \in Int /\ DaysBefore(y + 1) \in Int
           /\ DaysBefore(y + 1) = DaysBefore(y) + (IF Leap(y) THEN 366 ELSE 365)
<1>1. LeapsBefore(y) \in Int /\ LeapsBefore(FirstYear) \in Int /\ LeapsBefore(y + 1) \in Int
  BY LeapsCounted
<1>2. LeapsBefore(y + 1) = LeapsBefore(y) + (IF Leap(y) THEN 1 ELSE 0)
  BY LeapsCounted
<1>3. QED
  BY <1>1, <1>2 DEF DaysBefore

\* A date's ordinal in closed form.
LEMMA OrdinalIs ==
    ASSUME NEW d, d.ano \in Years, d.mes \in 1..12, d.dia \in Int
    PROVE  /\ Ordinal(d) = DaysBefore(d.ano) + (Table(February(d.ano))[d.mes] + d.dia)
           /\ Table(February(d.ano))[d.mes] \in Int
           /\ Ordinal(d) \in Int
<1>1. February(d.ano) \in 28..29 /\ d.ano \in Nat
  BY DEF February, Years
<1>2. Table(February(d.ano))[d.mes] \in Int
  BY <1>1 DEF Table
<1>3. BeforeYear[d.ano] = DaysBefore(d.ano) /\ DaysBefore(d.ano) \in Int
  BY <1>1, BeforeYearIs, DaysBeforeNext DEF DaysBefore
<1>4. QED
  BY <1>2, <1>3, BeforeMonthIs DEF Ordinal

\* The parts of a date that exists.
LEMMA DateParts ==
    ASSUME NEW d \in Dates
    PROVE  /\ d \in [ano : FirstYear..LastYear, mes : 1..12, dia : 1..31]
           /\ d.ano \in Nat /\ d.ano \in Years /\ d.ano + 1 \in Years
           /\ d.mes \in 1..12 /\ d.dia \in 1..Length(d.ano, d.mes)
  BY DEF Dates, Exists, Years

\* The date of a reajuste, field by field: only a 29/02 loses its day.
LEMMA ReajusteDateIs ==
    ASSUME NEW d \in Dates
    PROVE  LET r == ReajusteDate(d)
           IN /\ Exists(r)
              /\ r.ano = d.ano + 1 /\ r.mes = d.mes
              /\ r.dia = IF d.mes = 2 /\ d.dia = 29 THEN 28 ELSE d.dia
<1> DEFINE due == [d EXCEPT !.ano = @ + 1]
<1>1. /\ due.ano = d.ano + 1 /\ due.mes = d.mes /\ due.dia = d.dia
      /\ due \in [ano : Nat, mes : 1..12, dia : 1..31]
  BY DateParts
<1>2. d.mes = 2 /\ d.dia = 29 => Leap(d.ano) /\ ~Leap(d.ano + 1)
  BY DateParts, NoTwoLeapYears DEF Length, February
<1>3. CASE d.mes = 2 /\ d.dia = 29
  <2>1. ~Exists(due)
    BY <1>1, <1>2, <1>3 DEF Exists, Length, February
  <2>2. ReajusteDate(d) = [due EXCEPT !.dia = 28]
    BY <2>1 DEF ReajusteDate
  <2> HIDE DEF due
  <2>3. QED
    BY <1>1, <1>3, <2>2 DEF Exists, Length, February
<1>4. CASE ~(d.mes = 2 /\ d.dia = 29)
  <2>1. d.dia \in 1..Length(d.ano + 1, d.mes)
    BY <1>4, DateParts DEF Length, February
  <2>2. Exists(due)
    BY <1>1, <2>1, DateParts DEF Exists
  <2>3. ReajusteDate(d) = due
    BY <2>2 DEF ReajusteDate
  <2> HIDE DEF due
  <2>4. QED
    BY <1>1, <1>4, <2>2, <2>3
<1>5. QED
  BY <1>3, <1>4

\* The year the database adds lands on the day Python computes.
LEMMA PlusYearIsReajusteDate ==
    ASSUME NEW d \in Dates
    PROVE  PlusYear(d) = Ordinal(ReajusteDate(d))
<1> DEFINE last == Length(d.ano + 1, d.mes)
           p == [d EXCEPT !.ano = @ + 1, !.dia = IF @ > last THEN last ELSE @]
<1>1. p.ano = d.ano + 1 /\ p.mes = d.mes /\ p.dia = IF d.dia > last THEN last ELSE d.dia
  BY DateParts
<1>2. p.dia = IF d.mes = 2 /\ d.dia = 29 THEN 28 ELSE d.dia
  <2>1. CASE d.mes = 2 /\ d.dia = 29
    <3>1. ~Leap(d.ano + 1)
      BY <2>1, DateParts, NoTwoLeapYears DEF Length, February
    <3>2. QED
      BY <1>1, <2>1, <3>1 DEF Length, February
  <2>2. CASE ~(d.mes = 2 /\ d.dia = 29)
    <3>1. ~(d.dia > last)
      BY <2>2, DateParts DEF Length, February
    <3>2. QED
      BY <1>1, <2>2, <3>1
  <2>3. QED
    BY <2>1, <2>2
<1>3. PlusYear(d) = Ordinal(p)
  BY DEF PlusYear
<1> HIDE DEF p
<1>4. QED
  BY <1>1, <1>2, <1>3, ReajusteDateIs DEF Ordinal

\* The 29/02 of a year, where it has one.
LeapDay(y) == [ano |-> y, mes |-> 2, dia |-> 29]

\* A year has its 29/02 exactly when it is a leap year: day 60 of it.
LEMMA LeapDayIs ==
    ASSUME NEW y \in Years
    PROVE  /\ Exists(LeapDay(y)) <=> Leap(y)
           /\ Ordinal(LeapDay(y)) = DaysBefore(y) + 60
<1>1. LeapDay(y).ano = y /\ LeapDay(y).mes = 2 /\ LeapDay(y).dia = 29
  BY DEF LeapDay
<1>2. Table(February(y))[2] = 31
  BY DEF Table
<1>3. DaysBefore(y) \in Int
  BY DaysBeforeNext DEF Years
<1>4. QED
  BY <1>1, <1>2, <1>3, OrdinalIs DEF Exists, Length, February

\* A year on is 366 days when a 29/02 lies after the budget and up to the due
\* date, and 365 otherwise.
LEMMA AYearOn ==
    ASSUME NEW d \in Dates
    PROVE  LET due == Ordinal(ReajusteDate(d))
               between(y) == Exists(LeapDay(y)) /\ Ordinal(LeapDay(y)) \in (Ordinal(d) + 1)..due
           IN /\ Ordinal(d) \in Int /\ due \in Int
              /\ due - Ordinal(d) = (IF \E y \in d.ano..(d.ano + 1) : between(y) THEN 366 ELSE 365)
<1> DEFINE y0 == d.ano
           y1 == d.ano + 1
           r == ReajusteDate(d)
           due == Ordinal(r)
           between(y) == Exists(LeapDay(y)) /\ Ordinal(LeapDay(y)) \in (Ordinal(d) + 1)..due
<1>1. /\ y0 \in Years /\ y1 \in Years /\ y0 \in Nat /\ y1 \in Nat
      /\ d.mes \in 1..12 /\ d.dia \in 1..Length(y0, d.mes) /\ d.dia \in 1..31
  BY DateParts
<1>2. /\ r.ano = y1 /\ r.mes = d.mes /\ r.dia \in Int
      /\ r.dia = IF d.mes = 2 /\ d.dia = 29 THEN 28 ELSE d.dia
  BY <1>1, ReajusteDateIs
<1> DEFINE t0 == Table(February(y0))[d.mes]
           t1 == Table(February(y1))[d.mes]
           b0 == DaysBefore(y0)
           b1 == DaysBefore(y1)
<1>3. /\ Ordinal(d) = b0 + (t0 + d.dia) /\ due = b1 + (t1 + r.dia)
      /\ t0 \in Int /\ t1 \in Int /\ Ordinal(d) \in Int /\ due \in Int
  BY <1>1, <1>2, OrdinalIs
<1>4. b0 \in Int /\ b1 = b0 + (IF Leap(y0) THEN 366 ELSE 365)
  BY <1>1, DaysBeforeNext
<1>5. /\ Exists(LeapDay(y0)) <=> Leap(y0)
      /\ Exists(LeapDay(y1)) <=> Leap(y1)
      /\ Ordinal(LeapDay(y0)) = b0 + 60 /\ Ordinal(LeapDay(y1)) = b1 + 60
  BY <1>1, LeapDayIs
<1>6. /\ d.mes = 1 => t0 = 0 /\ t1 = 0 /\ d.dia <= 31
      /\ d.mes = 2 => t0 = 31 /\ t1 = 31 /\ d.dia <= February(y0)
      /\ d.mes \in 3..12 => /\ t0 - February(y0) = t1 - February(y1)
                            /\ t0 >= 31 + February(y0)
                            /\ t0 + d.dia <= 337 + February(y0)
  <2>1. d.mes = 1 => t0 = 0 /\ t1 = 0 /\ d.dia <= 31
    BY <1>1 DEF Table
  <2>2. d.mes = 2 => t0 = 31 /\ t1 = 31 /\ d.dia <= February(y0)
    BY <1>1 DEF Table, Length, February
  <2>3. d.mes \in 3..12 => /\ t0 - February(y0) = t1 - February(y1)
                           /\ t0 >= 31 + February(y0)
    BY <1>1 DEF Table, February
  <2>4. d.mes \in 3..12 => t0 + d.dia <= 337 + February(y0)
    BY <1>1 DEF Table, Length, February
  <2>5. QED
    BY <2>1, <2>2, <2>3, <2>4
<1>7. Leap(y0) => ~Leap(y1)
  BY <1>1, NoTwoLeapYears
<1>8. /\ February(y0) = (IF Leap(y0) THEN 29 ELSE 28)
      /\ February(y1) = (IF Leap(y1) THEN 29 ELSE 28)
  BY DEF February
<1>9. (\E y \in y0..y1 : between(y)) <=> between(y0) \/ between(y1)
  <2>1. y0..y1 = {y0, y1}
    BY <1>1
  <2> HIDE DEF between, y0, y1
  <2>2. QED
    BY <2>1
<1>10. between(y0) <=> Leap(y0) /\ b0 + 60 > Ordinal(d) /\ b0 + 60 <= due
  BY <1>3, <1>4, <1>5
<1>11. between(y1) <=> Leap(y1) /\ b1 + 60 > Ordinal(d) /\ b1 + 60 <= due
  BY <1>3, <1>4, <1>5
<1> HIDE DEF between, b0, b1, t0, t1, r, due, y0, y1
<1>12. d.mes = 1 \/ (d.mes = 2 /\ d.dia # 29) =>
         due - Ordinal(d) = (IF between(y0) \/ between(y1) THEN 366 ELSE 365)
  BY <1>1, <1>2, <1>3, <1>4, <1>6, <1>7, <1>8, <1>10, <1>11
<1>13. d.mes = 2 /\ d.dia = 29 =>
         due - Ordinal(d) = (IF between(y0) \/ between(y1) THEN 366 ELSE 365)
  BY <1>1, <1>2, <1>3, <1>4, <1>6, <1>7, <1>8, <1>10, <1>11
<1>14. d.mes \in 3..12 =>
         due - Ordinal(d) = (IF between(y0) \/ between(y1) THEN 366 ELSE 365)
  BY <1>1, <1>2, <1>3, <1>4, <1>6, <1>7, <1>8, <1>10, <1>11
<1>15. due - Ordinal(d) = (IF \E y \in y0..y1 : between(y) THEN 366 ELSE 365)
  <2>1. d.mes = 1 \/ d.mes = 2 \/ d.mes \in 3..12
    BY <1>1
  <2>2. QED
    BY <2>1, <1>9, <1>12, <1>13, <1>14
<1>16. QED
  BY <1>3, <1>15 DEF due, r, y0, y1, between

\* For every date of every year, whatever the range of years: DueAYearLater.
THEOREM EveryDateFallsDueAYearLater == DueAYearLater
<1> SUFFICES ASSUME NEW d \in Dates
    PROVE LET due == Ordinal(ReajusteDate(d))
              between(y) == Exists(LeapDay(y)) /\ Ordinal(LeapDay(y)) \in (Ordinal(d) + 1)..due
          IN /\ Exists(ReajusteDate(d))
             /\ due - Ordinal(d) = (IF \E y \in d.ano..(d.ano + 1) : between(y) THEN 366 ELSE 365)
             /\ \A e \in Dates : Ordinal(e) = Ordinal(d) + 1 => due <= Ordinal(ReajusteDate(e))
  BY DEF DueAYearLater, LeapDay
<1> DEFINE due(e) == Ordinal(ReajusteDate(e))
<1>1. \A e \in Dates : /\ Ordinal(e) \in Int /\ due(e) \in Int
                       /\ due(e) - Ordinal(e) \in 365..366
  BY AYearOn
<1>2. Exists(ReajusteDate(d))
  BY ReajusteDateIs
<1>3. \A e \in Dates : Ordinal(e) = Ordinal(d) + 1 => due(d) <= due(e)
  <2> HIDE DEF due
  <2> QED
    BY <1>1
<1>4. QED
  BY <1>2, <1>3, AYearOn

\* A budget of a later day never falls due before one of an earlier day.
THEOREM SoonestFirst ==
    \A d, e \in Dates :
        Ordinal(d) < Ordinal(e) => Ordinal(ReajusteDate(d)) <= Ordinal(ReajusteDate(e))
<1> DEFINE due(e) == Ordinal(ReajusteDate(e))
<1>1. \A e \in Dates : /\ Ordinal(e) \in Int /\ due(e) \in Int
                       /\ due(e) - Ordinal(e) \in 365..366
  BY AYearOn
<1> HIDE DEF due
<1>2. \A d, e \in Dates : Ordinal(d) < Ordinal(e) => due(d) <= due(e)
  BY <1>1
<1>3. QED
  BY <1>2 DEF due

\* The query selects exactly the budgets whose days shown are within the window,
\* at every instant.
THEOREM SelectedAsShown ==
    \A d \in Dates, at \in Int : InReajusteAlert(d, at) <=> DaysRemaining(d, at) <= AlertDays
<1> SUFFICES ASSUME NEW d \in Dates, NEW at \in Int
    PROVE InReajusteAlert(d, at) <=> DaysRemaining(d, at) <= AlertDays
  OBVIOUS
<1>1. Ordinal(ReajusteDate(d)) \in Int /\ PlusYear(d) = Ordinal(ReajusteDate(d))
  BY AYearOn, PlusYearIsReajusteDate
<1>2. LocalDay(at) \in Int
  BY DEF LocalDay
<1>3. QED
  BY <1>1, <1>2 DEF InReajusteAlert, DaysRemaining

-----------------------------------------------------------------------------
(* The partitions of the audit trail.                                        *)

Partitioned == AnoInicial..AnoFinal

\* The hour of UTC a year starts at: 2028 and 2032 are the leap years.
YearStart(y) == 8760 * (y - AnoInicial) + (IF y > 2032 THEN 48 ELSE IF y > 2028 THEN 24 ELSE 0)

\* NewYear is the function its definition describes ...
LEMMA NewYearDef ==
    NewYear = [y \in AnoInicial..(AnoFinal + 1) |->
                  IF y = AnoInicial THEN 0
                  ELSE NewYear[y - 1] + 24 * (IF Leap(y - 1) THEN 366 ELSE 365)]
<1> DEFINE Eq(f) == f = [y \in AnoInicial..(AnoFinal + 1) |->
                            IF y = AnoInicial THEN 0
                            ELSE f[y - 1] + 24 * (IF Leap(y - 1) THEN 366 ELSE 365)]
           g == [y \in AnoInicial..(AnoFinal + 1) |-> YearStart(y)]
<1>1. Eq(g)
  <2> SUFFICES ASSUME NEW y \in AnoInicial..(AnoFinal + 1), y # AnoInicial
      PROVE YearStart(y) = YearStart(y - 1) + 24 * (IF Leap(y - 1) THEN 366 ELSE 365)
    BY DEF AnoInicial, AnoFinal, YearStart
  <2>1. y - 1 \in 2026..2032
    BY DEF AnoInicial, AnoFinal
  <2>2. Leap(y - 1) <=> y - 1 \in {2028, 2032}
    BY <2>1 DEF Leap
  <2>3. QED
    BY <2>1, <2>2 DEF YearStart, AnoInicial
<1>2. NewYear = CHOOSE f : Eq(f)
  BY DEF NewYear
<1> HIDE DEF Eq
<1>3. Eq(NewYear)
  BY <1>1, <1>2
<1>4. QED
  BY <1>3 DEF Eq

\* ... and computes the start of each year.
LEMMA NewYearIs ==
    ASSUME NEW y \in AnoInicial..(AnoFinal + 1)
    PROVE  NewYear[y] = YearStart(y) /\ YearStart(y) \in Int
<1> DEFINE n(z) == NewYear[z]
<1>1. n(2026) = 0 /\ \A z \in 2027..2033 : n(z) = n(z - 1) + 24 * (IF Leap(z - 1) THEN 366 ELSE 365)
  BY NewYearDef DEF AnoInicial, AnoFinal
<1>2. /\ ~Leap(2026) /\ ~Leap(2027) /\ Leap(2028) /\ ~Leap(2029) /\ ~Leap(2030) /\ ~Leap(2031)
      /\ Leap(2032)
  BY DEF Leap
<1> HIDE DEF n
<1>3. n(2027) = 8760 /\ n(2028) = 17520 /\ n(2029) = 26304 /\ n(2030) = 35064
  BY <1>1, <1>2
<1>4. n(2031) = 43824 /\ n(2032) = 52584 /\ n(2033) = 61368
  BY <1>1, <1>2, <1>3
<1>5. n(y) = YearStart(y)
  BY <1>1, <1>3, <1>4 DEF YearStart, AnoInicial, AnoFinal
<1>6. QED
  BY <1>5 DEF n, YearStart, AnoInicial, AnoFinal

\* Between the start of the first partition and the end of the last, every
\* instant is in exactly one of them, and before and after there is none
\* (the row of such an instant is refused: _criar_particoes).
THEOREM OnePartitionPerInstant ==
    \A at \in Int :
        IF 0 <= at /\ at < NewYear[AnoFinal + 1]
        THEN \E z \in AnoInicial..AnoFinal : PartitionsOf(at) = {z}
        ELSE PartitionsOf(at) = {}
<1> SUFFICES ASSUME NEW at \in Int
    PROVE IF 0 <= at /\ at < NewYear[AnoFinal + 1]
          THEN \E z \in AnoInicial..AnoFinal : PartitionsOf(at) = {z}
          ELSE PartitionsOf(at) = {}
  OBVIOUS
<1>1. PartitionsOf(at) = {y \in Partitioned : YearStart(y) <= at /\ at < YearStart(y + 1)}
  <2>1. \A y \in Partitioned : y \in AnoInicial..(AnoFinal + 1) /\ y + 1 \in AnoInicial..(AnoFinal + 1)
    BY DEF Partitioned, AnoInicial, AnoFinal
  <2>2. QED
    BY <2>1, NewYearIs DEF PartitionsOf, PartitionYears, Partitioned
<1>2. NewYear[AnoFinal + 1] = 61368
  BY NewYearIs DEF AnoInicial, AnoFinal, YearStart
<1>3. \A y, z \in Partitioned : y < z => YearStart(y + 1) <= YearStart(z)
  BY DEF Partitioned, YearStart, AnoInicial, AnoFinal
<1>4. \A y, z \in PartitionsOf(at) : y = z
  <2>1. \A y \in Partitioned : y \in Int /\ YearStart(y) \in Int /\ YearStart(y + 1) \in Int
    BY DEF Partitioned, YearStart, AnoInicial, AnoFinal
  <2>2. QED
    BY <1>1, <1>3, <2>1
<1>5. CASE 0 <= at /\ at < 61368
  <2>1. \E z \in Partitioned : YearStart(z) <= at /\ at < YearStart(z + 1)
    <3>1. /\ YearStart(2026) = 0 /\ YearStart(2027) = 8760 /\ YearStart(2028) = 17520
          /\ YearStart(2029) = 26304 /\ YearStart(2030) = 35064 /\ YearStart(2031) = 43824
          /\ YearStart(2032) = 52584 /\ YearStart(2033) = 61368
      BY DEF YearStart, AnoInicial
    <3>2. PICK y \in 2026..2032 : YearStart(y) <= at /\ at < YearStart(y + 1)
      BY <1>5, <3>1
    <3>3. QED
      BY <3>2 DEF Partitioned, AnoInicial, AnoFinal
  <2>2. QED
    BY <1>1, <1>2, <1>4, <1>5, <2>1 DEF Partitioned
<1>6. CASE ~(0 <= at /\ at < 61368)
  <2>1. \A y \in Partitioned : 0 <= YearStart(y) /\ YearStart(y + 1) <= 61368
    BY DEF Partitioned, YearStart, AnoInicial, AnoFinal
  <2>2. \A y \in Partitioned : YearStart(y) \in Int /\ YearStart(y + 1) \in Int
    BY DEF Partitioned, YearStart, AnoInicial, AnoFinal
  <2>3. QED
    BY <1>1, <1>2, <1>6, <2>1, <2>2
<1>7. QED
  BY <1>5, <1>6

\* Whatever the years of the budgets and the days of the alert, a reajuste falls
\* due a year after its budget and is selected exactly when it is shown within
\* the window.
THEOREM ReajusteDueSafe == Spec => []ReajusteFallsDue
<1>1. ShownAsSelected
  <2> SUFFICES ASSUME NEW d \in Dates,
                      NEW at \in (24 * (Ordinal(ReajusteDate(d)) - AlertDays - 2))..(24 * (Ordinal(ReajusteDate(d)) - AlertDays + 2))
      PROVE InReajusteAlert(d, at) <=> DaysRemaining(d, at) <= AlertDays
    BY DEF ShownAsSelected
  <2>1. at \in Int
    OBVIOUS
  <2>2. QED
    BY <2>1, SelectedAsShown
<1>2. ReajusteFallsDue
  BY <1>1, EveryDateFallsDueAYearLater DEF ReajusteFallsDue
<1>3. QED
  BY <1>2, PTL

=============================================================================

---------------------------- MODULE AtaLifecycle ----------------------------
(***************************************************************************)
(* What the ATA service promises of one ata de registro de preços: what    *)
(* was contracted, and with whom, is free to change only while it is a     *)
(* draft, its life follows a fixed set of moves and ends for good, its     *)
(* term only grows and its aditivos of value never pass a quarter of what  *)
(* was contracted.                                                         *)
(***************************************************************************)
EXTENDS Naturals

CONSTANTS Atas,        \* the atas
          Cnpjs,       \* the companies
          Nobody,      \* no company
          Days,        \* the calendar, as numbers
          Totals,      \* values an ata is registered with
          Values       \* values of an aditivo

VARIABLE contrato      \* status, company, contracted value, sum of aditivos, last day

Ended == {"encerrada", "cancelada"}

Init == contrato = [a \in Atas |-> [status |-> "ausente", fornecedor |-> Nobody,
                                    total |-> 0, soma |-> 0, fim |-> 0]]

Write(a, row) == contrato' = [contrato EXCEPT ![a] = row]

\* Registering, and editing as long as nobody activated it.
Draft(a) ==
    /\ contrato[a].status \in {"ausente", "rascunho"}
    /\ \E c \in Cnpjs, total \in Totals, fim \in Days :
           Write(a, [status |-> "rascunho", fornecedor |-> c,
                    total |-> total, soma |-> 0, fim |-> fim])

Reach(a, from, to) ==
    /\ contrato[a].status \in from
    /\ Write(a, [contrato[a] EXCEPT !.status = to])

Move(a) ==
    \/ Reach(a, {"rascunho", "suspensa"}, "vigente")
    \/ Reach(a, {"vigente"}, "suspensa")
    \/ Reach(a, {"vigente", "suspensa"}, "encerrada")
    \/ Reach(a, {"rascunho", "vigente", "suspensa"}, "cancelada")

Increase(a) ==
    /\ contrato[a].status = "vigente"
    /\ \E v \in Values :
        /\ 4 * (contrato[a].soma + v) <= contrato[a].total
        /\ Write(a, [contrato[a] EXCEPT !.soma = contrato[a].soma + v])

Extend(a) ==
    /\ contrato[a].status = "vigente"
    /\ \E d \in Days :
        /\ d > contrato[a].fim
        /\ Write(a, [contrato[a] EXCEPT !.fim = d])

Next == \E a \in Atas : Draft(a) \/ Move(a) \/ Increase(a) \/ Extend(a)

Spec == Init /\ [][Next]_contrato
=============================================================================

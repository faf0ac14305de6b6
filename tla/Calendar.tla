------------------------------- MODULE Calendar -------------------------------
(***************************************************************************)
(* The calendar behind the alert of reajuste and the audit trail: the date *)
(* a reajuste falls due, computed once in Python for what is shown         *)
(* (services/atas.py) and once in SQL for what is selected                 *)
(* (repositories/ata.py), the local day of an instant (core/clock.py), and *)
(* the yearly partitions of historico_movimentacao (migration 0001).       *)
(*                                                                         *)
(* A date is a record of year, month and day; Ordinal counts days, and an  *)
(* instant is counted in hours of UTC.                                     *)
(***************************************************************************)
EXTENDS Atas

CONSTANTS FirstYear, LastYear,   \* the years of the budgets looked at
          AlertDays              \* ata_alert_days

ASSUME CalendarAssumption ==
    FirstYear \in Nat /\ LastYear \in Nat /\ FirstYear <= LastYear /\ AlertDays \in Nat

Leap(y) == (y % 4 = 0 /\ y % 100 # 0) \/ y % 400 = 0

February(y) == IF Leap(y) THEN 29 ELSE 28

Length(y, m) ==
    IF m = 2 THEN February(y) ELSE IF m \in {4, 6, 9, 11} THEN 30 ELSE 31

Exists(d) == d.mes \in 1..12 /\ d.dia \in 1..Length(d.ano, d.mes)

Dates == {d \in [ano : FirstYear..LastYear, mes : 1..12, dia : 1..31] : Exists(d)}

\* Days before a year, and before a month of a year.
BeforeYear[y \in FirstYear..(LastYear + 2)] ==
    IF y = FirstYear THEN 0 ELSE BeforeYear[y - 1] + (IF Leap(y - 1) THEN 366 ELSE 365)

BeforeMonth(y) ==
    LET before[m \in 1..12] ==
            IF m = 1 THEN 0 ELSE before[m - 1] + Length(y, m - 1)
    IN before

Ordinal(d) == BeforeYear[d.ano] + (BeforeMonth(d.ano)[d.mes] + d.dia)

-----------------------------------------------------------------------------
(* The date of a reajuste.                                                   *)

\* reajuste_date: the same day of the next year, and the 28th where it has none.
ReajusteDate(d) ==
    LET due == [d EXCEPT !.ano = @ + 1]
    IN IF Exists(due) THEN due ELSE [due EXCEPT !.dia = 28]

\* An interval of 365 days in place of a year (a mutant).
PlusDays(d) == Ordinal(d) + 365

\* date + make_interval(years => 1): twelve months on, the day cut to the month.
PlusYear(d) ==
    LET last == Length(d.ano + 1, d.mes)
    IN Ordinal([d EXCEPT !.ano = @ + 1, !.dia = IF @ > last THEN last ELSE @])

\* America/Sao_Paulo is three hours behind UTC all year round.
LocalDay(at) == (at - 3) \div 24

\* The row is selected by the query ...
InReajusteAlert(d, at) == PlusYear(d) <= LocalDay(at) + AlertDays

\* ... and is shown with this many days left.
DaysRemaining(d, at) == Ordinal(ReajusteDate(d)) - LocalDay(at)

-----------------------------------------------------------------------------
(* The partitions of the audit trail.                                        *)

AnoInicial == 2026
AnoFinal == 2032

\* _criar_particoes.
PartitionYears(first, last) == first..last

\* criar_particao_historico: from 1 January to 1 January, in UTC. Days are
\* counted from the first partition's, hours from its first.
NewYear[y \in AnoInicial..(AnoFinal + 1)] ==
    IF y = AnoInicial THEN 0 ELSE NewYear[y - 1] + 24 * (IF Leap(y - 1) THEN 366 ELSE 365)

PartitionsOf(at) ==
    {y \in PartitionYears(AnoInicial, AnoFinal) : NewYear[y] <= at /\ at < NewYear[y + 1]}

-----------------------------------------------------------------------------
(* Properties.                                                               *)

\* A reajuste falls due 365 days after the budget, or 366 when a 29/02 lies in
\* between, and never before that of an earlier budget ("soonest first").
DueAYearLater ==
    \A d \in Dates :
        LET due == Ordinal(ReajusteDate(d))
            between(y) == LET leap == [ano |-> y, mes |-> 2, dia |-> 29]
                          IN Exists(leap) /\ Ordinal(leap) \in (Ordinal(d) + 1)..due
        IN /\ Exists(ReajusteDate(d))
           /\ due - Ordinal(d) = (IF \E y \in d.ano..(d.ano + 1) : between(y) THEN 366 ELSE 365)
           /\ \A e \in Dates : Ordinal(e) = Ordinal(d) + 1 => due <= Ordinal(ReajusteDate(e))

\* The query selects a budget exactly when the days shown beside it are within
\* the window, at every hour around the day it enters the alert.
ShownAsSelected ==
    \A d \in Dates :
        LET due == Ordinal(ReajusteDate(d))
        IN \A at \in (24 * (due - AlertDays - 2))..(24 * (due - AlertDays + 2)) :
              InReajusteAlert(d, at) <=> DaysRemaining(d, at) <= AlertDays

\* Whatever the day of its budget, a vigente ata nobody asked a reajuste for falls
\* due a year on, and is selected for the alert exactly when the days shown beside
\* it say so (AC-0002-18, -20).
ReajusteFallsDue ==
    (\E a \in Atas \ reajuste : ata[a].status = "vigente") => DueAYearLater /\ ShownAsSelected

===============================================================================

------------------------------- MODULE Lockout -------------------------------
(***************************************************************************)
(* The per-address lockout (services/lockout.py, repositories/             *)
(* login_attempt.py, services/authentication.py) for one submitted         *)
(* address: its row of tentativa_login and the logins in progress.         *)
(*                                                                         *)
(*   conferido  check_lockout let the attempt through; the password is     *)
(*              being verified                                             *)
(*   limpo      the right password was given and the row's DELETE is       *)
(*              flushed in the request's transaction, not yet committed    *)
(*                                                                         *)
(* An attempt keeps the instant it started (now in authenticate_local) and *)
(* uses it for everything it writes, however late it writes it.            *)
(***************************************************************************)
EXTENDS Integers, FiniteSets

CONSTANTS MaxAttempts,     \* max_login_attempts
          Window,          \* login_attempt_window_minutes
          Lock,            \* lockout_minutes
          Attempts,        \* logins in progress at the same time
          MaxDuration,     \* bound on the time a login takes
          MaxTime,         \* bound on the clock
          Nobody           \* no lock holder

\* The lockout outlasts the window, as the settings have it (both 15 minutes),
\* and two logins one after the other take less than either.
ASSUME SettingsAssumption ==
    /\ MaxAttempts \in Nat \ {0} /\ Window \in Nat \ {0} /\ Lock \in Nat
    /\ MaxTime \in Nat \ {0}
    /\ MaxDuration \in Nat /\ Window <= Lock /\ 2 * MaxDuration < Window
ASSUME AttemptsAssumption == IsFiniteSet(Attempts) /\ Nobody \notin Attempts

VARIABLES agora,           \* the clock
          linha,           \* the row of tentativa_login; tentativas = 0 when there is none
          trava,           \* holder of the row's lock
          tentativa,       \* the logins in progress
          palpites         \* history: failures recorded since the address was last clean

vars == <<agora, linha, trava, tentativa, palpites>>

NoRow == [tentativas |-> 0, ultima_em |-> 0, bloqueado_ate |-> 0]
Idle  == [fase |-> "livre", em |-> 0]

TypeOK ==
    /\ agora \in 1..MaxTime
    /\ linha \in [tentativas : Nat, ultima_em : 0..MaxTime, bloqueado_ate : 0..(MaxTime + Lock)]
    /\ trava \in Attempts \union {Nobody}
    /\ tentativa \in [Attempts -> [fase : {"livre", "conferido", "limpo"}, em : 0..MaxTime]]
    /\ palpites \in Nat

Init ==
    /\ agora = 1
    /\ linha = NoRow
    /\ trava = Nobody
    /\ tentativa = [t \in Attempts |-> Idle]
    /\ palpites = 0

Finish(t) == tentativa' = [tentativa EXCEPT ![t] = Idle]

\* Only a row can be locked, and the transaction's end releases it.
Release(t) == trava' = IF trava = t THEN Nobody ELSE trava

-----------------------------------------------------------------------------
\* A lock set, and not over at this instant (zero stands for NULL).
Locked(at) == linha.bloqueado_ate > at

\* The password looked at whatever the row says (a mutant).
CheckNothing(t) ==
    /\ tentativa[t].fase = "livre"
    /\ tentativa' = [tentativa EXCEPT ![t] = [fase |-> "conferido", em |-> agora]]
    /\ UNCHANGED <<agora, linha, trava, palpites>>

\* check_lockout before the password is looked at; AttemptsExceeded changes nothing.
CheckLockout(t) ==
    /\ tentativa[t].fase = "livre"
    /\ ~Locked(agora)
    /\ tentativa' = [tentativa EXCEPT ![t] = [fase |-> "conferido", em |-> agora]]
    /\ UNCHANGED <<agora, linha, trava, palpites>>

\* A window closed at both ends (a mutant).
WithinClosedWindow(at) == linha.tentativas > 0 /\ linha.ultima_em >= at - Window

\* The failure before this one is recent enough to go on counting.
WithinWindow(at) == linha.tentativas > 0 /\ linha.ultima_em > at - Window

NextCount(at) == IF WithinWindow(at) THEN linha.tentativas + 1 ELSE 1

\* The lock written on the fifth failure alone (a mutant).
LockOnTheFifth(at) ==
    IF NextCount(at) = MaxAttempts THEN at + Lock
    ELSE IF WithinWindow(at) THEN linha.bloqueado_ate
    ELSE 0

\* The minutes of the settings taken for seconds of the clock (a mutant).
LockInSeconds(at) == IF NextCount(at) >= MaxAttempts THEN at + 60 * Lock ELSE 0

BlockedUntil(at) ==
    IF NextCount(at) >= MaxAttempts THEN at + Lock
    ELSE IF WithinWindow(at) THEN linha.bloqueado_ate
    ELSE 0

\* A wrong password: count_attempt's upsert holds the row until block and the
\* audit row are written, all in one transaction of its own.
CountFailure(t) ==
    /\ tentativa[t].fase = "conferido"
    /\ trava = Nobody
    /\ linha' = [tentativas |-> NextCount(tentativa[t].em), ultima_em |-> tentativa[t].em,
                 bloqueado_ate |-> BlockedUntil(tentativa[t].em)]
    /\ palpites' = IF WithinWindow(tentativa[t].em) THEN palpites + 1 ELSE 1
    /\ Finish(t)
    /\ UNCHANGED <<agora, trava>>

\* The right password of an account that is not ativo: neither counted nor cleared.
RefuseInactive(t) ==
    /\ tentativa[t].fase = "conferido"
    /\ Finish(t)
    /\ UNCHANGED <<agora, linha, trava, palpites>>

\* clear deletes the row, if there is one, and holds it until the request ends.
Clear(t) ==
    /\ tentativa[t].fase = "conferido"
    /\ trava = Nobody
    /\ trava' = IF linha.tentativas > 0 THEN t ELSE Nobody
    /\ tentativa' = [tentativa EXCEPT ![t].fase = "limpo"]
    /\ UNCHANGED <<agora, linha, palpites>>

CommitLogin(t) ==
    /\ tentativa[t].fase = "limpo"
    /\ linha' = IF trava = t THEN NoRow ELSE linha
    /\ palpites' = IF trava = t THEN 0 ELSE palpites
    /\ Release(t) /\ Finish(t)
    /\ UNCHANGED agora

\* The session could not be opened, or anything else failed: the row stays.
Abort(t) ==
    /\ tentativa[t].fase # "livre"
    /\ Release(t) /\ Finish(t)
    /\ UNCHANGED <<agora, linha, palpites>>

Tick ==
    /\ agora < MaxTime
    /\ \A t \in Attempts : tentativa[t].fase = "livre" \/ agora < tentativa[t].em + MaxDuration
    /\ agora' = agora + 1
    /\ UNCHANGED <<linha, trava, tentativa, palpites>>

Next ==
    \/ \E t \in Attempts : \/ CheckLockout(t) \/ CountFailure(t) \/ RefuseInactive(t)
                           \/ Clear(t) \/ CommitLogin(t) \/ Abort(t)
    \/ Tick

Spec == Init /\ [][Next]_vars

-----------------------------------------------------------------------------
(* Properties.                                                               *)

\* However logins overlap, no more passwords are tried on an address than the
\* ceiling and the attempts that were already past the check when it was reached:
\* the count survives parallel failures, rolled-back logins and late writers.
GuessesBounded == palpites <= MaxAttempts + Cardinality(Attempts) - 1

\* A row at the ceiling is locked for exactly one lockout from the failure it
\* dates, so once the lock is over its window is over too and counting restarts
\* (AC-0001-03: "15 minutes after the last attempt").
LockFollowsLastFailure ==
    linha.tentativas >= MaxAttempts => linha.bloqueado_ate = linha.ultima_em + Lock

\* Whoever comes back when the lock is over starts a new count: one more typo
\* never locks the address again (count_attempt's decay, lockout and window alike).
FreshStartAfterLock ==
    linha.bloqueado_ate > 0 /\ ~Locked(agora) => ~WithinWindow(agora)

==============================================================================

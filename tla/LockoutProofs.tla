---------------------------- MODULE LockoutProofs ----------------------------
(***************************************************************************)
(* The safety theorems about Lockout, for any settings that satisfy        *)
(* SettingsAssumption and any number of logins in progress.                *)
(***************************************************************************)
EXTENDS Lockout, FiniteSetTheorems, TLAPS

USE SettingsAssumption, AttemptsAssumption

-----------------------------------------------------------------------------
(* The invariant.                                                            *)

\* The failures counted since the address was clean are what its row counts.
CountsAgree == palpites = linha.tentativas

\* A lock is only ever set on a row at the ceiling.
LockedAtCeiling == linha.bloqueado_ate > 0 => linha.tentativas >= MaxAttempts

\* No login takes longer than MaxDuration.
Prompt ==
    \A t \in Attempts : tentativa[t].fase # "livre" =>
        tentativa[t].em <= agora /\ agora <= tentativa[t].em + MaxDuration

Checked == {t \in Attempts : tentativa[t].fase = "conferido"}

\* The logins that passed the check before the ceiling was reached.
Early == {t \in Checked : tentativa[t].em < linha.ultima_em + Lock}

\* Once the ceiling is reached a login past the check was let in before the
\* failure that reached it was written, or after the lock is over ...
Apart ==
    linha.tentativas >= MaxAttempts =>
        \A t \in Checked : \/ tentativa[t].em <= linha.ultima_em + MaxDuration
                           \/ tentativa[t].em >= linha.ultima_em + Lock

\* ... and only the former can still raise the count.
Room ==
    linha.tentativas >= MaxAttempts =>
        linha.tentativas + Cardinality(Early) <= MaxAttempts + Cardinality(Attempts) - 1

IInv ==
    /\ TypeOK
    /\ CountsAgree
    /\ LockedAtCeiling
    /\ LockFollowsLastFailure
    /\ Prompt
    /\ Apart
    /\ Room

-----------------------------------------------------------------------------
(* What is known of the state, and of a login in it.                         *)

Row == [tentativas : Nat, ultima_em : 0..MaxTime, bloqueado_ate : 0..(MaxTime + Lock)]

LEMMA Known ==
    ASSUME IInv
    PROVE  /\ agora \in 1..MaxTime /\ linha \in Row /\ palpites \in Nat
           /\ linha.tentativas \in Nat /\ linha.ultima_em \in 0..MaxTime
           /\ linha.bloqueado_ate \in 0..(MaxTime + Lock)
           /\ \A t \in Attempts : tentativa[t].em \in 0..MaxTime
  BY DEF IInv, TypeOK, Row

LEMMA SetsAreFinite ==
    /\ Cardinality(Attempts) \in Nat
    /\ \A S \in SUBSET Attempts :
          IsFiniteSet(S) /\ Cardinality(S) \in Nat /\ Cardinality(S) <= Cardinality(Attempts)
  BY FS_CardinalityType, FS_Subset

\* One element less is one less to count.
LEMMA WithoutOne ==
    ASSUME NEW S \in SUBSET Attempts, NEW t \in S, NEW T \in SUBSET (S \ {t})
    PROVE  Cardinality(T) <= Cardinality(S) - 1
<1>1. IsFiniteSet(S) /\ IsFiniteSet(S \ {t})
  BY SetsAreFinite
<1>2. Cardinality(S \ {t}) = Cardinality(S) - 1
  BY <1>1, FS_RemoveElement
<1>3. Cardinality(T) <= Cardinality(S \ {t})
  BY <1>1, FS_Subset
<1>4. QED
  BY <1>2, <1>3

\* Fewer logins that could raise a count that stays leave as much room.
LEMMA FewerEarly ==
    ASSUME IInv, UNCHANGED linha, Early' \subseteq Early
    PROVE  Room'
<1>1. Cardinality(Early') <= Cardinality(Early)
  <2>1. Early \in SUBSET Attempts
    BY DEF Early, Checked
  <2>2. QED
    BY <2>1, SetsAreFinite, FS_Subset
<1>2. Cardinality(Early') \in Nat /\ Cardinality(Early) \in Nat
  BY SetsAreFinite DEF Early, Checked
<1>3. QED
  BY Known, SetsAreFinite, <1>1, <1>2 DEF IInv, Room

-----------------------------------------------------------------------------
(* Every action keeps the invariant.                                         *)

LEMMA InitIInv == Init => IInv
<1> SUFFICES ASSUME Init PROVE IInv
  OBVIOUS
<1>1. TypeOK
  BY DEF Init, TypeOK, NoRow, Idle
<1>2. CountsAgree /\ LockedAtCeiling /\ LockFollowsLastFailure /\ Prompt /\ Apart /\ Room
  BY DEF Init, NoRow, Idle, CountsAgree, LockedAtCeiling, LockFollowsLastFailure, Prompt, Apart, Room
<1>3. QED
  BY <1>1, <1>2 DEF IInv

LEMMA CheckLockoutKeeps ==
    ASSUME IInv, NEW t \in Attempts, CheckLockout(t)
    PROVE  IInv'
<1>1. /\ tentativa' = [tentativa EXCEPT ![t] = [fase |-> "conferido", em |-> agora]]
      /\ ~(linha.bloqueado_ate > agora)
      /\ UNCHANGED <<agora, linha, trava, palpites>>
  BY DEF CheckLockout, Locked
<1>2. /\ tentativa'[t].fase = "conferido" /\ tentativa'[t].em = agora
      /\ \A s \in Attempts \ {t} : tentativa'[s] = tentativa[s]
  BY <1>1 DEF IInv, TypeOK
<1>3. TypeOK'
  BY Known, <1>1 DEF IInv, TypeOK
<1>4. /\ (CountsAgree /\ LockedAtCeiling /\ LockFollowsLastFailure)'
  BY <1>1 DEF IInv, CountsAgree, LockedAtCeiling, LockFollowsLastFailure
<1>5. Prompt'
  BY Known, <1>1, <1>2 DEF IInv, Prompt
<1>6. linha.tentativas >= MaxAttempts => agora >= linha.ultima_em + Lock
  BY Known, <1>1 DEF IInv, LockFollowsLastFailure
<1>7. Apart'
  BY <1>1, <1>2, <1>6 DEF IInv, Apart, Checked
<1>8. Room'
  <2>1. CASE linha.tentativas >= MaxAttempts
    <3>1. Early' \subseteq Early
      BY Known, <1>1, <1>2, <1>6, <2>1 DEF Early, Checked
    <3>2. QED
      BY <1>1, <3>1, FewerEarly
  <2>2. CASE ~(linha.tentativas >= MaxAttempts)
    BY <1>1, <2>2 DEF Room
  <2>3. QED
    BY <2>1, <2>2
<1>9. QED
  BY <1>3, <1>4, <1>5, <1>7, <1>8 DEF IInv

LEMMA CountFailureKeeps ==
    ASSUME IInv, NEW t \in Attempts, CountFailure(t)
    PROVE  IInv'
<1> DEFINE at == tentativa[t].em
<1>1. /\ tentativa[t].fase = "conferido" /\ at \in 0..MaxTime
      /\ linha' = [tentativas |-> NextCount(at), ultima_em |-> at,
                   bloqueado_ate |-> BlockedUntil(at)]
      /\ palpites' = IF WithinWindow(at) THEN palpites + 1 ELSE 1
      /\ tentativa' = [tentativa EXCEPT ![t] = Idle]
      /\ UNCHANGED <<agora, trava>>
  BY Known DEF CountFailure, Finish
<1>2. /\ tentativa'[t].fase = "livre"
      /\ \A s \in Attempts \ {t} : tentativa'[s] = tentativa[s]
  BY <1>1 DEF IInv, TypeOK, Idle
<1>3. /\ linha'.tentativas = NextCount(at) /\ linha'.ultima_em = at
      /\ linha'.bloqueado_ate = BlockedUntil(at)
      /\ NextCount(at) = (IF WithinWindow(at) THEN linha.tentativas + 1 ELSE 1)
      /\ NextCount(at) \in Nat
  BY Known, <1>1 DEF NextCount
<1>4. BlockedUntil(at) \in 0..(MaxTime + Lock)
  BY Known, <1>1 DEF BlockedUntil
<1> HIDE DEF at
<1>5. TypeOK'
  <2>1. linha' \in Row
    BY <1>1, <1>3, <1>4 DEF Row
  <2>2. palpites' \in Nat
    BY Known, <1>1
  <2>3. tentativa' \in [Attempts -> [fase : {"livre", "conferido", "limpo"}, em : 0..MaxTime]]
    BY <1>1 DEF IInv, TypeOK, Idle
  <2>4. QED
    BY <1>1, <2>1, <2>2, <2>3 DEF IInv, TypeOK, Row
<1>6. CountsAgree'
  BY <1>1, <1>3 DEF IInv, CountsAgree
<1>7. LockedAtCeiling'
  BY Known, <1>3 DEF IInv, LockedAtCeiling, BlockedUntil
<1>8. LockFollowsLastFailure'
  BY <1>3 DEF LockFollowsLastFailure, BlockedUntil
<1>9. Prompt'
  BY <1>1, <1>2 DEF IInv, Prompt
<1>10. at <= agora /\ agora <= at + MaxDuration
  BY <1>1 DEF IInv, Prompt, at
<1>11. \A s \in Checked' : s \in Checked \ {t} /\ tentativa'[s].em = tentativa[s].em
                           /\ tentativa[s].em <= agora
  BY <1>2 DEF IInv, Prompt, Checked
<1>12. Apart'
  BY Known, <1>1, <1>3, <1>10, <1>11 DEF Apart, Checked
<1>13. Room'
  <2> SUFFICES ASSUME NextCount(at) >= MaxAttempts
               PROVE  NextCount(at) + Cardinality(Early')
                        <= MaxAttempts + Cardinality(Attempts) - 1
    BY <1>3 DEF Room
  <2>1. Early' \subseteq Checked \ {t}
    BY <1>11 DEF Early
  <2>2. Checked \in SUBSET Attempts /\ t \in Checked
    BY <1>1 DEF Checked
  <2>3. CASE WithinWindow(at) /\ linha.tentativas >= MaxAttempts
    <3>1. at < linha.ultima_em + Window
      BY Known, <1>1, <2>3 DEF WithinWindow
    <3>2. t \in Early
      BY Known, <1>1, <2>2, <3>1 DEF Early, at
    <3>3. at <= linha.ultima_em + MaxDuration
      BY Known, <1>1, <2>2, <2>3, <3>1 DEF IInv, Apart, at
    <3>4. agora < linha.ultima_em + Lock
      BY Known, <1>1, <1>10, <3>3
    <3>5. Early' \subseteq Early \ {t}
      BY Known, <1>11, <2>1, <3>4 DEF Early, Checked
    <3>6. Cardinality(Early') <= Cardinality(Early) - 1
      <4>1. Early \in SUBSET Attempts
        BY DEF Early, Checked
      <4>2. QED
        BY <3>2, <3>5, <4>1, WithoutOne
    <3>7. Cardinality(Early) \in Nat /\ Cardinality(Early') \in Nat
      BY <2>1, <2>2, SetsAreFinite DEF Early
    <3>8. linha.tentativas + Cardinality(Early) <= MaxAttempts + Cardinality(Attempts) - 1
      BY <2>3 DEF IInv, Room
    <3>9. QED
      BY Known, SetsAreFinite, <1>3, <2>3, <3>6, <3>7, <3>8
  <2>4. CASE ~(WithinWindow(at) /\ linha.tentativas >= MaxAttempts)
    <3>1. NextCount(at) = MaxAttempts
      BY Known, <1>3, <2>4
    <3>2. Cardinality(Early') <= Cardinality(Attempts) - 1
      <4>1. Early' \in SUBSET (Attempts \ {t})
        BY <2>1, <2>2
      <4>2. QED
        BY <4>1, WithoutOne
    <3>3. Cardinality(Early') \in Nat
      BY <2>1, <2>2, SetsAreFinite
    <3>4. QED
      BY SetsAreFinite, <3>1, <3>2, <3>3
  <2>5. QED
    BY <2>3, <2>4
<1>14. QED
  BY <1>5, <1>6, <1>7, <1>8, <1>9, <1>12, <1>13 DEF IInv

\* A login that ends, or whose password was right, can no longer raise the count.
LEMMA LeavesKeeps ==
    ASSUME IInv, NEW t \in Attempts, UNCHANGED <<agora, linha, palpites>>,
           trava' \in Attempts \union {Nobody},
           \/ tentativa' = [tentativa EXCEPT ![t] = Idle]
           \/ tentativa[t].fase = "conferido" /\ tentativa' = [tentativa EXCEPT ![t].fase = "limpo"]
    PROVE  IInv'
<1>1. /\ tentativa'[t].fase \in {"livre", "limpo"}
      /\ tentativa'[t].fase = "limpo" =>
            tentativa'[t].em = tentativa[t].em /\ tentativa[t].fase # "livre"
      /\ \A s \in Attempts \ {t} : tentativa'[s] = tentativa[s]
  BY DEF IInv, TypeOK, Idle
<1>2. TypeOK'
  BY DEF IInv, TypeOK, Idle
<1>3. (CountsAgree /\ LockedAtCeiling /\ LockFollowsLastFailure)'
  BY DEF IInv, CountsAgree, LockedAtCeiling, LockFollowsLastFailure
<1>4. Prompt'
  BY <1>1 DEF IInv, Prompt
<1>5. \A s \in Checked' : s \in Checked /\ tentativa'[s] = tentativa[s]
  BY <1>1 DEF Checked
<1>6. Apart'
  BY <1>5 DEF IInv, Apart
<1>7. Early' \subseteq Early
  BY <1>5 DEF Early
<1>8. Room'
  BY <1>7, FewerEarly
<1>9. QED
  BY <1>2, <1>3, <1>4, <1>6, <1>8 DEF IInv

LEMMA CommitLoginKeeps ==
    ASSUME IInv, NEW t \in Attempts, CommitLogin(t)
    PROVE  IInv'
<1>1. tentativa' = [tentativa EXCEPT ![t] = Idle] /\ trava' \in Attempts \union {Nobody}
  BY DEF CommitLogin, Finish, Release, IInv, TypeOK
<1>2. CASE trava # t
  BY <1>1, <1>2, LeavesKeeps DEF CommitLogin
<1>3. CASE trava = t
  <2>1. linha' = NoRow /\ palpites' = 0 /\ UNCHANGED agora
    BY <1>3 DEF CommitLogin
  <2>2. \A s \in Attempts : tentativa'[s] = tentativa[s] \/ tentativa'[s].fase = "livre"
    BY <1>1 DEF IInv, TypeOK, Idle
  <2>3. TypeOK'
    BY <1>1, <2>1 DEF IInv, TypeOK, NoRow, Idle
  <2>4. Prompt'
    BY <2>1, <2>2 DEF IInv, Prompt
  <2>5. (CountsAgree /\ LockedAtCeiling /\ LockFollowsLastFailure /\ Apart /\ Room)'
    BY <2>1 DEF NoRow, CountsAgree, LockedAtCeiling, LockFollowsLastFailure, Apart, Room
  <2>6. QED
    BY <2>3, <2>4, <2>5 DEF IInv
<1>4. QED
  BY <1>2, <1>3

LEMMA TickKeeps ==
    ASSUME IInv, Tick
    PROVE  IInv'
<1>1. /\ agora < MaxTime /\ agora' = agora + 1
      /\ \A t \in Attempts : tentativa[t].fase = "livre" \/ agora < tentativa[t].em + MaxDuration
      /\ UNCHANGED <<linha, trava, tentativa, palpites>>
  BY DEF Tick
<1>2. TypeOK'
  BY Known, <1>1 DEF IInv, TypeOK
<1>3. Prompt'
  BY Known, <1>1 DEF IInv, Prompt
<1>4. (CountsAgree /\ LockedAtCeiling /\ LockFollowsLastFailure /\ Apart /\ Room)'
  BY <1>1 DEF IInv, CountsAgree, LockedAtCeiling, LockFollowsLastFailure, Apart, Room, Early, Checked
<1>5. QED
  BY <1>2, <1>3, <1>4 DEF IInv

LEMMA NextKeeps == IInv /\ [Next]_vars => IInv'
<1> SUFFICES ASSUME IInv, [Next]_vars PROVE IInv'
  OBVIOUS
<1>1. ASSUME NEW t \in Attempts, CheckLockout(t) PROVE IInv'
  BY <1>1, CheckLockoutKeeps
<1>2. ASSUME NEW t \in Attempts, CountFailure(t) PROVE IInv'
  BY <1>2, CountFailureKeeps
<1>3. ASSUME NEW t \in Attempts, RefuseInactive(t) \/ Clear(t) \/ Abort(t) PROVE IInv'
  <2>1. UNCHANGED <<agora, linha, palpites>> /\ trava' \in Attempts \union {Nobody}
    BY <1>3 DEF RefuseInactive, Clear, Abort, Release, IInv, TypeOK
  <2>2. \/ tentativa' = [tentativa EXCEPT ![t] = Idle]
        \/ tentativa[t].fase = "conferido" /\ tentativa' = [tentativa EXCEPT ![t].fase = "limpo"]
    BY <1>3 DEF RefuseInactive, Clear, Abort, Finish
  <2>3. QED
    BY <2>1, <2>2, LeavesKeeps
<1>4. ASSUME NEW t \in Attempts, CommitLogin(t) PROVE IInv'
  BY <1>4, CommitLoginKeeps
<1>5. CASE Tick
  BY <1>5, TickKeeps
<1>6. CASE UNCHANGED vars
  BY <1>6 DEF vars, IInv, TypeOK, CountsAgree, LockedAtCeiling, LockFollowsLastFailure, Prompt,
              Apart, Room, Early, Checked
<1>7. QED
  BY <1>1, <1>2, <1>3, <1>4, <1>5, <1>6 DEF Next

THEOREM Always == Spec => []IInv
  BY InitIInv, NextKeeps, PTL DEF Spec

-----------------------------------------------------------------------------
(* The theorems.                                                             *)

\* The row, the clock and the logins keep their types, the lock's end included.
THEOREM TypeCorrect == Spec => []TypeOK
<1>1. IInv => TypeOK
  BY DEF IInv
<1>2. QED
  BY <1>1, Always, PTL

\* An address sees at most the ceiling and the logins already past the check,
\* whatever the settings and however many logins overlap (check_lockout and
\* count_attempt, which nothing holds together).
THEOREM FewGuesses == Spec => []GuessesBounded
<1>1. IInv => GuessesBounded
  <2> SUFFICES ASSUME IInv PROVE GuessesBounded
    OBVIOUS
  <2>1. Cardinality(Early) \in Nat
    BY SetsAreFinite DEF Early, Checked
  <2>2. CASE linha.tentativas >= MaxAttempts
    BY Known, SetsAreFinite, <2>1, <2>2 DEF IInv, CountsAgree, Room, GuessesBounded
  <2>3. CASE ~(linha.tentativas >= MaxAttempts)
    BY Known, SetsAreFinite, <2>3 DEF IInv, CountsAgree, GuessesBounded
  <2>4. QED
    BY <2>2, <2>3
<1>2. QED
  BY <1>1, Always, PTL

\* A lock ends exactly one lockout after the failure its row dates.
THEOREM LockEndsWithItsFailure == Spec => []LockFollowsLastFailure
<1>1. IInv => LockFollowsLastFailure
  BY DEF IInv
<1>2. QED
  BY <1>1, Always, PTL

\* When a lock is over, so is the window of the failures that led to it.
THEOREM FreshStart == Spec => []FreshStartAfterLock
<1>1. IInv => FreshStartAfterLock
  BY Known DEF IInv, LockedAtCeiling, LockFollowsLastFailure, FreshStartAfterLock, Locked, WithinWindow
<1>2. QED
  BY <1>1, Always, PTL
=============================================================================

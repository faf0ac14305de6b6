# SIGI: a TLA+ model of accounts, sessions and atas

SIGI (`src/README.md`) is a FastAPI application over PostgreSQL with a Next.js
front end. Its core is small and stateful: who may enter, who may manage whom,
how a session is renewed and ended, and the life of an *ata de registro de
preços*. Every request is one transaction under READ COMMITTED, so the hard part
is what two of them do to each other between a read and a commit. This directory
models that, checks it with TLC, and proves every safety property that the
prover can reach with TLAPS.

## 1. Inventory

| component | state it keeps | operations | what makes it correct |
|---|---|---|---|
| **Member management** `services/members.py`, `repositories/user.py`, `api/users.py` | `usuario`; the advisory lock `GESTOR_LOCK` | invite, reissue, trigger_reset, block, unblock, deactivate, bootstrap, seed, activate, redeem_reset | the last active gestor is never removed; no credential on a pending or anonymised account; one account per address |
| **Credential grants** `services/credentials.py` | `token_credencial` | issue, cancel, redeem, consume | one open grant per account and kind; spent once |
| **Refresh sessions** `services/sessions.py`, `repositories/session.py` | `familia_sessao`, `sessao_usuario` | open_session, rotate, replay revocation, close, revoke_for_usuario | generations without gaps; one usable token per browser; a blocked account stays out |
| **Local login and lockout** `services/authentication.py`, `services/lockout.py` | `tentativa_login` | check_lockout, count_failure, clear | guesses are bounded; a lock ends cleanly |
| **Rate limit** `services/throttle.py`, `core/throttling.py` | `limite_taxa` | source_of, count_hit, check | the ceiling is exact per client, whatever stands in front |
| **Atas** `services/atas.py`, `repositories/ata.py` | `ata`, `fornecedor`, `ata_aditivo`, `ata_reajuste` | register, edit, move, add_aditivo, add_reajuste; situacao, filter and alerts on read | the life of an ata; the sum of the aditivos; the audit of what was replaced; what is selected is what is shown |
| **Audit trail** `services/audit.py` | `historico_movimentacao` | record, record_standalone | a row lands with its mutation, falls in a partition, and tells the truth about the value before it |
| **Request transaction, pool and threads** `core/db.py`, `core/authorization.py`, `services/audit.py` | the engine's connections, the process's worker threads | get_session, current_usuario, Requires, standalone_transaction | all or nothing; a refusal goes out only with its row; every way out gives back what was taken; nobody waits for ever |
| **Access tokens** `core/security.py` | none, a signed claim | issue, verify | a valid token is worth what the account is worth now |
| **Browser session** `frontend/lib/session.ts`, `components/session-provider.tsx` | access token and refresh promise of a tab; cookie jar; Web Lock | apiFetch, refresh, logout | tabs do not end each other's session; no call hangs |
| **Institutional login** `services/oidc.py`, `api/oidc.py`, `auth/callback/callback-handler.tsx` | `usuario.oidc_subject`, a signed state cookie | authorize, callback | a subject is on one account, never on an anonymised one; a bound person keeps the account whatever the directory does to addresses; no login spends another's code; every refusal is recorded |
| Validators, schemas, hardening, correlation | none between requests | pure functions of one request | left to unit tests |
| Pages, layout, proxy of the front end | none of their own | render, forward | left to the e2e tests |
| `scripts/` | none | offline checks | not part of the running system |

How they interact: the browser calls the API through the front end's route
handler; `core/throttling.enforce` counts the request in a transaction of its
own; the handler's transaction calls one service, which locks, reads, writes and
calls `audit.record`; `get_session` commits *after* the response is sent, or
rolls back on any exception. What must outlive a refusal (a counted failure, a
replay) is written in a second transaction (`standalone_transaction`). Members
reaches sessions by `revoke_for_usuario`; sessions reaches members by
`_RoleOfRecord`, which reads the account when a token is rotated.

What is hard about it:

* *Interleaving.* Two gestores remove each other; two redemptions of one grant;
  a login, a rotation and a block; two aditivos of one ata.
* *Stale reads.* A row read through the identity map before the lock is what the
  decision under the lock uses (`members.py:418`); a token is tested on a row
  read without a lock (`sessions.py:97`).
* *Lock order.* The advisory lock, the target's row, the trigger's `FOR UPDATE`
  of every other gestor, the key shares of the foreign keys of a new grant or an
  audit row, and the second flush of `deactivate`, which needs the key.
* *Partial failure.* What a refusal writes is rolled back with it unless it has a
  transaction of its own; an answer may be lost after its transaction committed.
* *Resources.* A failing login holds one connection and waits for a second; the
  thread it holds is what somebody with a connection waits for; the pool gives up
  after a timeout, the database restarts under it.
* *Boundaries.* Fixed windows and a truncated wait, an inclusive lock end, three
  derived situações, 29/02, a New Year in UTC and in Brasília.

`PROJECT.json` lists these hazards line by line, each with the properties that
would catch it.

## 2. Modules

| module | what it is |
|---|---|
| `GestorGuard` | abstract promise: the set of active gestores never goes from some to none in one step |
| `Members` | accounts, grants, the guard, the trigger, entry; implements `GestorGuard` |
| `MembersProofs` | TLAPS proofs about `Members` |
| `RefreshFamily` | abstract promise: what one login may become. One owner, generations without a gap, a rotation trades one token for the next, nothing revoked works again |
| `Sessions`, `SessionsProofs` | families, generations, rotation, replay, logout, account-wide revocation; implements `RefreshFamily`; TLAPS proofs |
| `AtaLifecycle` | abstract promise: the states of one contract, its company, total, sum and term |
| `Atas` | atas, fornecedores, aditivos, reajustes and their audit; implements `AtaLifecycle` |
| `Calendar` | extends `Atas` with real dates: when a reajuste falls due, in Python and in SQL, and the yearly partitions of the audit trail |
| `AtasProofs` | TLAPS proofs about `Atas`, the refinement of `AtaLifecycle` among them |
| `Lockout`, `LockoutProofs` | one address, overlapping logins, a clock; TLAPS proofs |
| `Throttle`, `ThrottleProofs` | one route, several clients and proxies, a clock; TLAPS proofs |
| `BrowserSession`, `BrowserSessionProofs` | tabs, calls, the Web Lock, lost answers, requests that outlive their page, the answers of the API and later commits; TLAPS proofs |
| `InstitutionalLogin` | browsers, flows, the provider and its directory, callbacks from the cookie to the commit, the accounts they bind |
| `InstitutionalLoginProofs` | TLAPS proofs about `InstitutionalLogin` |
| `ConnectionPool`, `ConnectionPoolProofs` | a request from arrival to commit over worker threads and database connections, with a pool timeout and a database that stops; TLAPS proofs |
| `MC*` | model values and symmetry for TLC |

**Transactions.** A request is a record with a phase. Each phase boundary is a
point at which another transaction can come in between: after a read, after a
lock is granted, after a flush, at the commit. Writes become visible at the
commit action; a lock is a variable naming its holder, and an action that waits
for it is disabled while somebody else holds it. `Abort`/`RollBack` may end any
open request, which stands for errors, serialisation failures, disconnections
and conflicts on locks that are not modelled one by one. Names follow the code
and its schema (Portuguese for tables, columns and values).

**Members.** `usuario`, `token` are the committed tables; `sessaoViva` is the
abstraction of sessions that account management needs (accounts with an
unrevoked row). `Begin*` is the authorisation of the caller; `LockGestores` is
`repo.lock_gestores`; `DecideChange`, `NothingToChange`, `RefuseLastGestor` are
the three exits of `_change_status`. A flush of the account is `LockRow` (wait for
the row) and `FlushRow`, or, when it takes a gestor away, `Trigger`, `LockOther`
(once for each remaining gestor's row) and `TriggerPasses`: `fn_ultimo_gestor`.
`deactivate` goes on with `RecordDeactivation`, the audit row it writes before it
anonymises, and a second flush, which is the `LastStatement` of `CommitRow`;
`CommitRow` makes everything the handler wrote visible (status, grant, sessions,
audit). A redemption writes its grant first (`SpendGrant`), then the account, in
the order in which the ORM sorts the two classes. `credentials.issue` is
`CancelOpen` (what its snapshot shows), `LockGrant` (wait for that row),
`InsertGrant` (wait for an overlapping insert, fail on
`ux_token_credencial_aberto`) and `CommitGrant`. `StatusSeen` is the identity map:
acting on their own account a gestor sees the row read at authorisation.

`rowLock` is the lock of an update, `KeyShare` and `GrantHolders` say who holds a
foreign key's share or a grant's row, which follows from the phases, and the
`*Blockers` operators what excludes what in PostgreSQL's table of row locks.
Clearing `email` and `oidc_subject`, columns of unique indexes, needs
`FOR UPDATE`, as the trigger takes it; any other update needs
`FOR NO KEY UPDATE`, which key shares do not disturb. `UpdateLocksKey` leaves one
thing open: whether the server counts the generated column under
`ux_usuario_pseudonimo` as changed by every update. The proofs hold for both.
`BreakDeadlock` is `deadlock_timeout`.

**Sessions.** `sessao[<<family, generation>>]` is `ausente`, `viva`, `vencida`
or the reason it was revoked for. `ReadToken` is `by_hash`, `CheckRole` is
`_RoleOfRecord`, `LockToken` the flush of the revocation and the read of
`next_generation`, `InsertNext`/`CommitRotate` the new row under
`uq_sessao_geracao`. A revoking `UPDATE` visits the rows of its snapshot. For
`RefreshFamily` the tables are three things (`Owners`, `Issued`, `Working`): the
owner of each family, the rows there are and the ones not revoked.
`SingleFlight` is the set of families in which two refreshes are never under way
together: those of a browser that has Web Locks and misses no answer. What it asks
is the theorem `RefreshesKeptApart` about `BrowserSession`.

**Atas.** `LockAta` is `_lock` (`SELECT ... FOR UPDATE`, the first read of the
row in its session), after which the decision rests on the row it read; `Move`,
`EditDraft`, `EditCarried`, `AddValor`, `AddPrazo`, `AddReajuste` decide and
commit. `FindSupplier` is the look-up of the company an edit names, under the lock;
the company may be inserted by that edit or, in between, by another. An audit row
holds the row before, or for an aditivo of value the total plus the aditivos there
were (`AuditValor`). `Situacao`, `InFilter` and `RenewalAlert` are the reads.

**Calendar** has the dates that the small days of `Atas` stand for. `ReajusteDate`
is what Python shows (the 28th where the next year has no such day), `PlusYear`
what PostgreSQL selects by (`make_interval(years => 1)`, the day cut to the
month), each with the local day of an instant. `BeforeYear`, `BeforeMonth` and
`NewYear` are recursive functions that count days and hours. `PartitionsOf` an
instant are the partitions `_criar_particoes` made for it, bounded in UTC; rows
of the audit trail carry no instant in the model, so this is arithmetic about the
migration, for a theorem and not for a run. `ReajusteFallsDue` ties the dates to
the rows they are about (a vigente ata without a reajuste).

**ConnectionPool.** A request is a phase, the connection of its session and the
one of its `standalone_transaction`. `ThreadFree` counts the phases a worker
thread is needed for: a dependency gives its thread back before the handler asks
for one. `Asking` are the phases about to run a first query; `Take` is the
checkout with `pool_pre_ping`. `Accept` is the answer, `Commit` what happens
after it, `Raise` and `Undo` an exception on its way through `get_session`, and
`BeginRecord`/`CommitRecord` the row of a refusal (`_record_failure`,
`_audit_refusal`, a replay). `TimeOut` is the pool's, `DatabaseStops` breaks
every connection at once, and a request notices at its next statement or, after
the answer left, at the commit (`CommitFails`). `BlockCaller` is somebody else's
commit. `desfecho` is the request the latest step ended, as it ended.

**Lockout** and **Throttle** have a clock, `agora`, that ticks between any two
steps. `Arrivals` lists what reaches the application for a client: directly or
behind one or two proxies that append what they saw to the header it came with.
In `Throttle` a second has `TicksPerSecond` ticks, because what the code truncates
to a second (`RetryAfter`) is a difference of finer instants.

**BrowserSession.** `voo[t]` is `inFlight`; `lock` the Web Lock; `chamada` the
calls of `apiFetch` with their single retry (`RetryCall`). What a tab sent is a
request of its own (`pedido`): the API reads its token (`ReadToken`), rotates it
(`Rotate`, which answers) and commits later (`CommitRotation`, or `FailCommit`).
Between the read and the rotation the token may be spent by another request, and
the rotation still goes through, because its UPDATE names the row by its id.
`Lose` is a failed `fetch` or `json()`, `Leave` a page that goes away with its
memory and its lock; its request goes on without it (`Orphan`). `marcas` remembers
the tokens whose answer the browser never stored.

**InstitutionalLogin.** `fluxo[f]` is one authorize with its state, nonce and
verifier; `estado[b]` the one cookie a browser has for it. `Receive` is the
callback page handing its address to the API, `Exchange` and `ProviderFails`
are `finish`, `LookUpSubject` and `LookUpEmail` the two reads of `callback`,
`FlushBinding`/`FlushSession` its flush with the row locks and the constraints
PostgreSQL checks there, `Answer` and `Commit` what leaves before and what
happens after, `RecordRefusal` the transaction of `_audit_refusal`.
`ReadDeactivate`/`WriteDeactivate` are the two ends of a deactivation: the row it
read decides which columns it writes (`Anonymised`). `titular` records, for the
properties, which account held the subject when the provider asserted it.

## 3. Runs

All passing runs check deadlock except the two with a bounded clock, which stop
when the clock does.

| run | what it shows | bounds and why they are enough |
|---|---|---|
| `MembersGestores` | `Members` implements `GestorGuard`; the trigger never has to refuse (`TriggerIsBackstop`) | three accounts, two founding gestores and a seeded one, three transactions that block, unblock or seed: two suffice to empty the set, the third is the unblock or seed that moves the count under them. Deactivation removes a gestor in the same steps as a block up to its first flush and is offered in the next run: with it, three transactions are too many states (the proofs have no such limit) |
| `MembersGrants` | credentials (an address names one account, and its password opens it only while it should) and bootstrap stay consistent; one grant of a kind is outstanding (`OneOpenGrant`); what circles of waiting transactions there can be (`RemovalsDoNotDeadlock`) | empty table, three accounts, two people, two grants that may expire, two transactions: two invitations of one address, two bootstraps, two links for one account, reset against deactivation, deactivation against a link. With `UpdateLocksKey`, under which most waits exclude each other |
| `MembersLiveness` | every request is answered | two accounts that are gestores, one grant, two transactions: deactivations, links, logins, refreshes, logouts, among which circles do form (a deactivation and a link for the same account) and are broken |
| `SessionsFamilies` | `Sessions` implements `RefreshFamily`; `OneLiveToken`, `BlockedStaysOut` | one account, two families (one of them in `SingleFlight`), three generations, two transactions: the second rotation of a family is the one that can collide or leave a gap |
| `AtasLifecycle` | `Atas` implements `AtaLifecycle`; `AuditTellsTheBefore`; `ViewsAgree`; `ReajusteFallsDue` | two atas, two numbers, two companies, two transactions, days 1..3 with a window of 1, a total of 8 and aditivos of 1: two aditivos fit the ceiling of 25 % one by one and exceed it together, and the days lie on each side of both boundaries. Number, company and term vary over drafts and edits, the total does not: the proofs cover any set of totals and values. Budgets of every day of 2027 and 2028, a leap year, with an alert of 90 days, at every hour of four days around the one it begins |
| `LockoutCounting` | `GuessesBounded`, `LockFollowsLastFailure`, `FreshStartAfterLock` | ceiling 3, window and lock of 5 ticks (the settings have both at 15 minutes), three attempts of at most 2 ticks, clock to 20: three locks one after the other |
| `ThrottleCeiling` | `CeilingIsExact` (a burst across a boundary is two ceilings, as it implies), `WaitMeetsTheWindow` | two clients, two ceilings, one proxy, windows of 2 seconds of 2 ticks, four requests: enough to fill two windows and to be refused on every tick of one |
| `BrowserTabs` | `OneTokenAlive`, `ReplayHasAReason`, `CallsSettle` (of one of the two calls, which nothing tells apart) | two tabs, two calls, two requests under way, one rotation after the token they start with: a replay takes two uses of one token, and one of the two requests may have outlived its page |
| `InstitutionalBinding` | `OwnCodeOnly`, `IdentityConsistent`, `EmailChangeDoesNotOrphan`, `AnsweredAsRecorded` | two accounts, subjects, addresses, flows and callbacks, one browser: the second flow overwrites the cookie of the first, an expired cookie stands for any other browser, the second subject can be given the address of the first, and two bindings can meet on one account or one subject, each beside a deactivation |
| `PoolExhaustion` | `NoneLeaked`, `RefusedAsRecorded`, `SuccessIsKept`, `RestartSparesNewcomers`, `BlockedIsRefused`, `EveryRequestEnds` | two requests, two connections, one or two threads, all three routes: both requests can hold a connection and wait for a second, or one holds the thread that the holder of a connection waits for; the database may stop and the caller may be blocked at any step |
| `ClaimRefusalAudit` | violation of `RefusalIsRecorded` | section 6 |
| `ClaimGrantReuse` | violation of `GrantSpentOnce` | section 6 |

Bounds that are guards: `Offered` (which operations arrive), `TableFull` (an insert
for which a finite table has no row left fails), `Starts`, `Totals` and `Values`
(what an ata is registered with and an aditivo adds), `MaxGen`, `MaxToken`, `Pedidos` (refresh requests under way), `MaxTime`, `MaxDuration`. When a bound is reached the operation that
would pass it does not happen; nothing is wrapped around or forgotten.

Symmetry is over the interchangeable model values (accounts not told apart by
`Founders`, requests, families on either side of `SingleFlight`), and never in a
run with a liveness property.

**Fairness.** `MembersLiveness`: strong fairness of the steps of an open request,
because PostgreSQL queues the waiters of a lock and grants it in order, and weak
fairness of `BreakDeadlock`, because after `deadlock_timeout` it rolls back one
transaction of a circle; nothing obliges a request to arrive or any other to abort. `BrowserTabs`: strong fairness of `TakeLock` (Web Locks are granted in
order), weak fairness of what the API does with a request and of its answer's
arrival, which losing it ends too (the server answers, or the connection is given
up), and of the answer to a call; nobody has to start a call, leave a page or log
out. `PoolExhaustion`: strong fairness of the steps that wait
for a worker thread, because the limiter grants them in order; weak fairness of
the rest, because a request that has its thread runs on, a wait for a connection
ends at the pool's timeout (30 s) and a statement on a dead connection fails.
Nothing is assumed of the database: it may stay down. No other run needs fairness.

## 4. Proofs

Of `Members`. Assumptions: only those the module states. `Nobody` is no element of the other
sets, `Founders \subseteq Users`, `Offered \subseteq Op`, `Development` is
Boolean. The sets may be infinite: no proof uses a cardinality.

* `TypeCorrect`: `Spec => []TypeOK`. `TypeOK` alone is not inductive, because
  `CommitRow` writes fields of the request that are only sensible for its
  operation and phase; `TInv` adds `RequestOK`, what each operation has filled
  in when it is under way. One lemma per group of actions (`ArriveType`,
  `StepType`, `CommitRowType`, ...).
* `LastGestorRemains`: `Spec => Guard!Spec`, the refinement. A single look at the
  guard in `_change_status` proves nothing: the count was made some steps before
  the commit. `LInv` says why it still holds then: a request past its flush
  holds its target's row (`HoldsTarget`); one that takes a gestor away and is
  past the trigger holds the row of another gestor who is still active
  (`HoldsKeeper`), since the trigger's `FOR UPDATE` took it, and rows change only
  under their lock. `GuardStep` maps every step to a step or a stutter of
  `GestorGuard`.
* `BackstopNeverFires`: `Spec => []TriggerIsBackstop`. Between the count under the
  advisory lock and the trigger, other requests may add gestores and may not
  remove one: those that remove need the advisory lock.
* `CredentialsConsistent`: `Spec => []CredentialConsistency`. The passwords from the
  CHECKs of the row that is committed (`PassedChecks`) and the lock that keeps it,
  the addresses from the UNIQUE at the commit (`AddressesUnique`).
* `OneGrantOpen`: `Spec => []OneOpenGrant`. The cancelling sees a snapshot, so it may
  miss a grant opened meanwhile; what keeps them apart is the insert. `GInv` says
  that a request that has inserted a grant (`Issuing`) is the only one to have done
  so for that account and kind, and that nothing is outstanding beside the grant it
  cancels.
* `RemovalsKeepApart`: `Spec => []RemovalsDoNotDeadlock`, for any number of
  transactions. It is not true that no circle can form: a deactivation of `u` by
  `a` and a link issued by `a` for `u` wait for each other, and section 6 has
  others. `OInv` says in which phases a request holds what: the
  advisory lock or a row is held only past the step that takes it
  (`LocksTakenInOrder`). So a removal that is waited for holds the advisory lock
  (`WaitedFor`, `WaitedForHolds`), and a circle has one removal at most. An
  activation or a reset that holds its account's row, and a bootstrap that holds
  the advisory lock, wait for nothing any more (`NothingToWaitFor`); for the grant of
  the former only such requests wait as nobody waits for; logins and invitations
  hold nothing.
* `BootstrapsOnlyTheFirst`: `~Development` implies that no bootstrap commits while
  somebody can manage members. `FInv`: while nobody manages the entity it has no
  account at all, so nothing but a bootstrap is under way, and the advisory lock
  lets one of them through at a time. With `seed_dev_admin` it would be false.

Of `InstitutionalLogin`, all its properties. The one assumption is that `Nobody`
is no element of the other sets, which may be infinite too.

* `TypeCorrect` and `OwnCodePresented`, from `TInv`: `TypeOK` alone would let a
  callback reach its exchange without a flow. `Filled` says what each phase has
  filled in; a callback past the comparison of the state has the cookie of its
  own flow, which is why no other verifier can go with the code.
* `IdentityKept`: `Spec => []IdentityConsistent`. What the constraints saw at the
  flush must still be true at the commit. `IdInv` says so of every open binding
  (`Pending`): its account is not anonymised, its subject is on no other account,
  and no two of them share an account or a subject. A deactivation waits for the
  row (`Binding`), another binding for the row or the index entry (`Inserting`).
  `Rewrite` is the one argument for every step that writes a row.
* `BoundAccountFound` and `EveryAnswerRecorded`, from `AnswerInv`: while an account
  holds the subject (`Keeps`), uniqueness makes it the only one the first look-up
  can find, so the look-up by address is never reached; `Told` relates phase,
  answer and audit row of a request.

Of `ConnectionPool`, all its safety properties, for any requests, connections and
thread pools. `IInv` adds to the properties what a phase implies (`Sound`): which
of the two connections a request has, which answer it carries and that a row goes
with exactly the answer `recusado`, that a dead connection it holds died while it
held it, and that past `current_usuario` the caller was ativo some time since the
arrival. `Step` summarises every step of one request (it keeps, is lent or gives
back at most one connection), and `NoneLeaked` follows from the summary.

Of `Sessions`, all its properties, for any families and generations. `IInv` adds
`Reserves` (a rotation under way has every generation below its own committed, and
once inserted its unique index entry keeps that generation for it), `Presents` (a
refresh acts for the owner of a row that exists), `Serial` and `Alone` (in a
browser with Web Locks, only the token being refreshed can still be live).
`GapFree`, `SingleToken` and `TypeCorrect` are its parts; `StaysOut` is an action
property proved from it. `Implements` is the refinement of `RefreshFamily`: only the
three commits write what the promise is about. That a rotation's generation is
still the next one when it commits (`CommitRotateTrades`) is `Reserves` from below
and, from above, that a later generation would have this one below it
(`GenerationsContiguous`); that a login finds an empty family is that no row is in a
family nobody opened. `RevokedForGood` reads the promise off those steps: what
stopped working never works again. That the next generation is one above all
committed ones needs the least number of a set, which `WellFoundedInduction` gives.

Of `Lockout`, all its properties, for settings with `Window <= Lock` and logins
shorter than half a window. `FewGuesses` is the one that is hard: once the ceiling
is reached, every login past the check was let in before the failure that reached
it or after the lock (`Apart`), and only the former can raise the count, so the
count and the number of them together stay within the bound (`Room`).

Of `Throttle`, all its properties, for any ceilings, window, resolution of the clock,
clients, proxies and requests. `SourceIsClient` first: whatever hops a request names,
the last one that is no trusted proxy is who sent it (`LastUntrustedHop`), so a
request is counted against its client (`Attributed`). `IInv` then relates three
things: the row of a client and a window is the number of its counted requests
(`Tallied`), each of them got a total of its own up to that number (`Numbered`), on
which it was served or refused (`Decided`). Requests served are thus mapped one to
one into `1..Ceiling`, and a refused one is the proof that more than the ceiling were
counted. `WaitMeetsTheWindow` is a lemma about a division (`WaitIsTheRest`).

Of `BrowserSession`, both its invariants and `TabsDoNotReplay`, for any tabs, calls,
requests and tokens; the last two under `HasLocks`, without which they are false. A
token is `Doomed` when a rotation has spent it or will at its commit. The jar and the
wire hold a doomed token only if the answer that replaces it was missed (`Safe`),
except while that answer is on its way to the one tab that holds the lock; what goes
on without its page presents a token that was marked when the page gave it up
(`Marked`). A fresh token is never doomed, because whatever is rotated had been issued
before (`ReadOnce`). `OneTokenAliveSafe` adds `Alone`: as long as nothing is marked,
at most one request has read its token, no rotation is pending then, and the token
that works is the one it read, or the one a pending rotation will spend.
`RefreshesKeptApart` is the part of it the API sees: although a rotation commits
after its answer left, the new token is refused until then, so the next refresh of
the session begins after it. `Sessions` assumes that of `SingleFlight`. With a
marked token two requests can both rotate, which the server does not prevent
(section 6).

Of `Atas` (in `AtasProofs`): `TypeCorrect`, `ViewsNeverDisagree`, `AuditIsBefore`
and `Implements`, the refinement of `AtaLifecycle`. `Knows` says that a request
holding an ata's row lock still knows the row and the sum it read, which is why what
it decides and audits is right when it commits, the sum it adds to the total
included; `RowsSound` that a draft has no aditivo and that every ata's company is
registered.

Of `Calendar` (also in `AtasProofs`), its property and more than the run looks at.
`EveryDateFallsDueAYearLater`, `SoonestFirst` and `SelectedAsShown` hold for every date
of any range of years, so for centuries with and without a leap day, any alert and
every instant; `OnePartitionPerInstant` says of every instant whether it has its one
partition, and that before 2026 and from the end of 2032 (UTC) there is none. tlapm
knows a recursive function only as a `CHOOSE`: `BeforeYearDef`, `BeforeMonthDef` and
`NewYearDef` show that the chosen function satisfies its own equation, by giving a
closed form that does (`LeapsBefore`, `Table`, `YearStart`), and `BeforeYearIs` that
it is that closed form, by the least year at which it would not be. `OrdinalIs` then
reduces the day a reajuste falls due to arithmetic (`AYearOn`), month by month only
where February lies in between.

Assumptions are those the modules name, which TLC evaluates on every run: sets are
arbitrary, and finite only where a property counts them (`Attempts`, `Requests` of
`Throttle`).

Only model-checked: liveness (`RequestsFinish`, `CallsSettle`, `EveryRequestEnds`),
since fairness and `ENABLED` are outside the prover. Every other property of a
passing run is also proved.

## 5. What the models leave out

* *Members.* Waits for rows of sessions and of login attempts, and waits of two
  inserts of one e-mail, whose loser fails at its commit; the key share of an insert
  that is followed at once by the commit is taken by the commit; the trigger locks
  the other gestores in any order, where the code goes by id; a second deactivation
  of a deactivated account stutters; the grant and the account of a redemption are
  read in one step.
* *Sessions.* The locks and the commit of a revoking `UPDATE` are one step; the
  access token adds no state, because each request rechecks the account.
  Deactivation ends sessions exactly as a block does and is not offered twice.
* *Atas.* Of a row: number, company, status, total and term; of a company whether it
  is registered. Arguments are chosen
  when the decision is made. A reajuste is whether the ata has one.
* *Calendar.* The dates are checked beside the rows, not stored in them, so the
  window of the small days (`Window`) and that of the real ones (`AlertDays`) are
  two constants. The run looks at 2027 and 2028; the proofs are about every year.
  Brasília is UTC-3 (no daylight saving since 2019).
* *Lockout.* One address; a request lasts at most `MaxDuration`; the window is not
  longer than the lock (`Window <= Lock`) and two requests are shorter than it.
* *Throttle.* One route; the audit row of a refusal; a connection without a peer
  (`"desconhecido"`, `throttling.py:46-47`) and blank hops.
* *BrowserSession.* One session; the server's row lock is the one pending rotation
  (`Sessions` has the finer grain), and a logout or replay beside it does not wait; logout is one step with its answer,
  which may be lost; a page whose token was refused cannot log out.
* *InstitutionalLogin.* Signatures, nonce and key checks are one outcome
  (`ProviderFails`). `pendente`, `bloqueado` and `desativado` are all `inativo`,
  because the callback refuses them alike; guards of member management are those
  of `Members`. A deactivation takes no row lock between its read and its flush,
  and its wait for the rows that refer to the account is at the flush. A crash
  between answer and commit is left out.
* *ConnectionPool.* Entering `get_session` and the first step in the thread are one;
  what a handler does between its first query and its answer is one step, except
  for its refusals. A crash of the process and the closing of overflow
  connections are left out: both return what the requests held. `login` stands
  for every open route.
* *HTTP hardening, correlation, validators, schemas*: what they do to a request
  depends on that request alone and keeps no state another could disturb.
* *Pages and proxy of the front end, scripts*: rendering and offline checks.
* *Other components without a module*: see `components` in `PROJECT.json`.

## 6. Disagreements between the code and what is written about it

Two are runs that must find a violation, so that the text or the code can be
settled and the run turned round:

| run | code | text |
|---|---|---|
| `ClaimRefusalAudit` | the row `usuario.ultimo_gestor` is written in the request's session and rolled back with the refusal | `members.py:467-468`: the "request's session still commits" |
| `ClaimGrantReuse` | two redemptions that both read the open grant both commit | `credentials.py:122`: "Single use is enforced here and by the unique index" |

The rest were met while modelling and have no run of their own:

| code | text |
|---|---|
| a deactivated account can be blocked, then unblocked, and is active (`members.py:422`) | SPEC-0010:420-421: "this cannot be undone" |
| an account bound to one subject is entered by another that asserts its address, and of two overlapping callbacks the later commit overwrites the binding of the earlier (`api/oidc.py:83-100`) | data-model.md:34-37: matched by e-mail "only that once" |
| `activate` sets `ativo` whatever the status is: an invitation redeemed around a block restores the account (`members.py:270`) | `members.py:334-336`: "never silent" |
| a rotation read before a block inserts its row after the revocation; the row is live after an unblock | `members.py:337-338`: unblocking "restores no session" |
| a login that read `ativo` inserts its session after the block (`sessions.py:55`) | SPEC-0001:57, invariant I1 |
| after a deactivation cleared the address the person gets a second account | `members.py:75-77`: refused "in any status" |
| a rotation under way outlives the logout of its family (`sessions.py:143`) | `sessions.py:133`: "revoke the whole family" |
| a login or rotation that commits while a reset waits outlives it (`members.py:570`) | `members.py:544`: "end every session" |
| a deadlock at the second flush of `deactivate` (`members.py:396`) is outside the `try` of 436-442 and answers 500; a link issued for the same account by the same gestor is enough | `members.py:438-440`: mapping it keeps the answer 409 "instead of 500" |
| a deadlock with an unblock or a link at the first flush is answered `LastGestor` although gestores remain (`members.py:441`) | `members.py:438`: the trigger "can win the race to refuse" |
| the trigger's ordered locks do not order it with unblocks and links, which take a row and then the key of another | `0001_baseline.py:165-166`: "deterministic instead of a deadlock" |
| of two links issued at once for one account the second fails on `ux_token_credencial_aberto`: `cancel_open` does not see the first (`credentials.py:73`) | `credentials.py:67-69`: cancelling first avoids the unique violation |
| of two registrations or edits that create one company the second fails on the UNIQUE (`atas.py:460`) | SPEC-0002:138-139: it "points to the existing one" |
| the lockout is checked before the password and counted after it, so parallel guesses exceed the ceiling, by at most the number under way (`GuessesBounded`) | `login_attempt.py:26-27` |
| two refreshes that read one live token both rotate it (`sessions.py:115`); only the browser's lock keeps them apart, and a page left while its refresh is under way gives that lock up | `session.ts:8-9`: the API "treats a second use as a replay"; 9-10: "a refresh must never run twice with the same cookie" |
| `Retry-After` drops the fraction of a second (`throttle.py:105`) | `errors.py:350`: "when to try again" |
| the response leaves before the commit: another tab that refreshes at once with the new cookie can be refused | SPEC-0010, AC-0010-47 |
| the last partition ends with 2032 in UTC, three hours before the year ends in Brasília (`0001_baseline.py:422`) | `0001_baseline.py:436`: "at midnight on 1 January" |
| logins that fail still hold their request's connection while they wait for a second one, so a burst of them holds the whole pool until its timeout (`authentication.py:114`; `PoolExhaustion` shows it ends) | data-model.md:100-102: no run of failures should "exhaust the pool" |
| an exception with no handler is answered outside every middleware, without the headers and the correlation id (`main.py:21-44`) | `main.py:29-30`, AC-0001-43: every response carries them |
| the CHECK of `models/user_session.py` lists `lockout` where migration and code say `bloqueio`; `data-model.md:210` lacks `redefinicao` | text only |

## 7. Plan

1. *Done*: `GestorGuard`, `Members`; `Sessions`; `AtaLifecycle`, `Atas`, `Calendar`;
   `Lockout`; `Throttle`; `BrowserSession`; `InstitutionalLogin`; `ConnectionPool`;
   `RefreshFamily`, the promise `Sessions` keeps; the proofs of all of them.
2. Composition of `BrowserSession` with `Sessions`: the abstract server of the
   first as what the second implements for one family.
3. Composition of `Throttle` with `ConnectionPool`: a hit that is counted although
   the request it counts is never served.

To run: `tlc -config <run>.cfg <module>.tla` for a run of `PROJECT.json`, and
`tlapm` on the eight `*Proofs.tla` modules for the proofs.

# Bankito: verification project

TLA+ specifications of the Bankito backend, the TLC runs that check them on small
instances and the TLAPS proofs about them. Unless they start with `src/` or name a
file of the repository root, file names below are relative to
`src/backend/app/`.

Contents: 1 inventory · 2 the database the models assume · 3 modules · 4 runs ·
5 proofs · 6 observations without a run · 7 what is not modelled · 8 what could come next

## 1. Inventory

Bankito is a FastAPI application (async SQLAlchemy on PostgreSQL, several uvicorn
workers behind a load balancer) with Redis (rate limits, statements), Celery
workers (mail, images, statements, model training) and MLflow. Requests share
nothing but the database and Redis, except for what lives in one worker process
(the circuit breaker). Every request has one SQLAlchemy session (`core/db.py`).

| component | state | operations | interacts with |
|---|---|---|---|
| Money movement (`transaction/service.py`, `transaction/utils.py`) | `bankaccount.balance`, `transaction` rows, one transfer code per user | deposit, withdraw, initiate, complete | accounts and codes (shared rows), fraud scoring (call) |
| Fraud flagging and review (`core/ai/service.py`, `core/ml/deployment.py:206-300`, `transaction/service.py:881-1140`) | `ai_review_status`, `transactionriskscore` | score, flag, hold, review, complete an approved transaction | money movement (same rows), deployed model, circuit breaker |
| Idempotency keys (`transaction/utils.py:14-79`, three endpoints) | `idempotencykey` rows | look up, store | wraps withdraw, initiate and top-up |
| Virtual cards (`virtual_card/`) | card rows, account balance | create, activate, block, top up, delete | bank accounts (row lock, balance) |
| Circuit breaker (`core/resilience.py`) | state, failure counter, opening time, per process | call, record success, record failure | in front of inference |
| Accounts and KYC (`bank_account/`) | account rows, numbers | open (cap of three, one primary), activate | next of kin and profile (preconditions) |
| Next of kin (`next_of_kin/`) | rows per user | create (cap of three, one primary), update, delete (never the last) | precondition of accounts |
| Authentication and lockout (`auth/`) | account status, failed attempts, login code | register, activate, log in, verify code, refresh, reset password | shares the code column with transfers |
| Rate limiter (`core/rate_limit/`) | Redis counters, violation rows | check and count a request | every endpoint |
| Model registry (`core/ml/`, `core/tasks/ml.py`) | model rows and their status, evaluations | train, evaluate, deploy, archive, clean up | scoring, MLflow, Celery |
| Background jobs: images, statements, e-mails (`core/tasks/`, `core/services/`, `user_profile/`) | queued messages and their retries, task results, image URLs of a profile, PDFs in Redis | send, run, retry, redeliver, poll | Celery broker, Cloudinary, mail server; read balances and movements |
| Health, start-up, configuration, logging, migrations | a cache of health results | checks, wiring | all services |

What is hard, and therefore what the properties are about:

* *Interleaving and stale state.* Most operations read, decide and write in
  different statements. Some lock in between, and the lock does not refresh what
  was read before it (section 2).
* *Several commits per request.* Initiation commits up to four times (row, verdict,
  Failed, FLAGGED, or row, verdict, code), an idempotent request once more. A worker lost between
  two of them, or another request that acts between them, finds intermediate states.
* *Lock order.* Accounts are locked in id order, but a transaction row (autoflush) and
  foreign-key checks (key-share) add locks the order does not cover.
* *Overlapping calls.* The breaker decides before an await and records after it; the
  limiter reads, asks for the expiry and counts in three Redis commands; a failed login
  counts on from the value it loaded.
* *Delivery.* Tasks are acknowledged late, retried, and delivered again when a worker
  dies; results expire.
* *Long legal sequences.* Card life cycle, review decisions, model life cycle,
  lockout.

What makes each component correct:

* *Money movement.* No update of a balance is lost, none becomes negative, a completed
  move is one atomic debit and credit, a transaction's money moves once, and only after
  a reviewer's approval if it was flagged. Every request is answered.
* *Keys.* A key is answered with one success, and a retry of it executes nothing.
* *Cards.* A card never holds what was not paid, and an account pays exactly what its
  cards got.
* *Breaker.* Nobody calls during the cool-down, and it recovers.
* *Onboarding.* Caps, one primary record, and no account without profile and next of
  kin.
* *Authentication.* No session without the password, every failed attempt counts,
  nobody is locked out by fewer failures than the limit, a code is used once, and every
  lockout ends.
* *Rate limiter.* At most the limit per window, and every window ends.
* *Model registry.* One model in production, never none after there was one, an
  automatic deployment is an improvement, and what production misses is found.
* *Background jobs.* Every task ends, a repeated one leaves a bounded number of copies,
  a profile shows what was uploaded for it, a statement misses nothing of its period.

Where the code falls short of one of these, the property that is checked is the
strongest we found that it does keep (per concurrent request, for a user who waits for
answers, for deployments that do not overlap), and section 6 says what it does not.

## 2. The database the models assume

These facts about PostgreSQL at READ COMMITTED and about SQLAlchemy decide what
the code does. They are modelled, and marked external in `PROJECT.json`.

* A session has an identity map and the sessions of `core/db.py` use
  `expire_on_commit=False`: a row that is already loaded keeps its loaded values,
  also when it is selected again `FOR UPDATE`. Only `refresh` or a rollback
  discards them. Hence `view` in Ledger and `copy` in VirtualCards.
* A flush writes the columns whose value differs from the loaded one, as absolute
  values (`Written`). A column set to its loaded value is not written.
* A row lock lasts until commit or rollback. `INSERT` of a row with foreign keys
  takes `FOR KEY SHARE` on the referenced rows, in the order in which the
  constraints were created, which conflicts with `FOR UPDATE` (`ReferReceiver`,
  `InsertPending`, `Create`).
* A query autoflushes pending changes, which locks the changed rows (`ReviewFlush`).
* After `rollback()` loaded objects are expired and reading an attribute raises in
  an async session. The handlers that roll back and then mark a transaction Failed
  (`transaction/service.py:459-469, 1049-1061, 1124-1136`) therefore store nothing:
  `Rollback` and `DeadlockAbort` leave the row alone.
* The deadlock detector aborts a request on a cycle of waits; a lost worker or
  connection rolls back and releases its locks (`Crash`, `Lose`).

One step of a model is what a request does up to the next point at which another
request could see its work or be waited for: an unlocked read, the acquisition of a
lock, a commit.

## 3. Modules

| module | role |
|---|---|
| `Bank` | abstract specification: balances change only when an instruction is carried out, in one atomic step that does not overdraw |
| `Ledger` | money movement, fraud flagging and review: 25 actions over 11 variables; `B == INSTANCE Bank` with the instruction of a transaction read off its row |
| `MCLedger` | accounts, initial transactions and workloads for TLC |
| `LedgerProofs` | the inductive invariant of Ledger and what follows from it; the lock order excludes cycles of waits; without withdrawals no update is lost and Ledger implements Bank; the only way past the reviewer |
| `Idempotency`, `MCIdempotency`, `IdempotencyProofs` | look up, execute, store, around an abstract operation |
| `VirtualCards`, `MCVirtualCards`, `VirtualCardsProofs` | cards and the accounts that pay for them |
| `CircuitBreaker`, `MCCircuitBreaker` | the breaker with overlapping calls (its formulas are named `CBInit`, `CBNext`, ... since `ModelRegistryProofs`, whose last section is its proof, extends it together with ModelRegistry) |
| `Onboarding`, `MCOnboarding`, `OnboardingProofs` | profile, next of kin and account opening of one user with overlapping requests |
| `Login`, `MCLogin`, `LoginProofs` | registration, activation, two-step login, lockout and password reset of one user, and the code shared with transfers |
| `RateLimiter`, `MCRateLimiter`, `RateLimiterProofs` | the Redis counter of one bucket and the middleware around it |
| `ModelRegistry`, `MCModelRegistry`, `ModelRegistryProofs` | life cycle of the fraud models, scoring, review, and what evaluation learns from it |
| `BackgroundJobs`, `MCBackgroundJobs`, `BackgroundJobsProofs` | images, statements and e-mails as Celery tasks |

How they fit together: Idempotency treats the operation of Ledger or VirtualCards
as one commit or a refusal; VirtualCards treats the other operations on an account
as `Elsewhere`; the fallback of a rejected breaker call is the outcome `fallback`
of `Score` in Ledger; the accounts of Ledger are those that Onboarding opens. The code
column `otp` is one column with two writers: Ledger sees the transfers of its users
(`IssueOtp`, `CompleteCommit`) and Login the logins of one user with what transfers do
to it (`SaveTransferCode`, `FinishTransfer`). ModelRegistry shows where the scores come
from that Ledger's `Score` takes as arbitrary; a transaction is there what Ledger's
`review` column says of it. The statement of BackgroundJobs reads the balance and the
movements that Ledger commits (`Post`).

**Ledger.** `balance`, `active`, `otp` and `txn` are the committed columns.
`txn[t].status = "Absent"` is a draft that has not been inserted. A request names
the transaction it creates. `acctLock`, `keyShare` and `txnLock` are the row locks,
`step` the program counter of each request, `sess` and `view` its identity map.
`moves` is history. Each operation is a path through the actions:

* deposit: `DepositStart`, `LockAccount`, then `DepositCommit` or `Rollback`;
* withdraw: `WithdrawStart` (unlocked read, kept), `InsertPending`, `Score`; a
  clear score goes on to `LockAccount` and `WithdrawCommit` or `MarkFailed`, a
  flagged one to `Reload`, `FlagFailed`, `Reload`, `Hold`;
* initiate: `TransferStart`, `ReferReceiver`, `InsertPending`, `Score`, then
  `IssueOtp` or the flagging steps;
* complete: `CompleteRead` (status and code, unlocked), `LockAccount` per account
  in id order, then `CompleteCommit` or `MarkFailed`;
* review: `ReviewRead`, then `ReviewRecord`, or `ReviewFlush`, `LockAccount` and
  `ReviewCommit` or `Rollback`.

Any request may be refused at once, crash if it is in `Fragile`, or be the victim of
a deadlock. A completion may name any Pending transaction (the code does not compare
its owner with the caller, and references are listed in the history), and `known`
says whether the caller presents the code the sender holds; a code may have expired
whenever it is checked under the lock (`MarkFailed` is always possible). Amounts are
small naturals, `Converted` is a parameter: the arithmetic of currencies and fees is
no part of this module. Security questions, account names and rates are the
early returns of `Refuse`. Deposits lock without having read anything.

**Idempotency.** A request is `idle`, `execute`, `store`, or answered. `Hit` is the
lookup (a withdrawal names no user), `Taken` the unique constraint, which knows
neither endpoint nor expiry. `Prior` says which requests a client has seen answered
before it sends a retry.

**VirtualCards.** A request loads card and account in one join, a top-up locks the
account and writes balance and card from its copy. Statuses are written column-wise,
so block, activate and delete never touch the money of a card. `paid` is the sum of
the Completed top-up transactions. No code spends from a card.

**CircuitBreaker.** `Enter` and `Reject` are the critical section before the call,
`Succeed`, `Fail` the one after it, `Cancel` an await that is cancelled, which
records nothing. `stragglers` is history: the calls that were under way when the
circuit last opened. `MaxFailures` bounds the counter.

**Onboarding.** `profiles`, `kin`, `primaryKin`, `accounts` and `primaryAcct` are the rows
of one user (every query names the user). Each of the `Slots` carries one request:
`Begin` is its first query, `Continue` a later one, `Done` its commit or end, and each
query is an action, because nothing is locked between them. `memo` is what the request
keeps: the flag it will write, the record it loaded with the flag it had, and the
primary record to be demoted. SQLAlchemy writes only columns that differ from what was
loaded, hence `was` and `flagged` in `SaveKin`. A request whose first query refuses it
changes nothing and is not represented. Profile and next of kin are read by two queries
of one `refresh`; profiles are never deleted, so `CheckKyc` reads both at once.
`overlapped` and `raced` (a deletion committed while another was under way) are
history. Accounts are never deleted, next of kin may be.

**Login.** `row` is the user's row with the two times as relations to the clock
(`lastFailed` recent or past, `expiry` ahead or past); `copy` what a request loaded.
The writes are `Reset`, `Failed` and `WithoutCode`, column-wise: a column is written only
if its new value differs from the copy, so a `clear` that saw no code leaves a code that
another request issued meanwhile. The code commits more than once per request and
refreshes in between, hence `Clear`, `Issue`, `RefreshIssued`, `MailSent` as actions and
the second reset (`Consume`) of a login. `RequestOtp` and `VerifyOtp` decide in their
first query. Validation and hashing, tokens and cookies, and the wording of the generic
answers are left out; a password is right or not.

**RateLimiter.** `count` and `expires` are the key; `Get`, `Ttl`, `Setex` and `Incr` the
Redis commands, one action each, `Expire` the key's end. `FailOpen` is an error of Redis,
`PassUnlogged` and `CallAgain` the `except` of the dispatch that calls the endpoint again.
The bucket (path, address, user) is fixed: buckets share nothing.

**ModelRegistry.** A job is a Celery task or an administrator's request: `Train`,
`StoreModel`, `TrainingFails` (with its retries); `Ask` or `FindBest` and `Compare`, then
`Select` and `Deploy`, with a query between any two; `Lost` anywhere. Transactions are
scored (`ReadModel`, `Predict`, `CannotPredict`, `Decide`, `FallBack`) and reviewed
meanwhile. `Heuristic` is the formula of the code, in hundredths; what a model answers is
arbitrary. `is_fraud`, `Positive`, `get_false_negatives` are the labels of training,
evaluation and the list of misses. `races` is history. An initial model in production
is a choice of `Init`, because no code puts the first one there.

**BackgroundJobs.** A task is sent by a request (`Upload`, `SendMail`, `ReadBalance` and
`ListMovements`), does its one effect (`UploadImage`, `StorePdf`, `SendMessage`), returns,
is acknowledged; `Fail` is a retry with the count the message carries, `Lose` a worker
that dies (`lost` per task and `deaths` in all are history), `ResultExpires` the end of a
result, `Poll` the write of the URL into the slot the result names. Uploads have ids of
their own, so an upload is a task and a number. E-mails do not retry (`MailRefused`),
though the task is configured for it. A balance is the set of the completed movements
(`posted`); `Period` says which of all movements were created between the dates a client
asked for, any of them, since a movement may be created long before it completes. The
balance of a statement is not filtered by date, its list is. `Together` bounds which
tasks are sent side by side.

Operators marked *(mutant)* are plausible faults that stand before the definition
they would replace. No specification uses them.

## 4. Runs

Deadlock is checked in every run: where the workload is finished the specifications
have an explicit `Terminated` step; Onboarding, Login, RateLimiter and ModelRegistry
never stop being asked, up to their bounds.

| run | instance | checks |
|---|---|---|
| `contention` | three accounts, one inactive at first, pending transfers around a ring; two completions of any of them, a withdrawal of a whole balance with every score, a deposit; one request loses its connection | `NoDeadlock`, `NonNegative`, `IInv`, `OnlyCompletionsSlip` |
| `answers` | two accounts, one pending and one opposite flagged transfer; an initiation with every score that may crash, a completion, a review | `FreshUnderLock`, `ExactPosting`, `ImplementsBank`, `OnlyCompletionsSlip`, `Answered` |
| `shared_keys` | six requests of two users with one key at two endpoints; a double submission, two retries, a lost worker, expiry | `OneSuccess`, `ReplaysAreGenuine`, `RetriesAreReplayed` |
| `cards` | racing top-ups of one account that is used elsewhere; on another account top-ups in turn with activation, block and deletion of the card | `NonNegative`, `NeverMoreThanPaid`, `PendingIsEmpty`, `Conserved` |
| `breaker` | three callers, two of them cancellable, threshold 2 | `FailsFast`, `Recovers` |
| `onboarding` | one user, any sequence of requests with two under way at once, caps of two, lost workers | `Overshoot`, `WaitingClient`, `KycHolds` |
| `login` | one user, any sequence of requests with two under way at once, lockout after two failures, lockouts and codes that run out at any time | `NoSessionWithoutPassword`, `NoUnjustLockout`, `CountedWhenAlone`, `BoundedUse`, `LockoutEnds` |
| `limiter` | one bucket with a limit of two, three requests at once, a key that expires anywhere, failures of Redis and of the endpoint | `PastLimit`, `WindowUnlessTorn`, `AdmittedBound` |
| `models` | three models, two jobs at once of any kind that may die anywhere, a large and a small transaction scored and reviewed meanwhile | `TypeOK`, `OneUnlessRaced`, `LargeNeedsModel`, `MissesAreAccidents`, `ProductionStays`, `Upgrades` |
| `jobs` | two images of one slot, two of different slots, an image with a statement, or a statement with an e-mail; one retry each, a worker that dies once, movements inside and outside the period that complete at any time | `TypeOK`, `PhotoWasUploaded`, `EffectsBounded`, `ListedCoversBalance`, `Ends` |

The properties, beyond their comments in the modules:

* `NoDeadlock`: without initiations and approvals no cycle of waits exists; with three
  accounts the completions around the ring would close one if they did not lock in id
  order. With initiations and approvals there are cycles (section 6), and `answers`
  shows that the detector resolves them and that every request which has begun is
  answered.
* `NonNegative` survives even the stale copy of a withdrawal, because the copy that is
  checked is the copy that is subtracted from.
* `ExactPosting` (in `answers`): a balance changes only by the commit of a lock holder and
  by exactly the amount of its transaction. It holds for deposits, initiations,
  completions and reviews and fails for withdrawals (section 6).
* `FreshUnderLock` is why: everything except a withdrawal computes with the committed
  value for as long as it holds the lock.
* `ImplementsBank`: with its locks and sessions the ledger is an atomic bank, lost
  connections and aborted deadlocks included, so no half-applied transfer exists. It does
  not promise that an instruction is carried out only once (`applied_twice`).
* `OnlyCompletionsSlip`: the money of a flagged transaction moves by the approval of a
  reviewer or by the completion of a transfer, which looks at the flag nowhere (section
  6), and by nothing else: a flagged withdrawal is never paid by its own request, a
  reviewer who confirms a fraud pays nothing, whatever overlaps.
* `OneSuccess`, `ReplaysAreGenuine`, `RetriesAreReplayed` are what remains of
  idempotency under double submission: duplicates may both execute (section 6), but
  one only is told so, replays are genuine, and a retry that follows a stored,
  unexpired success executes nothing.
* `Conserved` is restricted to unhurried accounts, whose top-ups come one after the
  other and which nothing else uses: the stale copy of a top-up overwrites what
  happens meanwhile (section 6). Status changes of the card race with those top-ups.
* `FailsFast`: while the cool-down runs, no call starts and failures, those of
  stragglers included, leave the circuit open. The only way out is the success of a
  straggler, which closes it at once; the docstring of the breaker does not provide for
  that (section 6), so the property names it as the exception.
* `Recovers` is liveness: once the dependency answers, the circuit closes for good,
  cancelled trial calls included.
* `WaitingClient` is the rules of the repository for a user whose requests never
  overlap, in any order, with refusals and lost workers. Overlapping requests break it
  (section 6); `Overshoot` is what remains of the caps: one is exceeded by one record per
  further request under way. `KycHolds` holds under overlap: what the opening of an
  account required is still there when it commits and ever after, unless two deletions of
  next of kin raced.
* `NoSessionWithoutPassword` and `NoUnjustLockout` hold under every overlap, although
  failures are lost when two requests count from one value, and a late reset or
  increment overwrites a newer one. `CountedWhenAlone` and the first half of
  `BoundedUse` are the rules for requests that do not overlap. `LockoutEnds` is not
  obvious: `verify-otp` refuses a locked user without looking at the clock, only
  `request-otp` ends a served lockout, and a late failure may lock again.
* `PastLimit` counts the requests that will still be admitted: at and past the limit
  these are at most the other requests that were under way when it was reached.
  `WindowUnlessTorn` says when a bucket stays limited for ever: only after a key
  expired between TTL and INCR. `AdmittedBound` bounds what late `SETEX` commands, which
  restart a window, admit.
* `ProductionStays`: no overlap of deployments and no worker that dies in one leaves
  production empty. That an empty production is never filled is a finding
  (`first_deploy`). `OneUnlessRaced` and `Upgrades` say what a deployment promises alone
  and how much an overlap may cost. `LargeNeedsModel` hangs on the heuristic's score for
  a large amount being exactly the threshold, 70, and on the code flagging *at* it
  (`core/ml/deployment.py:287`); `explanation.md:54` says "risk scores > 0.7", under which
  a large amount at daytime would pass without a model. `MissesAreAccidents` states a blind
  spot: a fraud that production cleared appears in no evaluation.
* `ListedCoversBalance` depends on the order of the two queries: the list has every
  movement of its period that is in the balance. It does not have the others, so a list
  does not explain a balance, and is not meant to.
* `PhotoWasUploaded`: photos of one slot and of two are uploaded, retried and polled in any
  order, and a URL is written to the slot its own task was sent for. `EffectsBounded`
  hangs on the retry count that travels with the message.

Two runs show a disagreement between the code and what the repository says of it (the
findings in `PROJECT.json` quote the lines):

| run | property | shortest story |
|---|---|---|
| `applied_twice` | `MovedOnce` | two completions of one transfer read Pending and the code before either locks |
| `first_deploy` | `DeploysTheModel` | nothing is in production; a model is stored, an administrator deploys it, and nothing is deployed |

**Bounds.** Requests of Ledger, VirtualCards and Idempotency never loop, so a workload of
two to four operations on the same rows already contains every ordering of their steps;
two accounts are what a transfer touches and three are needed for a cycle longer than
two. Opening balances of 0 to 2 with amounts of 1 and 2 in Ledger, of 5 with 2 and 4 in
VirtualCards, make funds sufficient for one operation and not for two. One converted
direction distinguishes credited from debited amounts. Two cards and two accounts separate racing from orderly use. Threshold 2 and at
most 5 failures let late failures arrive in every state; at the bound a failing call is
simply not answered yet. Caps of two instead of three are reached and exceeded just the
same, and four ids leave one unused when two requests exceed the cap. `Outside` lets
other operations withdraw and pay back one amount.

Login: two slots are one overlap; a lockout after two failures with `MaxWrong` = 3
contains a lost failure, a lockout and a failure counted after it; two codes are the one
in the row and an older one that the other request still holds (three codes give the
same verdicts). RateLimiter: limit 2 and three requests have a reader
before, at and after the limit; `MaxRequests` = 14 lets every request restart a window
and fill it. ModelRegistry: with three models one is deployed, one better, one stored
meanwhile; two jobs are one race; amounts 10 001 and 900 are on the two ends of the
heuristic and the hour decides for the small one; scores 10 and 90 are below and above
both thresholds (50 of evaluation, 70 of flagging). BackgroundJobs: one retry and one
loss reach the last attempt and a delivery after it; tasks share nothing but the profile
(images of one slot overwrite one another, those of two must not) and the worker that may
die, so two at a time are enough. The proofs depend on no bound.

**Fairness.** Ledger (`FairSpec`): weak fairness of `Advance(r)`, because a
coroutine that is ready is scheduled and PostgreSQL grants a free lock, and of
`DeadlockAbort(r)`, because the detector runs after `deadlock_timeout`. Nothing is
assumed about requests arriving, crashing or accounts being activated. A request can
wait for a lock only of a request that itself advances, ends or is aborted, and
every workload is finite, so weak fairness is enough. CircuitBreaker: time
passes (`CoolDown`), traffic goes on (`Enter`), and a dependency that has recovered
answers (`healthy /\ Succeed`); the last is weak, so a call that is cancelled need not
succeed. Login (`FairSpec`): the event loop carries on with every request that is under
way (`Proceeds`, weak), time passes (`LockoutElapses`, weak), and the user keeps asking
for a code with the right password: strong, because others of the user's requests may
occupy the slots or lock the account again in between; the wrong attempts stop
(`MaxWrong`). BackgroundJobs: a worker goes on with a task (`Work`, weak) since Celery
redelivers what is not acknowledged; workers die finitely often (`MaxLosses`), for a task
that kills each of its workers would be delivered for ever. Nobody need poll.

## 5. Proofs

All for every value of the constants that satisfies the named assumptions: any
accounts, users, requests, workloads, amounts, initial transactions, scores, limits and
crashes. The TLC instances satisfy the assumptions, and the runs evaluate them.

* **Ledger** (`LedgerProofs`). `IInv` is inductive (`NextInv`) and yields
  `TypeCorrect`, `NeverOverdrawn` and `LockedCopiesAreFresh`. `NonNegative` alone is
  not inductive: a commit writes the copy in the identity map, so the copy must be
  known to be non-negative (`ViewInv`) and, for all but withdrawals, equal to the row
  (`FreshUnderLock`); that is kept because only the holder of a lock writes the row
  (`LockInv`: who applies holds all locks it needs, on accounts of its transaction),
  and a copy without the lock is held by withdrawals only. `RowInv` and `SessInv`
  say which accounts a transaction has and that a running request has one.
  The proof has a lemma per action; `ContinueInv`, `FinishInv`, `BeginInv` and
  `MoveFacts` hold what the actions share.
* **Lock order** (`LedgerProofs`, `LockOrderHolds`): however many deposits, withdrawals
  and completions of transfers run, `NoDeadlock`. `OrderInv` says that a request wants
  only an account that is above every account it holds, and that nobody takes a
  key-share or transaction lock that could be waited for. On a cycle each request waits for
  an account that another of the cycle holds, and holds one that another waits for. Of
  all the accounts so waited for one is the lowest (`Lowest`: natural numbers are well
  founded), and the request that waits for it holds another, which is lower by
  `OrderInv`: a contradiction. The assumption `OnlyAccounts` is needed, for with initiations or reviews there are cycles.
* **Ledger without withdrawals** (`LedgerProofs`). Under the assumption that no
  request withdraws, every change of a balance is exact (`NoLostUpdate`: ExactPosting)
  and `LedgerImplementsBank`: the initial state maps to Bank's, `Move` to `Settle`,
  every other step to `Instruct` or a stutter. No withdrawal is left to
  review either, since old transactions are transfers (`OldTxnAssumption`). With a
  withdrawal both theorems would be false.
* **The reviewer** (`LedgerProofs`). `FlaggedMoney` is `OnlyCompletionsSlip` for every
  workload: what moves the money of a flagged transaction is a reviewer who approved it,
  or the completion of a transfer. `FlaggedAreHeld` follows: without completions only a
  reviewer moves it, the hypothesis being exactly what section 6 describes. `IInv` does
  not know what a request relies on: a withdrawal that is past its score has an
  unflagged row, a deposit's row never is flagged, and a review that takes locks has
  decided to approve (`HeldInv`). A row is flagged by its own request only, or by a
  review, which needs it flagged already; hence nobody flags the row of a request
  that is about to apply it (`HeldFrame`).
* **Idempotency** (`IdempotencyProofs`). The unique key makes rows functional
  (`UniqueKeys`), rows tell the truth (`RowsInv`), successes are stored
  (`OkIsStored`), retries wait (`WaitInv`); together inductive, with
  `OneSuccessPerKey`, `GenuineReplays` and `RetriesReplayed` as consequences.
* **VirtualCards** (`VirtualCardsProofs`). Copies never hold more than was paid
  (`CopiesInv`) and locks belong to top-ups (`LocksInv`): `NeverOverdrawn`,
  `OnlyPaidMoney`, `NoMoneyBeforeActivation`, stale copies notwithstanding.
* **Exact top-ups** (`VirtualCardsProofs`, `TopUpsAreExact`). `Conserved` is inductive with
  two more facts (`KeptInv`): what a client waits for has ended when the next request
  begins (`PriorInv`), so the copy of a top-up is still what is in both rows
  (`FreshInv`). It is about a sum over the cards of an account. `MapThenSumSet` is
  a fold whose recursive function is given by CHOOSE, and no induction theorem with an
  operator for a parameter can be used; so the induction is over sets. The counter-examples
  to a claim about numbers are a set, and a set of numbers has a least element
  (`Counting`); the function exists on the subsets of up to n cards for every n
  (`SumExists`), and a sum changes by what one of its cards does (`SumChanges`).
* **CircuitBreaker** (`ModelRegistryProofs`). `CallersFailFast` for every threshold and
  any number of callers. `FailsFast` needs two facts: an open circuit has counted up to
  the threshold (`Counted`), so a straggler's failure does not close it, and what is
  under way during the cool-down are stragglers (`OnlyStragglers`); `CBInv` is both.
* **ModelRegistry** (`ModelRegistryProofs`), for any finite set of models, any jobs,
  transactions, scores and amounts. A job acts on models that it read before, so
  `JobInv` says what still holds of them: the model to be replaced was in production,
  production is not empty again, and, unless another deployment came between, a better
  model than all in production is about to replace them. `TxnInv` and `Founded` say what
  each score rests on. A commit adds its model and archives the one it selected, which
  is in production as long as the job is alone: so `OneUnlessRaced` grows only with
  `races`. Theorems: `TypesKept`, `RacesBoundProduction`, `LargeAreScored`,
  `MissesAreHeld`, `ProductionNeverEmpties`, `AutoDeploysUpgrade`. The first attempt at `LargeAreScored`
  failed because `Heuristic` was a CASE with overlapping arms, which TLA+ may choose
  among; the code is an `elif` chain, and the definition now is one too.
* **BackgroundJobs** (`BackgroundJobsProofs`), for any tasks, retries and dying workers.
  `EffectsBounded` is not inductive: a task that waits to run must have had one effect
  less than it may have when it has run (`TaskInv`), and a result names an upload that
  was made. `PhotoInv` is the property itself, and effects are never taken back
  (`PhotoFrame`). `StatementInv` compares the balance that was read with what is
  posted by now, before the movements are listed; it is about sets of movements and any
  `Period`. Theorems: `TypesKept`,
  `SlotsShowUploads`, `RepeatsAreCounted`, `StatementsListAll`.
* **Onboarding** (`OnboardingProofs`), for any caps and any number of slots. `Overshoot`
  is not inductive: a request that has passed its check inserts later. `CapInv` counts
  these pending requests with the records; `Counter` shows how such a sum moves (a
  check passes only below the cap, a commit turns a pending request into a record).
  `WaitingClient` needs `AloneInv`, that what a lone request has read is still true, and
  `KycHolds` needs `KycInv`, that what an opening has checked and a deletion has counted
  stays true whatever else commits, as long as deletions do not race. Theorems: `Invariance`, `OvershootBounded`, `WaitingClientRules`,
  `KycKept`.
* **Login** (`LoginProofs`), for any limit and number of requests at once. `IInv` adds to
  the properties where codes come from (`CodesAreEarned`: a code, and every step that
  follows from one, has the right password before it), that no copy of the counter
  exceeds what was really counted (`CountersAreFounded`), what an account is before it
  is activated (`InactiveIsBlank`: without it a late activation could unlock, or a
  request of a row that does not exist could count), and that a lone request's copy is the
  row (`Undisturbed`). `StepInv` reduces a step of one slot to what it does to the row;
  `ResetInv`, `IssuesInv` and `FailInv` are the writes. Theorems: `Invariance`,
  `SessionsAreEarned`, `LockoutsAreJust`, `CounterIsExact`. `CodesAreSpent` (`BoundedUse`)
  counts per code: while it is in the row, whoever used it is still about to clear it;
  once it is gone, its uses and the requests that hold a copy of it fit into the slots
  (`UseInv`). A clear that does not write (its copy saw no code) is the case to look at.
* **RateLimiter** (`RateLimiterProofs`), for any limit and number of requests at once.
  `PastLimit` is inductive with the set of requests still to be counted (`Underway`)
  taken for the counter they will make; `AdmittedBound` needs also who will restart
  the window (`WindowInv`). `Sizes` says how those sets change by one slot. Theorems:
  `Invariance`, `LimitHolds`, `WindowKept`, `AdmissionBounded`.

Assumptions on constants which the proofs need and the code justifies: thresholds,
limits and counts of retries are naturals; the requests that may be under way at once,
the cards and the models are finitely many (they are rows and requests), and the score
of a model is a percentage.

Every invariant and every action property of a passing run is thus proved, with the
restriction named in the theorem where it has one (`LockOrderHolds`, `NoLostUpdate`,
`LedgerImplementsBank`). Model-checked only: liveness (`Answered`,
`Recovers`, `LockoutEnds`, `Ends`), since fairness and ENABLED are beyond the prover. The
runs `applied_twice` and `first_deploy` are counterexamples and have nothing to prove. The inductive
invariants were checked by TLC on the instances of section 4 before they were proved;
`contention` still does.

## 6. Observations without a run

Disagreements and surprises met while the code was translated. The models contain those
that a model can contain, and the hazards of `PROJECT.json` name their lines.

Money movement and review:

* A withdrawal reads the account without a lock, and the lock does not refresh it
  (`transaction/service.py:486-492`, `:547-583`): a deposit or transfer that commits in
  between is overwritten. Lines 9-10 of the file say that deposits cannot be lost.
  `ExactPosting` fails as soon as a workload has a withdrawal and a deposit.
* A new transfer is FLAGGED but still Pending for a moment
  (`core/ml/deployment.py:287-297`), and a code the user already has completes it;
  `README.md:27-28` says it is held for human review. This is the exception in
  `OnlyCompletionsSlip`.
* A user has one code: a second initiation replaces the code of the first, and the code
  of one transfer completes another (`transaction/service.py:285`).
* A transaction that is held because inference was unavailable has no risk score
  row, and the review joins it: it cannot be reviewed (`core/ai/service.py:95-98`,
  `transaction/service.py:891-901`).
* A review with `is_fraud` and `approve_transaction` both set leaves the transaction
  CONFIRMED_FRAUD and Completed (`transaction/service.py:911-923`).
* The key-share locks of a transfer's INSERT (receiver, then sender) and the ordered
  locks of a completion can form a cycle; so can an approval (row, then accounts) and
  a completion (accounts, then row). PostgreSQL aborts one of them.
* After a `rollback()` the loaded objects are expired, so a transaction that should be
  marked Failed there is not (`transaction/service.py:1049`).
* `transaction/utils.py:123` rounds the converted amount: a small one may become nothing.
* The check digit of an account number doubles the digits Luhn's rule leaves alone
  (`bank_account/utils.py:36-50`; `README.md:18` promises Luhn).

Keys and cards:

* Two requests with one key both miss and both execute: the key is looked up before
  the operation and stored after it (`transaction/utils.py:46`; `README.md:24-25`).
* An expired key makes a retry execute and then fail on the unique key
  (`transaction/utils.py:46-56`, `transaction/models.py:93`); a worker lost before
  the response is stored makes the retry execute again.
* Two top-ups of one account, or a top-up and any other operation, overwrite one
  another as a withdrawal does (`virtual_card/service.py:187`).
* A top-up that commits between the zero check of a deletion and its commit leaves money
  on a deleted card (`virtual_card/service.py:316`; line 299 says a card is deleted once
  its balance is zero).
* Blocked and deleted cards can be activated again (`virtual_card/service.py:270`), and
  a card blocked while a top-up waits is topped up (`:180`).

Onboarding and authentication:

* Overlapping requests of one user exceed the caps of three next of kin and three
  accounts, create two primary records or two profiles (`profile.user_id` has no unique
  constraint), and two deletions of different records leave no next of kin
  (`next_of_kin/service.py:48`, `:147`, `bank_account/service.py:66`,
  `user_profile/service.py:33`).
* Even one request after the other may leave no primary next of kin: deleting the
  primary record, or unsetting it while there are others, promotes none
  (`next_of_kin/service.py:122-127`, `:152-154`). Hence `WaitingClient` says at most one.
* Failures that overlap count once, a slow reset ends a lockout early, and a code issued
  during a failed attempt leaves a locked account with a live code (`auth/service.py:364-377`).
* Transfers and logins clear, replace and accept each other's codes
  (`auth/service.py:156`, `transaction/service.py:285`, `:317`).

Breaker and limiter:

* A call that started before the circuit opened and succeeds afterwards closes it
  without the cool-down (`core/resilience.py:99`; lines 5-7 say that callers fail fast
  until it elapses).
* While the circuit is half-open every call is let through, not one
  (`core/resilience.py:78-84`).
* A bucket whose key expired between TTL and INCR counts without a window and, once at
  the limit, refuses for ever (`core/rate_limit/middleware.py:98-100`). An endpoint that
  raises is called a second time (`:218`).
* The limit of `/auth/reset-password` (`core/rate_limit/config.py:15`) is never applied: limits are
  looked up by the whole path, which ends with a token. Each token is a bucket of its own,
  with the default limit.

Models and scoring:

* `deploy_model` sets DEPLOYED only when it found another model to archive
  (`core/ml/deployment.py:41`): while production is empty nothing is ever deployed, by hand
  or automatically, although the endpoint and the task answer that it was (`first_deploy`;
  the models of `ModelRegistry` begin with or without one in production).
* `explanation.md:54` flags "risk scores > 0.7"; the code flags at 0.7 too
  (`core/ml/deployment.py:287`), and the heuristic gives a large amount exactly that.
* `model_name` is unbound when the MLflow block failed (`core/ml/deployment.py:71`, `:94`):
  the request raises after its commit. Inside an automatic deployment the block always
  fails, since a run is active already.
* Two overlapping deployments leave two models in production, and an automatic one may
  bring back a model that was archived meanwhile (`core/tasks/ml.py:175`).
* Every model is version 1, because the query for the latest version raises; failed
  trainings leave rows of datasets; the beat schedule names
  `evaluate_fraud_model_performance`, which no worker registers.
* Evaluation takes the verdict FLAGGED, which is the model's own, for the truth, and a
  confirmed fraud for a legitimate transaction; training learns from what was flagged
  and reviewed only, and one comparison has `"CONFIRMED_FRAUD"` where the column has
  `"confirmed_fraud"`. Hence `MissesAreAccidents`.
* When the model cannot be loaded the heuristic lets everything up to 10 000 through
  (`core/ml/deployment.py:183`), although `core/ai/service.py:35-37` says the check fails
  closed; the fallback score of the breaker is only used when the circuit is open or
  something outside the prediction fails.

Background jobs and health:

* `send_email_task` returns False where it fails, so its `autoretry_for` never acts; an
  image that is not allowed is retried, although it can never succeed
  (`core/tasks/image_upload.py`).
* Asking for the status of an older upload puts the older photo back; an upload nobody
  asks for within an hour is lost (`user_profile/routes/upload.py:67`); image URLs can be
  set when the profile is created, although `user_profile/service.py:53` speaks of the
  upload flow only.
* A statement's balance may lag behind the movements it lists, and is the balance of the
  moment, not of the end of the period: movements before and after the period are in it and
  never listed (`transaction/service.py:783-792`). With several accounts the movements of
  all are listed under the balance of the first (`core/tasks/statement.py`).
* The overall health is HEALTHY or DEGRADED, never UNHEALTHY, so the 503 of the endpoint
  is unreachable, and an older check may overwrite the cached result of a newer one.

## 7. Not modelled

Within the modelled components: history and statistics (read only); transaction and card
metadata (nothing reads it back, and in-place changes of it are not saved); generation
of references, account and card numbers and CVVs; the values of fees and rates;
passwords, hashes and tokens; log rows of rate-limit violations; MLflow runs, artefacts
and averages, which decide nothing; what a PDF or an e-mail looks like.

Whole components:

* *Dormant analyzer* (`core/ai/transaction_analyzer.py`): nothing creates one.
* *Features and fitting* (`core/ml/feature_engineering.py`, `core/ml/training.py`):
  numerical code without state; for the registry a model is one that answers any score.
* *Health and start-up* (`core/health.py`): checks with time-outs whose answers only a
  status page reads.
* *API composition, configuration, logging, migrations, seed data*: no state of their
  own; foreign keys and unique constraints appear where they matter.

## 8. What could come next

The core is modelled in the order of its importance: money movement with its abstract
bank, keys, cards, breaker, onboarding, login, limiter, models and background jobs. What
remains worth doing:

* `Money`: conversion and fee in hundredths with their rounding, and the check digit,
  as functions against a reference definition (`bank_account/utils.py`,
  `virtual_card/utils.py`).
* Compositions: `Elsewhere` of VirtualCards implemented by `Move` of Ledger; the code
  column of Login and Ledger in one module.
* Proofs: `MovedOnce` for completions that do not overlap; `ExactPosting` for workloads
  whose withdrawals overlap with nothing; that `Elsewhere` abstracts Ledger.

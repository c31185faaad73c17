# Specifications of the roadmap-homework server

TLA+ modules for the NestJS server in `src/src`, the TLC configurations that
check them on small instances, and TLAPS proofs for all instances.
Paths below are relative to `src/src` unless they start with `src/`.

## 1. The system

One NestJS process, or several, in front of PostgreSQL (through TypeORM and
`typeorm-transactional`, isolation READ COMMITTED), Redis (cache of users, and
the BullMQ queue) and an S3 store. Handlers are asynchronous: between two
`await`s any other handler, job or process may run, so every component below is
concurrent even inside one process. What orders them is the database: row locks
(`SELECT ... FOR UPDATE`), advisory locks, and the commit of a transaction.

| component | state it keeps | operations | talks to |
|---|---|---|---|
| Balance operations (`users/balance`) | `users.balance`, table `balance_operations` | deposit, withdrawal, transfer, read | users (row locks, cache) |
| Balance reset job (`users/balance/balance-jobs-queue`) | the BullMQ scheduler | start, stop, module destruction, run | users (ids in batches), balances (one UPDATE per batch) |
| Refresh sessions (`auth`) | table `refresh_sessions` | register, login, refresh, logout, logout from all, nightly removal | users (row locks) |
| Users, rows (`users`) | table `users` | register, update, soft delete, nightly purge, row lock | every table has a foreign key to it, ON DELETE CASCADE |
| Users, cache | Redis entries, 30 s | find, fill, invalidate | called by reads, updates, deletions, withdrawals |
| Lists and pagination | none | pages of users, of most active users | users, avatars |
| Avatars (`users/avatars`) | tables `avatars`, `users_avatars`, objects in S3 | upload, list, link, soft delete | users (row lock), file storage |
| Avatar cleanup | none (cron) | remove soft-deleted avatars, remove orphan objects | avatars, users (batches), file storage |
| File storage (`file-storage`) | clients by namespace | configure, put, remove, list, sign | S3 |
| Guards, DTOs, decorators, configuration | none | validate | |

What makes each component right, and what is hard about it:

* **Balance operations.** A request takes effect at most once whatever the
  client repeats, a transfer happens whole or not at all, answers repeat, no
  update is lost, nobody waits for ever. Hard: retries concurrent with the first
  call, two legs under one key, keys that are locked before or after rows,
  the reset job and the deletion of users between any two statements.
* **Refresh sessions.** At most `maxUserSessions` active sessions, the earliest
  makes room, a session belongs to a device, a removed or expired one cannot be
  continued. Hard: the session is read outside the transaction that replaces it,
  `now()` is that of the start of a transaction, replace and evict lock in
  opposite orders.
* **Reset job.** A run that reports no error has reset everybody; the scheduler
  always has a job to come; stopping stops. Hard: a cursor over rows that change,
  one scheduler for all instances, workers that die, failures that are counted and
  passed over.
* **Cache.** An entry that differs from the row has a cause one can name, and
  goes away. Hard: a fill with what was loaded before an update, swallowed
  failures, filling before a commit, updates that read, compare and write.
* **Pagination.** Following cursors misses no row that stays and shows none
  twice, both ways. Hard: rows that come and go, pages cached at different times.
* **Avatars.** At most five per user; what is shown has its object; an object
  without a row is removed in the end. Hard: two stores without a common
  transaction, clean-up that acts on what it read some awaits ago.
* **File storage.** Every namespace resolves to one client, whatever the order,
  and a wrong configuration stops the start.

## 2. Modules

| module | what it is |
|---|---|
| `Operations` | requests, rows and legs of the balance feature; extended by the next two |
| `Ledger` | abstract: every request is one atomic step |
| `Balance` | `BalanceService` statement by statement; `Abstract == INSTANCE Ledger` |
| `MCBalance` | small instances of `Balance` |
| `BalanceProofs`, `BalanceAnswersProofs` | theorems about `Balance`; about what it answers |
| `RefreshSessions` | `AuthService` and `RefreshSessionsService` statement by statement |
| `MCRefreshSessions` | small instances of `RefreshSessions` |
| `RefreshSessionsProofs` | theorems about `RefreshSessions` |
| `BalanceReset` | the reset job: scheduler, queue, workers and the loop over batches, on several instances |
| `UserCache` | one user's row and cache entry, and the calls that read, fill and clear them |
| `AvatarGallery` | abstract: what a user is shown |
| `Avatars` | uploads, deletions and both clean-up jobs over database and storage; `Gallery == INSTANCE AvatarGallery` |
| `CursorPagination` | the two lists of users, page by page |
| `FileStorage` | the start of the file storage: validation, clients and services in any order |
| `MCBalanceReset`, `MCUserCache`, `MCAvatars`, `MCCursorPagination`, `MCFileStorage` | small instances of these |
| `BalanceResetProofs`, `UserCacheProofs`, `AvatarsProofs`, `CursorPaginationProofs`, `FileStorageProofs` | theorems about these |

Operators whose names begin with `Bug` are deliberate mistakes: each stands next
to the definition it could replace and shows that a property depends on it. No
specification uses them.

### How the model of a transaction corresponds to the code

An action is one SQL statement with the code that follows it up to the next
`await`; `pc` names the `await` a request stands at. The committed database and
what a transaction has written but not committed are kept apart (`wrote`,
`newOps`; `gone`, `new`); a transaction reads its own writes and otherwise what
is committed at that moment, which is what READ COMMITTED gives it. A statement
that meets a lock is not enabled until the lock is free. Every lock is kept to the end of
the transaction. At any step a statement, the connection or the server may fail
(`Crash`): what is not committed is undone, and the client is not answered even
if it was. `DetectDeadlock` is PostgreSQL's detector: it makes one member of a
cycle of waiting transactions fail.

**Balance.** `createTransfer` is two legs, the sender's withdrawal and the
recipient's deposit, in the one transaction that the default propagation of
`@Transactional()` makes of the nested calls:

| code | action |
|---|---|
| request arrives; transfer to oneself refused | `Begin` |
| `lockTransferUsersForUpdate` | `LockUser` twice, in `LockOrder` |
| `acquireIdempotencyLock` | `Acquire` |
| `findOneBy`, `hasSamePayload`, replay or conflict | `Lookup` |
| `changeBalance` | `Change`, or `Reject` if no row matches |
| `saveSuccessfulOperation` | `Save` |
| COMMIT; the answer | `Commit`; `Respond` |
| `resetBalancesByUserIds` | `ResetBegin`, `ResetReach`, `ResetRow`, `ResetCommit`, `ResetAbort` |
| `softDeleteUser`, `deleteSoftDeletedUsers` | `SoftDelete`, `HardDelete` (with the cascade over operations) |

Amounts are integers in hundredths. A uuid is a number or a string of the model
with a note (`upper`) whether the client spelled it in capitals, the one thing
about spelling that the code is sensitive to. Rows not deleted "a week ago" are
not distinguished: a soft-deleted user may be purged at any time.

**RefreshSessions.** `createSession` is `BeginTransaction`, `LockUser`,
`CountActive`, `FindEarliestActive`, `DeleteEarliest`, `InsertSession`, `Commit`;
`replaceSession` puts `DeleteReplaced` before the lock. `refreshTokens` reads
(`FindSession`) and validates (`ValidateSession`, `DiscardSession`) outside any
transaction. `logout` is one statement of one row; `logout/all` and the nightly
job are a DELETE that reaches its rows one after another in any order (`Clear`,
`Reach`, `ClearRow`). `expiresIn` is read back as a string, and
`IsSessionExpired` concatenates digits as the code does (`Radix` is the power of ten that
shifts one number over the digits of the other; times start at 1, as those of
the code do not start at 0). One clock serves application and database.

**BalanceReset.** BullMQ is seen as three facts in Redis: the scheduler is there
or not, its next job is delayed or not, and a number of jobs wait.
`StartBalanceResetJob` (`immediately: true`), `StopBalanceResetJob` and
`OnModuleDestroy` change them; the worker that takes a job adds the next one if
the scheduler is still there (`TakeJob`, `AddsNext`). `resetAllUsersBalances` is
`FindFirstBatch`, `FindNextBatch` (which always fails, see section 5),
`FindFails`, `ResetBatch`, `ResetFails` and `Report`. Ids of users grow with time,
as uuid v7 does. A process that dies in a run leaves a stalled job, which waits
again (`Crash`). The two history variables `stayed` and `reset` say who has been
live since a run began and whom it has reset; what the UPDATE of a batch does
among transactions is in `Balance`.

**UserCache.** One user; `row` is what is committed, `cache` the entry with the
time it has left. `findOneBy` is `GetUserFromCache` or `SkipCache`, `Load`, and a
fill; `updateUser` is `LoadForSave`, `UpdateRow` (TypeORM's `save` loads the row
and writes the columns that differ), `Reread`, and a fill or an invalidation;
`deleteUser` is `SoftDeleteUser` and an invalidation; `registerUser` fills before
it commits. Each may fail or die at each step (`...Fails`, `Crash`).

**Avatars.** One action per await of `saveAvatarData` after the object has been
stored by multer (`StartUpload`, `RefuseFile`, `PutObject`, `RemoveTooLarge`,
`LockUser`, `CountUserAvatars`, `SaveRows`, `Commit`); deletions are single
statements. The clean-up jobs keep what they have read in `batch`, `files` and `at`, and act
on it steps later. `old` and `expired` stand for the two ages the code
compares with (six hours, seven days): an object becomes old some time after the
request that stored it has ended, for no request lasts that long. The model takes it
for granted that the storage dates every object it lists: the branch of `isTooRecent`
for an object without `lastModified`, which is then not too recent, is left out.

**CursorPagination.** `Find` is the query (WHERE, ORDER BY, LIMIT), `Result` is
`buildCursorPaginationResult`. A client follows the cursors it is given while rows
appear and vanish; the pages of the list of all users are cached one by one, and
`fresh` and `stayed` remember whether, and for whom, a page is still true. Rows of
the most active users appear with any id, and may come back; those of all users
appear once, with an id above all that were there before (`given`). `Find` takes
the rows by their rank, the number of rows before them in the order of the query.

**FileStorage.** The options, the namespaces modules ask for and the driver their
multer storage expects are the initial state; the resolution of the providers
(`ResolveOptions`, `ResolveClient`, `ResolveService`, `ResolveMulter`) is
interleaved in every order that dependency injection allows. The types of the
code know one driver, `s3`; the model has a second one, which they do not have yet, for
without it neither check for a mismatch (of a namespace and the one whose client it
takes, of a namespace and the multer storage of a module) could ever fail.

## 3. Runs

| run | question | instance | states |
|---|---|---|---|
| `balance_retry` | is every request applied once, whole, and answered alike, and is the ledger implemented? | two transactions; a transfer, two requests reusing its key, of which one can overflow the recipient's balance in its second leg, a competing withdrawal, a transfer to oneself; both users may be deleted and purged | 205,000 |
| `balance_locks` | what does a deadlock among requests take, and are updates lost to the reset job? | three transactions, transfers in both directions and a withdrawal under one of their keys, one reset | 150,000 |
| `balance_live` | does everything end? | `FairSpec`; a transfer and a withdrawal that can deadlock, the withdrawal once more with its key in capitals, one reset | 48,000 |
| `sessions_limit` | is the limit kept until a session expires, does the earliest session go, and do sessions stay on their device? | two calls, two devices, one user, limit 2, three sessions, three instants | 1,296,000 |
| `sessions_live` | does no session outlive its user, and does every call end? | `FairSpec`; two calls, one device, registration to purge, limit 1, three sessions, so that a refresh and the login that evicts its session can deadlock | 185,000 |
| `avatars` | is what users see a gallery within the limit, with its objects, and do the others' objects go? | two users, two uploads, limit 1, batches of 1, one job of each kind, one failure | 403,000 |
| `users_cache` | when may a read be stale or an update be mixed, and does it end? | a registration, a reader, two updates, a deletion, a deposit, one failure, two units of time | 137,000 |
| `reset_runs` | does a clean run reset everybody, and does the chain of jobs hold, go on and end? | two instances, up to three users in batches of two, one failure | 225,000 |
| `pages` | do cursors miss or repeat rows, or leave any out of reach, and is the way back the way there? | pages of two over lists of two and of five at first, two changes | 1,117,000 |
| `storage` | does the application start as it is configured? | every configuration of up to two of three namespaces with two drivers, every set of modules | 177,000 |
| `sessions_kept`, `reset_all` | findings, section 5 | | |

*Bounds.* Requests of the balance feature may be sent any number of times; what
is bounded is which distinct requests exist, how many run at once (two or
three: every property relates at most two requests, the third is there for
deadlocks), the largest balance (reached, so that overflow and refusal both
happen), `Resets` and `Deletable`. Two users suffice because a request touches
at most two. In `RefreshSessions` the number of sessions whose creation may be under way or
done (`MaxSessions`: a login or refresh takes the id of its session when it
starts, and gives it back if it fails) and the instants of the clock (`Times`) are bounded;
three sessions with a limit of two fill the table and evict. With a limit of one, the
session of the registration, a refresh of it and a login that evicts it take three ids:
the refresh has deleted the session and waits for the user, whom the login has locked,
and the login waits for the session (TLC reaches this state in ten steps of
`sessions_live`). That run has the instants 1 and 3 only, before and after a
session expires; three instants are those of `sessions_limit`. Transactions, calls and devices differ in nothing
but their names, and the larger safety runs use that symmetry; liveness runs do not. In `BalanceReset` two instances are enough for one to stop what the other
has started, and a batch of two with a third user gives full, short and second
batches. In `UserCache` two updates make a mixture and one more reader fills late;
time has two units, so that an entry can be refilled before it expires. In
`Avatars` two uploads compete for one place, of one user or of two. Pages of two
over a list of two that may grow or shrink are full, short and empty; a list of five has
a third page, and two rows can go on either side of the second. A
reference between namespaces, to itself, to another one, to one that refers on,
to one that is missing, takes two entries and a third name. `CHECK_DEADLOCK FALSE` is
set where the system really may stop: when `MaxSessions`, the bound of changes, or the
uploads are used up, or the start of the application is over.

*Fairness.* `SF_vars(TxStep(t))`, `SF_vars(ResetStep)` and `SF_vars(Step(c))`: a
transaction that can go on does, and PostgreSQL hands a lock to those who wait in
the order in which they came, so that a waiter whose lock is free again and
again gets it. `WF_vars(DetectDeadlock(p))`: the detector runs after
`deadlock_timeout`. `WF_vars(JobIsDue)`, `WF_vars(TakeJob(w))`,
`WF_vars(RunStep(w))`: time passes, a worker polls its queue, and a run goes on
while its process lives. `WF_vars(Tick)`: Redis lets entries expire. In `Avatars`
objects grow old and cron starts the weekly job again and again
(`WF_vars(OrphanStep(j))`). In `FileStorage` the bootstrap goes on (`WF_vars(Next)`).
Clients, deletions, failures and crashes have no fairness; neither have calls in
`UserCache`, so that `NotStaleForEver` rests on expiry alone.

## 4. Theorems

In `BalanceProofs`, for every set of users, keys, requests and transactions,
every hash function and every bound:

* `TypeCorrect`: `Spec => []TypeOK`.
* `AppliedAtMostOnce`, `TransfersAreWhole`, `KeyLockIsExclusive`:
  `Spec => []AppliedOnce`, `[]TransferWhole`, `[]KeyLockExcludes`.
* `ImplementsLedger`: `Spec => LedgerSpec`, with the identity on `balance`,
  `ops` and `status` as refinement mapping.
* `DeadlocksShareAKey`, `TransfersDoNotDeadlock`: `Spec => []DeadlockNeedsSharedKey`,
  `[]TransfersNeverDeadlock`.

All but the first assume `CanonicalRequests`, that clients spell uuids as
PostgreSQL prints them: without it `KeyLockExcludes` does not hold (section 5). The last
two also assume `CollisionFree`, that `hashtext` gives different locks different
numbers: two keys with one hash make requests wait for each other that need not, and
these can deadlock as two with one key can. The other assumptions are the named ones of `Operations` and
`Balance`; TLC evaluates them in every run.

*The argument.* None of the properties is inductive. `IndInv` adds what a
transaction knows at each step. `LockOK`: it holds the idempotency lock of every
leg it has begun. `WriteOK`: it has written a balance only of a row it has locked,
that balance is the committed one plus the leg's amount, and the key it is about
to record is still free in the committed table. `ReplayOK`: if the first leg of a
transfer was a replay, the recorded transfer is there, so its second leg is a
replay too; if the first changed a balance, so did the second. `RowsLive` (a locked row
is not deleted), `ForeignKeys` (no operation outlives a user it names) and
`EffectInv` (a request that took effect is recorded, or a party to it is gone)
make these survive deletions. A key whose advisory lock one transaction holds
cannot be recorded by another, and a row lock keeps a balance as it was read: so
at `Commit` the writes are exactly `Apply(req)` of the ledger, and every other
step leaves the committed tables alone or is a reset or a deletion.
`IndInv` was checked with TLC on the instances of `balance_retry` and
`balance_locks` before it was proved.

For deadlocks `WaitInv` says which locks a transaction has (`HeldOK`): those its
next steps need, and no other. Rows alone make no circle: whoever waits for one and
has another is a transfer that locks its second user, and users are locked in the order
of their ids (`SecondsAreOrdered`). So somebody in a circle waits for a key whose holder
needs it for a leg of its own (`CycleHasKey`, `Blocking`), and without collisions that is
one key of both. In a circle of transfers alone each waits for the key of its recipient,
which the next one has as that of its sender (`TransferCircle`). A live user both name is
locked by one of them only, so that user has been deleted and the first leg of the next
was a replay; and of replays there is a last one in every chain (`NoReplayCircle`): one
that joins has found its withdrawal in the ledger, and with it a deposit under its
recipient's key, where another replay would need a withdrawal. `WaitInv` was checked
with TLC on the instances of `balance_retry` and `balance_locks` first.

In `BalanceAnswersProofs`, under the same assumptions: `AnswersAreInLedger`
(`[]AnswersMatchLedger`), `RetriesAnswerAlike` (`[]ReplaysAgree`) and `KeysAreNotReused`
(`[]KeyHasOnePayload`).

*The argument.* `AnswerInv` extends `IndInv` from the answers clients have received to those
transactions are about to give. A transaction past its first leg either carries the
operation it has answered for, with that balance as result (`PendingInv`), or is
`Settled`: then its answer, like those received, is in the ledger, and all of
one request agree (`ToldInv`). An answer becomes settled only by the commit of that
operation or by finding it, and both need the parties to be there; so the ledger
has one result for it, and agreement, once reached, outlives the purge of the rows it
came from. Two requests told "ok" under one key share the row of a leg, and by
`TransferWhole` a leg determines its request. TLC checked `AnswerInv` on the instance of
`balance_retry` first.

In `RefreshSessionsProofs`, for every set of users, devices and calls, every
limit, time of life and bound, from the assumptions of `RefreshSessions` alone:

* `TypeCorrect`: `Spec => []TypeOK`.
* `ChainsKeepTheirDevice`, `NoSessionWithoutUser`, `LimitIsKept`:
  `Spec => []SessionKeepsDevice`, `[]SessionHasUser`, `[]AtMostMaxSessions`.
* `EarliestMakesRoom`: `Spec => EvictsTheEarliest`.

*The argument.* `IndInv` says what a call knows of itself (`CallsOK`), that ids are
drawn once (`IdsOK`), from which committed rows never change (`RowsKept`), that the
session a refresh presents is of its user and, once validated, of its device
(`OldOK`), and that the user of a call has registered and of a pending row is not
purged (`UsersOK`). The limit needs two facts more: a call between its lock and its
COMMIT holds the user, unless the user is deleted (`LockOK`), so only one call of
a live user is there (`OneCreates`); and at its INSERT it has left room for one
(`RoomOK`). `RoomOK` speaks of users none of whose sessions has expired:
only then is what the transaction counts, by its old `now()`, all there is
(`ActiveIsAll`). For the session that goes, `EvictOK` says that it is `Earliest`: older
than whatever stays active and than what another call is about to commit. All of
these were checked with TLC on the instances of `sessions_limit` and
`sessions_live` before they were proved.

In `AvatarsProofs`, for every set of users, uploads and jobs, every limit and size
of a batch: `TypeCorrect`, `LimitIsKept` (`[]AtMostLimit`),
`ShownAvatarsHaveObjects` (`[]ShownHasObject`) and `ImplementsGallery`
(`Spec => GallerySpec`).

*The argument.* The limit rests on the row lock: an upload between its lock and
its COMMIT holds its user unless the user is deleted (`LockOK`), so that what it
has counted stays true, and past the count there is room for one (`RoomOK`). That a job
removes no object that is shown needs three facts: an id is drawn once and its row
saved by the one request that stored its object (`UploadOK`); an old object's
request is over; so an avatar that a job has seen old and not shown, or
softly deleted, is not shown later (`JobOK`). With these every step of
`Avatars` adds, removes or purges in the gallery or leaves it alone.

In `UserCacheProofs`, for every set of readers, updates and deletions and every
profile: `TypeCorrect`, `StaleEntriesHaveExcuses` (`[]StaleHasExcuse`),
`NoDepositIsLost` (`[]NoDepositLost`) and `MixturesNeedRaces`
(`[]MixtureNeedsRace`).

*The argument.* Before the registration commits the row and the entry are those of
the new user, and nobody else has begun (`FreshOK`): so the early fill is no stale entry
after the commit. An update that is about to write either has
loaded the profile that is there or is known to have been overtaken (`LoadedOK`);
so without a race what it writes is its own profile.

In `BalanceResetProofs`, for every number of instances, users and failures:
`TypeCorrect`, `ChainNeverBreaks` (`[]ChainHolds`) and `CleanRunsResetEveryone`
(`[]CleanRunResetsEveryone`).

*The argument.* A batch is the users below whom fewer than `BatchSize` others
are: the greatest and the least of a finite set of ids give that it has at most
`BatchSize` members, at least one if there are users, and all of them if it has
fewer (`BatchIsBounded`, `BatchIsThere`, `ShortBatchIsAll`). A run without errors is in its
first batch, and if that is short it contains whoever has stayed (`RunOK`). The
waiting jobs exceed their bound only by those a crash has put back (`QueueOK`).
Both were checked with TLC first.

In `CursorPaginationProofs`, for every set of ids, every list, limit and number of
changes: `TypeCorrect`, `WalksAreExact` (`[]WalkIsExact`), `AllIsInReach`
(`[]NothingOutOfReach`) and `BackLeadsBack` (`Spec => BackIsWhereWeWere`).

*The argument.* The rows a query finds have the ranks from 0 on, each once
(`RanksAreTaken`, by the pigeonhole principle), so `Find` is in order and leaves out
only what comes after a full page and one row more (`FindIsExact`). From this
follows what a page says of the rows it was computed from (`Exact`, `ResultIsExact`):
its rows are asked for and descend, a row that is asked for and hidden is beyond
a full page, and the cursors are the ends. The invariant compares pages with later
states (`PageOK`): a page that is still fresh is `Exact` now; a page that leads on
has passed by no row that stays (`GoesOn`), and nothing has come between it and its
cursor (`Joins`), which for cached pages needs that new users have the largest ids.
A walk descends, and what it has not seen of those who stay is below its last
page (`WalkOK`). For the way back, two descending sequences with the same elements
are one (`DescendsOneWay`), and the page that is asked for backwards from just below a
full one has the same `limit` rows (`BackIsTheSame`). The proof made two things
precise: a page found again may lack its cursor to newer rows if they have all gone,
which `BackIsWhereWeWere` says, and an id that was deleted is not given again in the
list of all users (`given`).

In `FileStorageProofs`, for every set of namespaces and drivers and every list of
options: `TypeCorrect`, `SourcesHaveOneClient` (`[]OneClientPerSource`) and
`OrderDecidesNothing` (`[]EndsAsConfigured`), the safety half of `BootsAsConfigured`.

*The argument.* What the validation has let pass stays valid (`PhaseOK`); the clients
there are have the numbers from one on, each its own (`ClientsOK`, with their number
as a cardinality); and a namespace that has been resolved was handed the client of
its source (`HandedOut`).

*Assumptions.* Those of the constants are named in the modules and evaluated by TLC in
every run: ids are numbers, limits are positive, `None` is nothing else.
`CanonicalRequests` and `CollisionFree` are hypotheses of the theorems that need them.

*Only model-checked:* liveness, which is beyond the prover: `RequestsEnd`,
`ResetEnds`, `CallsEnd`, `OrphansGo`, `NotStaleForEver`, `ResetsGoOn`, `StopEndsRuns` and
`BootsAsConfigured`. TLC uses an injective hash, as `CollisionFree` demands.

## 5. Findings

Two runs show a disagreement of the code with its own words.

1. **A user can have more sessions than allowed** (`sessions_kept`). The count
   and the choice of the session to remove take `now()` of the start of the
   transaction. If sessions expire while it waits for the user's lock, it removes
   one that has expired and adds one to those that have not.
   `AtMostMaxSessions` states what remains true: the limit is kept as long as no
   session of the user has expired.
2. **The reset of all users resets a hundred** (`reset_all`). The query of the
   second batch names `:afterCursor` and is given `cursor`, so it fails and ends the
   loop. `CleanRunResetsEveryone` states what remains true: such a run reports an
   error. The orphan clean-up uses the same query and stops there with an exception:
   avatars of users beyond the first hundred are never cleaned, and `OrphansGo`
   speaks of users of the first batch only.

Observed while modelling, and true of the models:

* *Idempotency keys.* `acquireIdempotencyLock` hashes the text of the key, the
  columns compare uuids by value: one key in two spellings is two locks. Two requests
that differ in nothing else can both be past the lookup; if the one in lower case saves
last, it overwrites the other's operation, and both have changed the balance (TLC finds
`LedgerSpec` violated if `balance_live` is asked for it; no listed run sends such
requests to it, and the theorems exclude them by `CanonicalRequests`). The
  recipient of a retry is compared as text too (`SamePayload`), so that a
  retry in capitals is refused as a different payload. A transfer to a uuid without a
  user is an internal error, for the sender's operation refers to the recipient
  before the recipient is looked for.
* *Deadlocks.* A transfer and another request of the same user under the same key
  can deadlock (the one locks the row first, the other the key), and so can a
  refresh and a login of a user who has all the sessions allowed. PostgreSQL
  breaks both; one request fails with an internal error and can be repeated.
* *Sessions.* The session a refresh presents is read outside the transaction
  that replaces it, and nobody looks at whether the DELETE found it: two
  refreshes with one token get a session each, and one that has read its session
  before a logout creates the next after it. `createdAtTime + expiresIn` concatenates
  strings: no session has expired before the nightly job removes it.
* *Cache.* An entry filled late, or left by a failure, is stale until it expires,
  and the cached balance is after every operation. Two updates at once can leave a
  profile neither of them asked for.
* *Avatars.* The hard-delete job never deletes a row: it removes each
  candidate's file twice and meets it again the next day. (TypeORM knows the
  table it joins as an entity and may add `"deletedAt" IS NULL` to the join, in
  which case it finds nothing.) The orphan job takes the object of a softly deleted
  avatar before the seven days are over. The objects of users who were deleted
  are never removed. A user who is being deleted is not held to the limit.
* *Reset.* Any instance that shuts down removes the scheduler of all.
* *Pages.* An empty page has no cursor, even if there are rows the other way; a cursor
  back to where the request came from is given without a look (`prevCursor` to a
  request with a cursor, `nextCursor` to one for the previous page), so that it may lead
  to an empty page if the rows there have been deleted meanwhile.

## 6. Not modelled

`PROJECT.json` lists every component with its status, and every hazard with the
properties that cover it or the reason why none does.

Left out: signing and checking of tokens, password hashing, the S3 and Redis
clients, Swagger, DTO decorators and configuration, which are libraries or
declarations without state of their own. The counter of bytes and the check of a
file's first bytes are pure functions of one stream; what follows from their answers is in
`Avatars`. `normalizeAmount` is a pure function of one short string. The filters of the lists
are left out of `CursorPagination`: they select rows, and rows come and go there anyway.
`HardDelete` takes the rows it needs in one step: the purge runs a week after
the soft deletion, and its lock waits are not modelled.

# Formal models of the banking API

TLA+ models of the banking program in this repository: a FastAPI service over
Azure Cosmos DB with a React user interface. Each module names the source file it
is translated from. TLC checks small instances of the models, TLAPS proves the
theorems for every value of the constants. Paths below are relative to the
repository root (`src/...` is the Python package, `ui/...` the user interface).

    tlc -config AccountsConcurrent.cfg MCAccountService.tla
    tlapm AccountServiceProofs.tla

## 1. Inventory

| Component | Source | State it keeps | Operations |
|---|---|---|---|
| Accounts | `src/api/accounts.py`, `src/services/account_service.py`, `src/repository/cosmos_account_repository.py`, `src/models/account.py` | documents of the `accounts` container, keyed by account number | create, list, get, update, close, balance by type; for employees: list all, get any |
| User profiles | `src/api/profile.py`, `src/services/user_profile_service.py`, `src/repository/cosmos_user_profile_repository.py`, `src/models/user_profile.py` | documents of the `users` container, keyed by the JWT subject | get, patch (creates the profile if needed) |
| Statements | `src/api/statements.py`, `src/services/statement_service.py`, `src/models/statement.py` | none; mail handed to an SMTP server | e-mail a statement |
| Authentication | `src/auth/oauth2.py` | signing key, in-memory users | issue, decode, require employee |
| Start-up and wiring | `src/main.py` | environment, dependency overrides | load `.env`, wire the services, preflight; exit and restart by the platform |
| Health, event loop | `src/api/health.py`, `infra/modules/container_app/main.tf` | what the loop has ready; the probes' failures in a row | `GET /health`, asked by the liveness and the readiness probe |
| UI state | `ui/src/store/*.ts`, `ui/src/services/*.ts` | account list, profile, loading flags, errors | asynchronous thunks and their reducers |
| UI pages | `ui/src/pages/*.tsx`, `ui/src/App.tsx` | the open page, the profile form, its `saving` flag | open, edit, save, cancel; dialogs that dispatch thunks |
| Pipelines | `.github/workflows`, `.pipelines`, `pipelines` | stage results | build, promote, deploy |
| Infrastructure, scripts, logging, agent hand-over files | `infra`, `scripts`, `src/logging`, `agents-communication` | none of the program's own | - |

**How they interact.** A route resolves the caller (`get_current_user`, for admin
routes `require_bank_employee`) and its service, and calls one service method. The
method awaits repository methods; every repository call opens a Cosmos client of
its own, does one point read, query, create, replace or upsert, and closes the
client. The statement service reads through both repositories. Services have no
state of their own: all coordination between requests, and between replicas, goes
through the two containers. Exceptions are turned into statuses by one
`_raise_http` per router. The UI calls the routes and folds the answers into
Redux slices. A replica runs one process with one event loop, which serves the
requests, the probes of the platform and, while it blocks in `smtplib`, nobody.

**What is hard.** Requests are coroutines: at every `await` any other request may
run, in this replica or another one. A write is *lookup, check, read again,
replace the whole document*, four steps, and no step carries an etag. Reads are
at the account's default "Session" consistency (`infra/modules/cosmosdb/variables.tf:45`)
but no session token outlives a repository call, so a read may miss recent writes.
A call may take effect and its answer be lost. Queries meet the partitions one
after another. Sending mail blocks the event loop, on which the health check runs
too. The settings of a container are judged twice, by different rules. In the
browser answers overtake each other, a request given up may still be processed, and
a page is left while its save is under way.

**What makes each component correct.** Accounts: an account keeps its identity,
is written by its owner only, its closure fields agree, closing is final, answers
show the caller's own active accounts and miss none. Profiles: a patch changes
the fields it supplies and no others, a stored profile can be shown, creation
time stays. Every request is answered. Statements: mail goes to an address
of the customer and reports a period and a total that mean something. Start-up: a
replica serves exactly if it is well configured. Event loop: the platform disturbs a
replica only if it is stuck, and traffic comes back. UI: what is shown last is what
was stored last, a form changes what its user changed, nothing spins for ever.
Sections 4 to 6 say which of these hold.

## 2. Modules

| Module | Contents |
|---|---|
| `VersionedContainer` | a Cosmos DB container as the repositories use it (external) |
| `AccountService` | the account component, its properties and the refinement mapping |
| `AccountLedger` | what the account endpoints promise: open once, amend while active, close for good |
| `AccountServiceProofs` | theorems about `AccountService` |
| `UserProfileService` | the profile component, its properties and the refinement mapping |
| `ProfileRecord` | what PATCH promises: one atomic merge of the supplied fields, or nothing |
| `UserProfileServiceProofs` | theorems about `UserProfileService` |
| `StatementService` | the statement component, over both containers as the others may write them |
| `Mailbox` | what `POST /statements/email` promises: a request is mailed at most once, in the step that answers it |
| `DocumentHistory` | what the writers of a container guarantee and its readers rely on: histories that only grow |
| `StatementServiceProofs` | theorems about `StatementService` |
| `Startup` | the start of a replica: `.env`, wiring, preflight, exit and restart |
| `ReplicaLoop` | a replica in operation: event loop, probes, the blocking SMTP dialogue, ticks of time |
| `Replica` | `Startup` and `ReplicaLoop` composed, as often as the container is started |
| `StartupProofs`, `ReplicaLoopProofs`, `ReplicaProofs` | theorems about the three |
| `ClientStore` | the accounts slice of the UI and its thunks, over the account component with its overlapping writes |
| `ProfileStore` | the profile slice, the pages that use it and the form, over the profile component as `ProfileRecord` promises it |
| `ClientSession` | one browser session with both slices |
| `ClientStoreProofs` | theorems about `ClientStore` |
| `ClientSessionProofs` | theorems about `ProfileStore`, and about both slices in one session |
| `MCAccountService`, `MCUserProfileService`, `MCStatementService`, `MCReplica`, `MCClientSession` | for TLC: symmetry sets, environments, values of fields |

The three service modules extend `VersionedContainer` and are each shown to implement
an abstract module (`Ledger == INSTANCE AccountLedger WITH ledger <- LedgerView`,
`Record == INSTANCE ProfileRecord WITH ...`, `Box == INSTANCE Mailbox WITH ...`). The
proof modules join the parts: the account and the profile component implement
`DocumentHistory` with what a statement reads of their documents, and the environment of
the statement component is exactly that. `Replica` and
`ClientSession` extend the two modules they compose; every step of the composition
is a step or a stutter of each part (`ReplicaComposes`, `SessionComposes`).

**`VersionedContainer`.** A container maps an id to the sequence of versions
committed for it. `Visible` is the set of versions a read may return: the newest
one or up to `MaxLag` older ones, 0 standing for 404. `MaxLag = 0` is strong
consistency. `Commit` appends whatever document it is given. `create_item` is
guarded by `CanCreate`; `replace_item` and `upsert_item` are not guarded, because
the code passes no etag. Nothing is ever deleted: no code calls `delete_item`.

**`AccountService`.** A handler is the coroutine serving one request. Variables
and code: `container` is the accounts container; `pc` the await at which the
coroutine is suspended; `call` the validated request with the caller's JWT
subject; `target`, `seen`, `stamp`, `scanned` its local variables (account number,
version of the document in hand, `now`, rows the query has delivered); `reply` the
HTTP answer, with the documents it shows. `since` is a history variable: where
every account stood when a query began.

| Action | Code |
|---|---|
| `Accept`, `RefuseNonEmployee` | the route and its dependencies; 403 of `require_bank_employee` |
| `GenerateNumber`, `InsertAccount` | `create_account`: random number, `now`, then `create_item` (a conflict or a lost answer is a 500) |
| `LookupAccount`, `AnswerLookup` | `get_by_account_number`; the checks in their order (`Verdict`), answered if they fail or if the operation only reads |
| `StartUpdate`, `RereadAccount`, `ReplaceAccount` | `update_account` and `close_account` after their checks: `now`, then `repo.update`: read again, merge, replace |
| `ScanPartition`, `AnswerList`, `AnswerBalance` | `list_by_owner` and `list_all` page by page; the list, or the most recently updated match |
| `FailRequest` | a Cosmos error before the call takes effect, or a replica that stops |

**`UserProfileService`.** The same shape with fewer steps. `Accept` of a patch also
captures `now`, which the code does before it reads. `AnswerGet` is `get_profile`;
`ReadProfile` and `UpsertProfile` are the two awaits of `update_profile`. line1,
city, state, postal code and country of an address are required together, so they
are one value, the *place*; line2 stays a field of its own because only it can be
omitted. `Given` flattens the nested document into the fields that have a value.

**`StatementService`.** `profiles` and `accounts` are the two containers reduced to
what a statement reads, the e-mail address and the owner and activity of an
account; `WriteProfile` and `WriteAccount` are the writes of the other components,
as free as the models above allow: an account begins active and keeps its owner, and
may be reopened (`AccountsAreHistories`, `ProfilesAreHistories`, `ReadsHistories` and
`EnvironmentIsGeneral` of section 5 make this exact). `mails` are the mails the SMTP server has
taken over. A day is a number in `0 .. LastDay`, so the ends of the calendar are in
the model. Each mail carries the rows (account, version) it counts; their number and
their total, which the text of the mail shows, are left out.

| Action | Code |
|---|---|
| `Accept`, `RefuseDates` | the route and `_resolve_date_range`, before the first await |
| `ReadRecipient` | `_resolve_recipient`: the request's address or the profile's |
| `ScanPartition` | `_build_statement_payload`: the query of active accounts, page by page |
| `RefuseUnconfigured` | `_load_smtp_config`: a missing or malformed variable is a 400, found only now |
| `SendEmail` | `_send_email`: delivered and answered 200, delivered and answered 500, not delivered |
| `FailRequest` | a Cosmos error, or a replica that stops |

**`Startup`.** `env` is `os.environ`, `dotenv` the `.env` file beside the sources,
`broken` the repository modules whose import fails, `built` and `overrides` the
repositories constructed and the entries of `app.dependency_overrides`, `phase` how
far `main.py` has come, `answers` the statuses each service has answered with. A
setting is one of the seven kinds of text the checks can tell apart.

| Action | Code |
|---|---|
| `LoadDotenv` | `load_dotenv`, which gives values to unset variables only |
| `WireRepository`, `WireStatements` | the three wiring blocks; `ImportError` and `RepositoryException` are swallowed |
| `Preflight` | `_validate_identity_runtime_configuration` in the startup hook: serve or exit |
| `Request` | an override hands a request to its service, the stub of the router answers 503 |
| `Restart` | the platform starts an exited or a running container again |

**`ReplicaLoop`.** `events` are the jobs (requests and probes) that have become
ready, `batch` those of the present turn of the loop that have not run yet. A request
is `runnable`, `awaiting` a Cosmos call, or `mailing`; `dialogue` is the SMTP dialogue
of the mailing request, with the number of the exchange and its age. `probe` holds,
for each of the two probes, the ticks to the next one, the age of the one under way
and the failures in a row. Only `Tick` lets time pass, and only when the loop has run
what it could or is blocked, and nothing is due. The history variables `stall` and
`waited` count ticks.

| Action | Code |
|---|---|
| `Arrive`, `Turn`, `RunToAwait`, `Resume`, `RunToAnswer` | a request on the event loop, from await to await to its answer |
| `RunToMail`, `Exchange`, `Break`, `Quit` | `_send_email`: blocking calls, each with `SMTP_TIMEOUT_SECONDS`, to the QUIT of the `with` block |
| `SendProbe`, `AnswerProbe`, `FailProbe` | the probes of `main.tf` and `health_check`; failures out of rotation, or stop |
| `Start`, `Stop` | the container goes into operation, or is stopped and loses its requests |

**`Replica`.** `Booting` are the steps of `Startup`, the last of which is `Start` if
the preflight passes; `Operating` those of the loop; `Restarting` a restart that, if
the probes asked for it, is also `Stop`. Bound: only replicas whose settings are in
`Traffic` go into operation, of the others only the start and the choice between
service and stub are explored.

**`ClientStore`.** `stage`, `call` and `answer` are a thunk's request on its way to
the server and its answer on the way back, `items`, `loading` and `error` the slice.
The rows are kept per account number: the order of different accounts in the list is
layout. `Dispatch` is a page or a dialog dispatching a thunk with its pending reducer,
`Serve` and `Fail` are the server, `Settle` the fulfilled and rejected reducers,
`GiveUp` the 15 s timeout of axios, after which `ServeLate` may still process the
request. `ChangeElsewhere` is another session of the user. `Serve` may lose the answer
to what it did. The history variable `tangled` says whether requests have met since
the last fetch that was sent on its own, `orders` how many accounts the user has
ordered. The server is `AccountService` for one user and with strong reads, its steps
that change nothing taken together with the one that does: `ledger` holds the
versions of every account, and a request works on versions that were the newest at some
moment since it was sent (`since`). A list meets each account at a moment of its own
(`Moments`); an update or a close is checked on one version and merged into the same or
a later one (`Bases`), while others commit. So overlapping writes undo each other, an
account shown as CLOSED may be usable again, and a list may bring it back. What stale
reads add is in `AccountService`.

**`ProfileStore`.** `stored` is the profile of the server, `progress`, `asked` and
`body` are thunks and answers as above, `data`, `fetching` and `failed` the slice,
`page`, `editing`, `form` and `saving` the page and the local state of
`ProfilePage.tsx`. A save belongs to the page that sent it (`own`) until the user
leaves that page: React drops the local state, and the code after the `await` of
`handleSave` no longer reaches any form. The history variables are `edited` (what the
user has typed), `calm` (whether the form was copied from settled data) and `muddled`
(as `tangled`).

| Action | Code |
|---|---|
| `Visit`, `VisitOther` | the dashboard and the profile page fetch on opening; the page left loses its form |
| `StartEdit`, `Type`, `Cancel`, `Save` | the form; `Save` is `handleSave` to its `await` |
| `Process`, `Deny`, `ProcessLate` | the server: a patch of the fields the form supplies, or a failure |
| `Deliver`, `TimeOut` | the reducers, and the rest of `handleSave` if the page is still open |
| `AmendElsewhere` | another session changes one field, or creates the profile |

**`ClientSession`.** Both slices. Bound: of one session only the thunks of one slice
are followed, since no reducer of one listens to the thunks of the other; the states
then add up. The theorems are free of this bound in each slice.

**Abstractions.** Payloads are model values; validation by pydantic (422) happens
before the modelled code and only valid payloads are enumerated. Status 500
stands for every failure the client cannot tell apart, and a stopped replica is
one of them: services keep nothing but local variables, so a restart loses just
the requests it was serving. The clock is a number that stays or advances by one
each time it is read; replicas share it, so clock skew is not modelled. Account
numbers are drawn from the small set `Numbers`, so that collisions do happen.

## 3. Runs

A *pass* run finishes without error, with deadlock checking on: an instance may
stop only in `Quiescent`, when all its requests have been answered. A *violation*
run checks one sentence of the repository that the code does not keep.

| Run | Question | Bounds |
|---|---|---|
| `accounts_concurrent` | do documents stay consistent, keep their identity and their writer, do answers respect owner and closure, and is every request answered, under every overlap and with stale reads? | 2 handlers, 2 numbers, customer and employee, 3 requests, reads lag by 1, fairness, no symmetry |
| `accounts_serial` | without overlapping writes of one account, is the service the ledger, and does a query that runs beside writes miss no account that was there all the time? | customer's writes, lists and balances, 2 numbers, 2 currencies, 4 requests, strong reads |
| `accounts_reopened` (violation) | "This action cannot be reversed via this API." | overlap of update and close |
| `accounts_closed_twice` (violation) | "If account is already CLOSED." raises | two overlapping closes |
| `accounts_conflict` (violation) | "AccountAlreadyClosedException: If account is already CLOSED.", which is a 409 | create, close, then a third write |
| `profiles_concurrent` | is an answered patch stored, and is every patch that is not based on a replaced version one atomic merge? | 2 handlers, 3 requests, reads lag by 1 |
| `profiles_lost_field` (violation) | "omitted fields are unchanged" | two overlapping patches |
| `profiles_incomplete` (violation) | "Creates the profile if it does not yet exist" | one patch |
| `statements` | is the period the one meant, the address and the accounts current, does the answer agree with what was mailed, and is the service a `Mailbox`? | 2 handlers, 2 users, 2 accounts, 2 requests, 2 writes of the others, 3 days, period of 2, strong reads |
| `statements_sent_but_failed` (violation) | the exception "If SMTP delivery fails.", "Please try again." | one handler, 2 requests |
| `replica` | does a replica serve exactly if it is well configured, do only mails make probes fail, do requests end and does traffic come back? | 3750 combinations of environment and `.env` file, each with every set of broken modules; 2 slots, 2 requests of at most 1 Cosmos call, 4 SMTP exchanges of at most 3 ticks, fairness |
| `client_store` | do the pages show what is stored when nothing is amiss, does every account stem from an order of its own, does a form change what its user changed, and do the spinners go away? | accounts: 2 requests under way, 2 accounts, 3 thunks, 3 versions, any number of changes elsewhere; profile: 2 requests under way, 2 fields, 3 thunks, each field typed once per form; fairness |

**Why these bounds are enough to be interesting.** Every known hazard needs two
requests in flight at once and one or two before them that set the stage, hence
two handlers and three or four requests: create, then two overlapping writes,
then a read. Two account numbers give both a collision and a second account;
requests on different accounts only meet in queries. For a query to matter an account
has to exist before it and another write has to fall into it: with four requests
`accounts_serial` has a create, the query and two more writes, an update of the account
the query must find and one of an account it meets earlier or later. A lag of one version shows
every effect of staleness on a history of at most four versions. One profile is
enough, as profiles of different users share nothing. Handlers (and account
numbers) are interchangeable and declared symmetric where only safety is checked.
Statements share nothing but the containers, so two requests suffice; of the two
writes one can come before a request and the other into its query, between the visits of
the two accounts (reads of any staleness are covered by the theorems). Three days and a
period of two reach both ends of the calendar, a reversed range and all
combinations of given dates. The timings of `replica` are
the real ones in ticks of 5 s (`main.tf:163`: timeout 5 s, intervals 30 s and 10 s,
initial delay 10 s, three failures; `SMTP_TIMEOUT_SECONDS` 15 s), so that one socket
operation can outlast a probe, three probes in a row can fail within one dialogue, and a
restart can happen in the midst of one; four exchanges stand for the dozen of a real
dialogue; two
slots let a request wait behind a mail. In the client two requests at a time are what it takes
for one to overtake the other, and the third thunk starts from the damage or repairs it;
three versions of an account are its opening, a close and the update that undoes it.
Another session amends one field of the profile at a time; repeated, that gives every
change. `MaxRequests` (with `MaxWrites`, `MaxDispatches`, `MaxThunks` and `MaxVersion`)
is the bound that cuts behaviours off; the theorems of section 5 hold for every value.

**Fairness.** `FairSpec` asks weak fairness of `Serve(h)` for every handler: the
event loop runs each coroutine that is ready, and each await of a Cosmos call ends
because the SDK's retries and timeouts are bounded. Accepting requests and failing
carry no fairness: clients need not call and no failure is forced. `LoopFairness`
of the replica says the same of the loop (`LoopStep`) and of Cosmos calls (`Resume`);
a socket operation ends by its timeout (`SmtpStep`), time passes (`Tick`), and the
platform goes on probing (`SendProbe`). `Booting` and a stop that is due end, the
latter by the grace period. Arrivals, failing probes (once time has passed, nothing
else can happen to a probe that is not answered) and spontaneous restarts carry none.
`SessionSpec` asks weak fairness of `Settle(r) \/ GiveUp(r)` and of
`Deliver(r) \/ TimeOut(r)`: axios rejects a request after 15 s
(`ui/src/services/api.ts:18`) if nothing arrives before. All other runs are about
safety and use no fairness.

**`SerialSpec`.** Restricts behaviours to those in which two writes of one account
(two patches of one user) are never in flight together. The server does not ensure
this; it is what a client does that waits for each answer. The runs and theorems
that use it say what the service guarantees to such clients.

## 4. Properties

Accounts: `DocumentsConsistent` (the four closure fields agree in every version),
`IdentityNeverChanges`, `OnlyOwnersWrite`, `RepliesRespectOwner`,
`CustomersReadActive`, `NoActiveAccountMissed`, `FreshReplaceNeverReopens` (what an
etag would ensure), and, without overlapping writes, `ClosedForGood`,
`UpdatedAtNeverGoesBack` and `ImplementsLedger`. `EveryRequestAnswered` is the liveness
property.

Profiles: `AnsweredPatchIsStored` and `PatchesRefineRecord`: under every overlap and
with stale reads, a step that commits nothing based on a version replaced meanwhile is
one atomic merge of the supplied fields, or nothing, as `ProfileRecord` has it. Only
proved are `FreshPatchKeepsOmitted` (a merge of the newest version drops nothing, in the
nested address either) and, without overlapping patches, `CreatedAtNeverChanges` and
`ImplementsRecord`.

Statements: `PeriodsAreMeant` (a declarative definition of the period a request
means, against the arithmetic of the code), `RecipientWasCurrent` and
`StatementCoversActive` (both up to the staleness of reads), `AnswerAgreesWithMail`
(200 means one mail, 400 none, never two) and `ImplementsMailbox` (the mail and the
answer belong to one step, and no retry or failure comes between them).

Start-up: `StubsOnlyForBrokenModules` (the 503 of a stub is never given for missing
settings: what keeps a constructor from succeeding keeps the preflight from passing)
and `StartsOrExits` (each start ends, serving if and only if the settings are those the
documentation describes). Event loop: `OnlyMailDisturbs` (the platform takes a replica
out of rotation or stops it only if a mail has blocked it for a whole probe timeout),
`WaitIsBounded` (how long a request waits for the loop), `RequestsEnd` and
`RotationReturns`.

Client: `QuietMeansCurrent` and `ProfileQuietMeansCurrent` (nothing under way, no error
shown and no requests that met: the page shows what is stored), `RowsWereStored` (every
row shows a version the server has stored, as it was stored), `OnlyOvertakenTurnBack` (a
row gives way to an older one, or disappears, only for an answer to a request that was
sent before the newer version was stored),
`OneAccountPerOrder` (however answers are lost or late, no order opens two accounts),
`LoadingMeansFetching`, `SavesEndTheirOwnForm` (a late answer to a save never closes or
frees a form it does not belong to), `CalmSavesKeepTheRest` (a form opened on settled
data writes back only what the user changed) and, under fairness, `SpinnersEnd` (the
spinners and the form being saved end together once the user pauses, so each of them
ends).

For every property of a passing run a mutant of the model, an operator defined
next to the definition it replaces and marked "Mutant", breaks it.

## 5. Proofs

All theorems hold for any sets of handlers, users, accounts and values, and any
number of requests. They assume what the specifications declare:
`MaxLagAssumption`, `AccountAssumption`, `ProfileAssumption`, `NullAssumption`,
`StatementAssumption`, `RequestAssumption`, `StartupAssumption`, `ReplicaAssumption`, `StoreAssumption`,
`ProfileStoreAssumption` (bounds are natural numbers, `Null` is not one of the values,
a probe's interval is longer than its timeout), which TLC evaluates in every run. The
theorems about serial behaviours also assume `MaxLag = 0`, those about waiting for the
loop that `Slots` is finite.

| Theorem | States |
|---|---|
| `AccountServiceProofs!TypeCorrect` | `Spec => []TypeOK` |
| `AlwaysConsistent` | `Spec => []DocumentsConsistent` |
| `IdentityPreserved` | `Spec => []IdentityNeverChanges` |
| `OwnersWriteOnly` | `Spec => OnlyOwnersWrite` |
| `NoConflictReply` | `Spec => []ConflictUnreachable`: why `accounts_conflict` fails |
| `FreshReplaceIsSafe` | `Spec => FreshReplaceNeverReopens` |
| `RepliesAreOwn` | `Spec => []RepliesRespectOwner` |
| `ReadsAreActive` | `Spec => []CustomersReadActive` |
| `ActiveAccountsAreFound` | `Spec => NoActiveAccountMissed` |
| `WritesAreStored` | `Spec => []AnsweredWritesAreStored`: a 201 or 200 to a write shows a stored version with the values asked for |
| `AccountsAreHistories` | `Spec => Histories!HistorySpec`: accounts begin active, keep their owner, lose no version |
| `SerialUpdatedAtGrows` | `SerialSpec => []UpdatedAtNeverGoesBack` |
| `SerialClosedForGood` | `SerialSpec => []ClosedForGood` |
| `SerialClosesOnce` | `SerialSpec => NotClosedTwice` |
| `SerialRefinesLedger` | `SerialSpec => ImplementsLedger` |
| `SerialClosingIsFinal` | `SerialSpec => Ledger!ClosedIsFinal /\ []Ledger!LedgerTypeOK` |
| `UserProfileServiceProofs!TypeCorrect` | `Spec => []TypeOK` |
| `FreshPatchIsSafe` | `Spec => FreshPatchKeepsOmitted` |
| `AnsweredPatchesAreStored` | `Spec => []AnsweredPatchIsStored` |
| `SerialCreatedAt` | `SerialSpec => []CreatedAtNeverChanges` |
| `SerialKeepsOmitted` | `SerialSpec => OmittedFieldsUnchanged` |
| `SerialStaysComplete` | `SerialSpec => []CompleteStaysComplete`: a profile shown once is shown for ever |
| `FreshPatchesRefineRecord` | `Spec => PatchesRefineRecord` |
| `SerialRefinesRecord` | `SerialSpec => ImplementsRecord` |
| `FieldsAreNeverLost` | `Record!RecordSpec => Record!FieldsStay`, and so `SerialSpec` |
| `ProfilesAreHistories` | `Spec => Histories!HistorySpec`, of the e-mail address of every version |
| `StatementServiceProofs!TypeCorrect` | `Spec => []TypeOK` |
| `PeriodResolution` | what `_resolve_date_range` computes is what a request means; it refuses only what means nothing |
| `PeriodsMeant` | `Spec => PeriodsAreMeant` |
| `RecipientsAreCurrent` | `Spec => RecipientWasCurrent` |
| `StatementsCoverActive` | `Spec => StatementCoversActive` |
| `AnswersAgreeWithMails` | `Spec => []AnswerAgreesWithMail` |
| `ServiceIsMailbox` | `Spec => ImplementsMailbox` |
| `MailedAtMostOnce` | `Box!MailboxSpec => []Box!MailedOnce`, and so `Spec` |
| `ReadsHistories` | `Spec => AccountHistories!HistorySpec /\ ProfileHistories!HistorySpec` |
| `EnvironmentIsGeneral` | within the bound on writes every step of these histories is a step of `Next` |
| `StartupProofs!StartTyped` | `StartSpec => []StartTypeOK` |
| `NoStubForSettings` | `StartSpec => []StubsOnlyForBrokenModules` |
| `StartJudgesSettings` | only well configured replicas serve and only others exit, the safety half of `StartsOrExits` |
| `ReplicaLoopProofs!LoopTyped` | `LoopSpec => []LoopTypeOK` |
| `DisturbedOnlyByMail` | `LoopSpec => OnlyMailDisturbs` |
| `LoopWaitIsBounded` | `LoopSpec => []WaitIsBounded` |
| `ReplicaProofs!ReplicaComposes` | `ReplicaSpec => StartSpec /\ LoopSpec` |
| `ReplicaTyped` | `ReplicaSpec => []ReplicaTypeOK` |
| `OperatesWellConfigured` | the loop runs only under well configured settings, across restarts |
| `ReplicaServesOrStubs`, `ReplicaDisturbedOnlyByMail`, `ReplicaWaitIsBounded` | these three properties, of `ReplicaSpec` |
| `ClientStoreProofs!TypeCorrect` | `Spec => []TypeOK` |
| `SpinnerMeansFetching` | `Spec => []LoadingMeansFetching` |
| `RowsStayStored` | `Spec => []RowsWereStored` |
| `OvertakenOnlyTurnBack` | `Spec => OnlyOvertakenTurnBack` |
| `OrdersOpenOneAccount` | `Spec => []OneAccountPerOrder` |
| `QuietPageIsCurrent` | `Spec => []QuietMeansCurrent` |
| `ClientSessionProofs!ProfileTyped` | `ProfileSpec => []ProfileTypeOK` |
| `OwnSavesOnly` | `ProfileSpec => SavesEndTheirOwnForm` |
| `QuietSliceIsCurrent` | `ProfileSpec => []ProfileQuietMeansCurrent` |
| `CalmSavesAreHarmless` | `ProfileSpec => CalmSavesKeepTheRest` |
| `SessionComposes` | `SessionSpec => Spec /\ ProfileSpec` |
| `SessionTyped`, `SessionAccounts`, `SessionProfile` | the safety properties of both slices, of `SessionSpec` |

**Argument for the accounts.** `TypeOK` is not inductive: that a replacement
stores a document needs to know which request the handler at "replace" serves and
that the version it read exists. `HandlersInv` adds `HandlerOK` for every handler
and is inductive, one lemma per kind of step. On top of it: only inserts and
replacements change the container (`WritesAreInsertsOrReplaces`), what they append
is known (`InsertedDocument`, `ReplacedDocument`), and a merge keeps the closure
fields in agreement and the identity unchanged. Ownership needs one more invariant,
`WriterIsOwner`: a handler past its checks serves the account's owner, which
survives because the first version fixes the owner for good. For the refinement,
`SerialInv` adds that no two writes of one account are in flight and that what a
writer has read is current (`WritersAreCurrent`); then the verdict taken on the
lookup still holds when the replacement is made, and every step is a step of the
ledger or a stutter. What a reply shows is a version, and versions never change
(`VersionsStay`), so it stays as it was shown; that it may be shown (`Presentable`)
is due to the filters of lookups and queries, whose "not deleted" means ACTIVE by
`DocumentsConsistent`. `QueriesInv` adds that what a query visits is at most `MaxLag`
versions older than what was current when it began, so an account it drops had a
version that is not the caller's or not active in that time. For `updated_at`,
`StampsFollowClock` says that no stamp is ahead of the clock and that the one a writer
has captured is not behind the version it works on. `AnsweredWritesAreStored` adds to
`Presentable` that the version shown honours the request (`Honours`), and that a
successful answer to a write shows one.

**Argument for the profiles.** The same plan, shorter. The heart is the lemma
`GivenMerged`: the fields given after the nested merge are those of the old
document overridden by those of the patch. From it follow `FreshPatchIsSafe`
(whatever the interleaving, a merge of the newest version loses nothing) and
`FreshPatchesRefineRecord`, in which a pending patch of the record is a handler that
serves one; with `SerialInv` every upsert is based on the newest version, and the
refinement follows. `AnsweredPatchIsStored` follows from the merge, in which the fields
supplied win, and from versions that never change.

**The promises the code breaks, kept.** Three violations of section 6 have a converse:
under `SerialSpec` and with `MaxLag = 0` a closed account stays closed
(`SerialClosedForGood`), is closed once (`SerialClosesOnce`), and a patch leaves alone
what it omits (`SerialKeepsOmitted`). So overlapping requests and stale reads are not
only a cause of these violations but the only one: what a writer has read is then
current (`WritersAreCurrent`), and the check or the merge is right for what is
current. The abstract modules are not taken at their word either. That a closed entry
never changes (`ClosedIsFinal`), that no field is lost (`FieldsStay`) and that no
request is mailed twice (`MailedOnce`) is proved of the abstract specifications and
carried over by the refinements.

**Argument for the statements.** `PeriodResolution` is arithmetic, by cases on the
dates given. `HandlersInv` says what the step a handler is at knows: the call has
its form, the recipient is the request's or a version of the profile recent enough
when the request began, and every row scanned is a version recent enough then.
Histories only grow, so what was recent when read still is when the mail is sent;
this gives the two properties about mails. `MailInv` adds that request numbers are
distinct, that no two mails share one, that a request being served has no mail yet
and that an answered one has the mail its status speaks of. For the mailbox a handler
that is not idle is a client that waits; the number of a new request is unused because
`MailInv` bounds the numbers given out (`NextNumberIsUnused`), a mail goes where the
request says because of what `HandlersInv` knows of the recipient (`SendingDelivers`),
and whatever else happens to the containers is a stutter (`MailboxRests`).

**What the components assume of each other.** `StatementService` has the writes of the
others as actions of its own. `DocumentHistory` is the contract: an id has a sequence of
documents that only grows; it begins with one in `First`, and `Later` says which may
follow. The account component
implements it with owner and activity (`OwnershipView`), by `IdentityNeverChanges` and
because an insert stores an active account; the profile component with the e-mail
address. The other side has two halves: the environment of the statement component does
no more than the contract allows (`ReadsHistories`) and, within the bound on the writes,
all that it allows (`EnvironmentIsGeneral`), so its theorems hold whatever the two
components do, even where they break their own promises.

**Argument for the replica.** `Wired` says, phase by phase, which repositories are
built: those whose module imports and whose settings are present. A preflight that
passes vouches for these settings (`PreflightImpliesConnect`), so a replica that serves
has a stub only where a module is broken. For the loop, `PendingProbes` is the
strengthening: a probe under way waits in `events` or `batch`, and its age is at most
`stall`. Time passes with something waiting only while the loop is blocked, so each
tick that makes the probe older also makes the stall longer; a probe that fails has
waited `ProbeTimeout` ticks, all of them blocked. Both carry over to `Replica` because
each of its steps is a step or a stutter of each part. The bound on waiting counts
dialogues: `WaitInv` says that what a request has waited, one dialogue for each request
ahead of it and what is left of the dialogue under way are together at most `n - 1`
dialogues in the turn in which it became ready and twice that in its own; each tick
moves one unit from what is left to what was waited. That only well configured
replicas operate (`Admitted`) holds across restarts because a restart keeps the
environment and ends the operation.

**Argument for the client.** `TypeInv` adds that a slot in use holds a request.
`StoredInv` says of answers under way what `RowsWereStored` says of rows; histories only
grow (`LedgerGrows`), so what was stored stays stored, whatever is written over it.
`FreshInv` says that an answer under way is no older than the versions its request was
sent after, and that a list omits an account only if one of its versions since then was
not active; what an arriving answer turns back was therefore stored later
(`FreshAnswerKeepsPage`). `OneAccountPerOrder` is inductive by counting: serving an order moves one from
`OpenOrders` to `Opened`. `QuietInv` follows the one request that may be under way
while nothing is tangled: what it finds (the rows are current), what it brings
(`ReplyFits`) and what the reducers make of it (`FulfilQuiet`). For the profile,
`OwnInv` says that the page waits for at most one save and that its form is the one
sent, typed on since; `ProfileQuietInv` is the counterpart of `QuietInv`; `CalmInv`
says that what the user has not changed, in a calm form or in its save, is what is
stored.

**Only model-checked.** `EveryRequestAnswered`, `StartsOrExits`, `RequestsEnd`,
`RotationReturns` and `SpinnersEnd`: liveness under fairness needs reasoning about
ENABLED, which the prover does not support; of `StartsOrExits` the safety half is
proved. Every other property of a passing run is proved. That the server
inside `ProfileStore` is a `ProfileRecord` is argued in its comments and not proved:
there a change by another session is one step, in `ProfileRecord` two (a client submits
the patch, the record applies it), so a step-by-step mapping does not exist. Induction over data and recursive operators
are out of the prover's reach as well; the models use neither.

## 6. What the code does not keep

* **A closed account can be reopened** (`accounts_reopened`). An update that looked
  the account up before a close replaces the closed document by its own active
  copy. With stale reads no overlap is needed: with `SPECIFICATION SerialSpec` and
  `MaxLag = 1` in that run's configuration TLC finds an update sent after the close
  was answered whose two reads both miss it.
  The docstring of `repo.update` announces optimistic concurrency ("via Cosmos DB
  etag if available"); there is none, and `FreshReplaceIsSafe` shows that this is
  the only cause.
* **An account can be closed twice** (`accounts_closed_twice`), the second closure
  overwriting the first one's time and reason.
* **The 409 promised for a closed account is never given** (`accounts_conflict`): the
  `is_deleted` check hides the status check, so a write to a closed account is
  answered 404; `NoConflictReply` proves it of every request. The tests
  (`tests/test_api/test_accounts.py:210` and `:247`) reach the 409 with a
  document no operation produces.
* **Overlapping patches lose fields** (`profiles_lost_field`); a complete profile
  can become unreadable that way.
* **An incomplete first patch is stored and answered 500** (`profiles_incomplete`),
  and so is every GET after it.
* **created_at can be replaced** by a second overlapping first patch: the same
  cause, so `CreatedAtNeverChanges` is only proved without overlap. In the same way
  `updated_at` of an account may go back when writes overlap, and the order of a balance's
  candidates with it.
* **A delivered statement can be answered 500** (`statements_sent_but_failed`), and
  the page then asks to try again.
* **The page's list is not always right** when requests meet: a list that already
  contains a new account is followed by the push of that account, which then has two
  rows, and an older list overwrites newer rows. An account closed in one request and
  reopened by another is shown as CLOSED until the next fetch. `QuietMeansCurrent`
  therefore speaks of requests that did not meet, `OnlyOvertakenTurnBack` of the answers
  that can do this.
* **A stale form overwrites newer fields.** The profile form sends every field, not
  only the changed ones. Opened while the refetch of the page is still under way, or
  beside another session, it writes back what it was opened with. `CalmSavesKeepTheRest`
  therefore speaks of forms opened on settled data.
* **A mail can take a replica out of rotation.** The dialogue of one statement may block
  the loop for `SMTP_TIMEOUT_SECONDS` per socket operation, with the probes' timeout at
  5 s; `OnlyMailDisturbs` shows that nothing else does, `RotationReturns` that it heals.

Read while modelling, without a run of their own:

* The statements page sends `period_month` and `period_year`
  (`ui/src/types/api.ts:76`), which `StatementEmailRequest` forbids
  (`src/models/statement.py:34`), so its requests are answered 422 before the modelled
  code begins; the requests of `StatementService` are those of the API.
* "Run the Application" in `README.md:101` sets two variables; the preflight wants four
  and ends the process. So does an environment with blank Cosmos settings, of which
  `.env.example:7` says that the app runs "without a database".
* "For local dev set it in .env" (`src/auth/oauth2.py:32`) has no effect: the key is read
  when `oauth2` is imported, before `load_dotenv` is called (`src/main.py:64`).
* The stubs' reason, missing settings (`src/api/accounts.py:49`), never occurs
  (`StubsOnlyForBrokenModules`), and what they raise is a 503, not the
  `NotImplementedError` of the comment in `src/main.py:182`.
* The endpoint `/token` of `README.md:119` does not exist.
* A user without a profile has no Edit button, so the page cannot create one. An error
  of the profile slice stays on the page after a retry has succeeded. What is typed
  while a save is under way is lost when the save succeeds.

## 7. Not modelled, and the plan

In order of importance:

1. `Session`: token issue, expiry and roles (`src/auth/oauth2.py`), composed with the
   admission of requests; so far only `require_bank_employee` is modelled.
2. The total over accounts in different currencies
   (`src/services/statement_service.py:212`), which needs balances in
   `StatementService`.
3. `Promotion`: the conditional stages of `.pipelines/cd.yml` and the release
   workflow: what reaches production passed through the stages before it.

Left out for good: logging, rendering, the sign-in library, Terraform resources,
scan and build scripts, and agent hand-over files; they keep no state the program's
behaviour depends on.

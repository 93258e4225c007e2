# Verification of the rental management system

The program runs a rental business: a manager keeps buildings, rooms, tenants and contracts, reads
meters each month, issues invoices, and collects bank transfers that tenants prove with a picture. It
is a TypeScript/Express backend over PostgreSQL (`backend/src`) with a React front end (`front-end/src`).
This directory holds TLA+ models of it, the TLC configurations that check them, and TLAPS proofs.

Almost all the state is in PostgreSQL. Each operation runs in one transaction
(`withTransaction`, isolation READ COMMITTED) that takes `FOR UPDATE` row locks before it decides. What
is hard is therefore not memory shared between threads but **long sequences of legal calls** on several
tables whose statuses must agree, the **races the row locks do not cover**, **retries** by clients and
jobs, the **crash** of a worker between an external effect and its record, and in the browser the
**late answer** to a question nobody asks any more.

## Inventory

| component | state | operations | what makes it correct |
|---|---|---|---|
| payments (`modules/payments`) | `payment_request`, `payment_proof`, `payment` (append-only ledger) | create request, submit proof, approve, reject, reverse, cancel/expire | never overpaid; invoice status = ledger; one active request; a key names one proof; history is final |
| invoices (`modules/invoices`) | `invoice`, `invoice_item`, `invoice_adjustment` | generate, from reading, manual create/update/delete, adjust, issue, void, replace | one live invoice per contract and month; an issued invoice is immutable; void is final; bills what the meter and the tariff say |
| utility readings | `utility_reading` and evidence | submit, approve, reject, request correction | meters do not run backwards; an invoiced reading is locked |
| monthly billing | none (work list over the above) | next action per room | the replacement of a void invoice is advised only where it is accepted |
| contracts (`modules/contracts`) | `contract`, `contract_tenant` | create, update, activate, end, cancel, add/update/remove tenant | one active contract per room; one primary tenant; capacity |
| rental registration | the same tables, `utility_reading` | reserve, hand over, cancel | two-phase stay of a room; a tenant lives in one place |
| rooms, buildings | `room.status`, `room.max_occupants` | CRUD, capacity | capacity follows the contracts |
| tenants | profile, current contract, account, identity documents, erasure | CRUD with a contract in the form, archive, erase | the form overwrites nothing it has not seen; nothing of an erased tenant stays |
| fixed charges, utility rates | effective-dated price rows on three levels, month extras | CRUD, resolve a month | one price wins, by level and date; an invoice bills prices that were in force |
| sessions (`auth/session.service.ts`) | `auth_session`, `auth_refresh_token`, `app_user.session_version` | login, refresh (rotate), logout, revoke one or all, change password, disable and enable, clean up | a session has one live token or none; a change of the password reaches every session, also the one being opened |
| login throttle | `auth_login_throttle` | check, record a failure, clear | how far parallel attempts pass the limit |
| activation and reset | two tables of single-use tokens, `app_user` | invite, resend, activate, request and confirm a reset, change address | one open link of a kind; an open invitation is at the address the account has, and the account is not active; requests within the limit |
| two-factor | secret, pending secret | set up, enable, disable, ask at login | who is in proved the secret in force |
| e-mail outbox | `email_outbox` | enqueue in the business transaction, claim, send, retry, recover | nothing lost; duplicates only after a fault; attempts bounded |
| scheduler | `background_job_run`, an advisory lock | run a job per time bucket, mark stale runs failed | one worker at a time, one run per bucket |
| documents, uploads | four tables of documents, `cloudinary_asset_job`, the image store | upload, attach, replace, delete, expire, move to private delivery, reconcile | no row without its file, no file without its row |
| dashboard, reports | none (aggregates of the above) | read-only queries | the same number on every screen |
| schema and operations | applied migrations | migrate, verify, seed, back up | each migration is applied once, by however many deployments |
| imports | none of its own | preview, insert rows of a file | all of a file of buildings or rooms or none; no code twice |
| audit log, settings, notifications | append-only rows, single rows | insert, upsert, read | not modelled (see below) |
| front end | the tab's tokens; lists, drawers, forms and dialogs of the pages, and the requests under way | refresh; load, fill in, save, review, retry | the session lasts until logout; what is saved, closed or reviewed is what is shown |

### How the components meet

* Issuing an invoice (invoices) inserts its first payment request (payments), locks its reading
  (readings) and enqueues an e-mail (outbox), in one transaction.
* Approving and reversing (payments) recompute `invoice.status`; voiding (invoices) rejects pending
  proofs and cancels open requests. The two components write the same rows from different handlers.
* The expiry job (scheduler) updates `payment_request` with no call from a user.
* Handing a room over (registration) writes the first meter reading of the stay.
* The tenant form writes contracts beside the contracts module, with rules of its own.
* Deleting or expiring a document row enqueues, by a trigger, the deletion of its file; a worker moves
  files of the same rows.
* Reports, dashboard and room lists read the tables of payments and contracts, each by a query of its own.
* A change of the password, the account's status or the second factor ends sessions.

### Behaviours that are hard

Partial payments with cancelled, expired and reissued requests; reversal long after the fact, also
after a void; a void while a proof waits; retried submissions and approvals; readings rewritten by four
different operations; tenants checked without a lock; a form that writes what it read earlier; prices
edited while an invoice reads them; logins that race a password reset, each other and the throttle; invitations
mailed to an address that changes; a worker that outlives its lock and its claims; an e-mail
sent and not recorded; a file moved while its row is deleted; migrations and imports run by two at once; answers that fill a form its user has left,
which the code does not exclude (below).
`PROJECT.json` lists each at its line under `hazards`, with the property that covers it or the reason why none does.

## Modules

| module | models |
|---|---|
| `InvoiceAccount` | what the ledger promises of one invoice: a status, a total and a balance, with six operations. Abstract: no requests, proofs or rows |
| `PaymentLedger` | `payments.service.ts`, the draft, issue and void operations of `invoices.core.ts`, and the expiry job of `background-jobs.service.ts` |
| `Reports` | extends it with the balance, revenue, debt and dashboard queries as operators over its state |
| `MeterReadings` | the rows of `utility_reading` and every write to them: `utility-readings.service.ts`, `upsertUtilityReadingForInvoice`, `upsertHandoverReading` |
| `Billing` | extends it with contracts and invoices: how `invoices.core.ts` makes, edits, issues, voids, replaces and deletes invoices, activation by handover, and the advice of `monthly-billing.service.ts` |
| `Tenancy` | `contracts.service.ts`, `rental-registration.service.ts`, the contract part of the tenant form and the update of a room: who lives where, and what races with what |
| `Occupancy` | extends it with the queries that count rooms and people |
| `Charges` | the prices of a month and the statements of the transaction that makes an invoice from them |
| `Outbox` | the e-mail outbox and the delivery job of `background-jobs.service.ts`, with faults and fairness |
| `Sessions` | the sessions and refresh tokens of one account: `session.service.ts`, the login and password change of `auth.service.ts`, and what else ends sessions, statement by statement and lock by lock |
| `Credentials` | the account of one tenant and the links mailed for it: activation, reset, change of address and password |
| `LoginThrottle`, `ResetLimits` | what limits logins and requests for a reset, with calls made at the same time |
| `Documents` | rows, files and jobs of the document store, with faults, retention, erasure and reconciliation |
| `TwoFactor` | the second factor of a manager: `two-factor.service.ts` and the login that asks for a code |
| `JobRuns` | the scheduler's lock, cycles and rows of job runs in `background-jobs.service.ts` |
| `Imports` | files imported by several calls at once: `imports.service.ts` |
| `Migrations` | runs of `migrate.js` by several deployments |
| `BrowserTab` | one tab of the front end and its session: `apiClient.ts`, `AuthContext.tsx` |
| `InvoiceForm`, `InvoiceDetail` | the invoices page: the drawer an invoice is written in and the answers that fill it; the drawer of one invoice, its dialogs and the requests that fill it again |
| `FixedChargesPage` | the page of the fixed charges: its five tables, its drawer and the selectors of building, room and contract |
| `PaymentsPage`, `PaymentsDrawer` | the payments page: the list with its review in bulk, the drawer of one request |
| `BuildingsPage` | the page of the buildings: their list, the panel of the one selected with its rooms, and what is written and deleted over it |
| `ContractsPage`, `UtilitiesPage`, `TenantsPage`, `TenantRoomPage`, `ImportsPage` | the page each is named for |
| `RegistrationPage`, `RegistrationDocuments` | the rental registration page, and its dialog for documents |
| `MC*` | instances for TLC: symmetries, constraints; `MCOffice` runs the twenty-two small components side by side |
| `PaymentLedger_proofs`, `Billing_proofs`, `Tenancy_proofs`, `Outbox_proofs`, `Sessions_proofs`, `Documents_proofs` | the theorems about the module they are named for; those of `Reports` are in the first, those of `Occupancy` in the third |
| `Pages_proofs` | the theorems about the thirteen pages `MCOffice` is made of |
| `Office_proofs` | extends it with those about the components of the server and the tab in `MCOffice`, and about all of them |

### PaymentLedger, Reports and the code

`invoice`, `request`, `proof` are functions from ids to rows; `payment` is the set of ledger rows.
A row that is not there yet has status `"NONE"`. An action is one transaction of the handler whose name
it has (`SubmitPaymentProof`, `ReversePayment`, `VoidInvoice`, ...); `reviewPaymentProof` is the two
actions `ApproveProof` and `RejectProof`. `PROJECT.json` gives the lines of every definition.

* A call the code refuses with an error, or answers from existing rows (an active request, a used key, an
  approved proof), changes nothing and is a stuttering step.
* `AdjustDraft` stands for both edits of a draft's total (an adjustment and the manual update).
  `CreateDraft` for the four ways a draft appears; where its total comes from is the subject of `Billing` and `Charges`.
* A ledger row is identified by its proof: the idempotency key of a payment is `approve-proof:<proof>`,
  that of a reversal `reverse-payment:<payment>`, and each has a unique index.
* An idempotency key stands for the pair of the submitting user and the key sent, which is what the
  unique index is on.
* The request's own `amount` and its QR code are left out: no handler reads them to decide (the amount
  a tenant may transfer is checked against the invoice's balance).
* `submitPaymentProof` checks the unique key before the request's status, and the model needs no order
  here because either refusal leaves the rows as they are.
* Time is one action, `ExpiryPasses`: a request's `expires_at` falls into the past at any moment.
* Branches the schema makes unreachable are kept in guards where they cost nothing (a draft with an
  active request) and dropped otherwise (a proof without an amount).
* A query of `Reports` is given for one invoice; grouping by month or building only adds such values up. The
  caps (`LEAST`, `GREATEST`) and the fallback for invoices paid before there was a ledger are kept, for `BooksAgree`
  says that they hide nothing.

The transactions lock the invoice row (`FOR UPDATE OF ... i`) before they read the ledger, which is what
makes one action per transaction sound; the locks themselves are not modelled here.
`expirePaymentRequests` takes no invoice lock but is one statement.

### MeterReadings, Billing and the code

`reading[r][m]` is the row of a room and month (`uq` on both), `contract[c]` the status and room of a
contract, `invoice[i]` an invoice row with the units it bills. `Billing` and `PaymentLedger` are two views
of the invoice table: they share the statuses DRAFT, issued and VOID, `PaymentLedger` knows the money and
`Billing` what is billed. An action of `MeterReadings` is what an operation does to the readings alone;
`Billing` adds who may call it and what else it changes.

* One meter stands for electricity and water, which every operation treats alike.
* "ISSUED" stands for ISSUED, PARTIALLY_PAID and PAID: nothing here tells them apart.
* A generation batch is one transaction over the active contracts, each handled by
  `generateInvoiceForContract` from its own rows; it is modelled as one step per contract.
* A contract is DRAFT before it exists too. `Activate` is the activation of a draft and the creation of an
  active contract, `Close` ending and cancelling. What contracts check of tenants, and what the tenant form
  may do to a contract's status, are in `Tenancy`.
* `invoice.utility_reading_id` is not a field of the model: every insert and update sets it to the
  reading of the invoice's room and month, and a replacement copies all three.
* `MaxMeter` bounds the column; prices, fixed charges, items and due dates are left out, and so are the
  refusals they cause (no rate, nothing to pay), which only remove steps.
* The advice has two limits that no property excludes. Of several void invoices of a month the list names the one voided last; times
  of voiding are not in the model, and which one is named does not matter to whether its replacement is accepted. And in the month a room
  changes its tenants, the list asks the next contract for a reading (`ENTER_READING`) although the month's reading is `INVOICED` for the
  one before, and its submission is refused.
* Each operation locks the contract or the invoice it starts from and the reading it writes. Two that do
  not meet on a lock meet on `uq_invoice_contract_month_active` or `uq_invoice_replaces_invoice`, where the
  second is refused, as its guard would.

### Tenancy, Occupancy and the code

`contract[c]` is a row of `contract`, `part[c][t]` the row of `contract_tenant` (without a `left_at`), and
`capacity[r]` is `max_occupants`. `Billing` sees the same contracts as a status and a room; participants
matter to nothing there.

* Creating, activating, moving a contract and changing its participants lock the contract, the room they
  move it to, and each participant's tenant row before they look for other contracts. Of two such
  operations that could disturb each other's checks the second waits and then reads what the first left,
  so each is one action. What they read without a lock is the capacity, in one statement.
* `handoverRental` locks its contract (`HandoverBegin`, which reads the capacity in the same statement), then the room
  (`HandoverCheck`), and writes at the end (`HandoverCommit`). It never locks a tenant. Between the steps it
  keeps its locks (`Locked`, `RoomLocked`) and everything that needs none of them may happen.
  `HandoverRefused` is a failed check or a lost connection.
* The form of a tenant locks the tenant's row (`TenantLocked`), reads the tenant's current contract without a lock
  (`FormBegin`), and then writes a new contract (`FormCreates`), ends the one it read and makes another in the
  new room (`FormMoves`), or writes the one it read by its id, whatever has become of it (`FormWrites`). It takes any
  status from the caller and looks for no other contract of the tenant. Roommates of a tenant who moves stay in the ended contract.
* `by` says what made an active contract active. The code has it only for handovers (`RENTAL_HANDOVER` in the
  audit log); for moves and reopenings it is a history variable that the properties name the causes with.
* `PUT /rooms/:id` counts the occupants and writes in two statements outside a transaction: `ResizeCheck`, `ResizeWrite`. A
  room has one such call under way at a time.
* `uq_room_active_contract` is a guard where a check does not already imply it.
* `expired` stands for an end or move-out date in the past of a contract that is
  open; nothing reads the dates of a closed one.
* Tenants are refused for more reasons (deleted, blacklisted, seen by another manager) and rooms too
  (status): these only remove steps and are left out. A participant added with a `left_at` is left out as well.
* `updateContractTenant` selects the columns of a contract document from `contract_tenant`
  (`contracts.service.ts:774`): PostgreSQL refuses the statement, so the call is no action.
* `Occupancy` gives each query over a set of rooms, the scope of a building or of a manager. Where a query takes the
  latest of several rows, all that could be it are given.

### Charges and the code

`row[l][c][d]` is the price the building, the room or the contract sets for charge `c` from day `d` (unique
for each of the three), `rate[d]` the meters' price from day `d`, `extra` the month's count of people and vehicles.

* An edit of prices is one transaction of one row, and all edits together are the action `ChangeTariff`.
* The invoice is one transaction whose statements see different moments (READ COMMITTED): `ReadRate`,
  `ReadRoomMonthExtra`, `CountTenants`, `ResolveFixedCharges`. `seen` collects what was in force while it ran.
* `Resolved` is what the query does (the newest row of each level that has started, the first level that has one, dropped if
  it is not active); `InForce` says the same without its order of steps, and `InvoicesWhatWasInForce` compares them.
* Days are numbers; one contract and one month are followed. Rounding and the wording of items are left out.

### Outbox and the code

`outbox[m]` is the row of `email_outbox` with deduplication key `m`. `copies[m]` counts the mails that left, which no
column does. A worker is a server process; `step`, `claimed` and `mail` are the local variables of its
`processEmailOutbox`, `claimed[w][m]` the `row.attempts` it got from the claim.

* `claimEmailOutbox` is one transaction (`ClaimBatch`). Then each message is sent and recorded by itself,
  without a transaction: `Deliver`, `Record`.
* The record's `WHERE id=$1 AND status='PROCESSING'` does not ask who claimed the row: `RecordSent` and
  `RecordError` apply to whatever claim the row is under.
* A sent mail whose record fails runs into the same `catch` as a failed one (`RecordFails`, then
  `RecordError`); if the record of the failure fails too, the exception ends the job.
* `lock` is a session advisory lock held on a connection of its own, which sits idle while the delivery uses
  others of the pool. It is lost when the database gives that session up, which the worker does not
  notice before it unlocks (`LoseLock`). A drop that the worker does notice ends the process (`Crash`).
* Time is two flags: `ready` (`next_attempt_at` is past) and `stale` (claimed over fifteen minutes ago, which a batch
  of slow mail servers reaches). The length of the delays is left out.
* Which due rows a full batch takes depends on how long each is due, which is not in the model: any may be
  taken. SMTP is enabled; without it nothing is claimed.
* The row a job run inserts per time bucket only delays the next delivery. It is in `JobRuns`.

### Sessions and the code

`account` is the row of one account in `app_user` (accounts share no row), `session[s]` and `token[t]` are rows of
`auth_session` and `auth_refresh_token`. `request[r]` is a call under way, with what it read and how far it is.
`proved` and `overwritten` are no columns: which password a login gave, and whether a login ever
wrote over a newer one.

* A transaction is taken apart. `Begin` starts the first statement, `Statement` the next: the rows it locks are
  those committed at its start, in the order of its plan, a set of rows in any order.
  `Lock` takes one row that nobody else holds. When a statement has all of `want`, the request
  decides from what is committed by then, as READ COMMITTED rereads a row it waited for.
  `Abort` is a refusal, a lost connection, a crash, or the victim of a deadlock; `CONCURRENT_MODIFICATION` is
  what its client then reads.
* Writes are made at the commit with the last statement. Nobody reads them before, and whoever would write the same
  rows waits for the locks.
* A login is no transaction: it reads the account (`BeginLogin`), writes the account (`StampLogin`), and opens the session
  in a transaction of its own (`OpenSession`) with the version it read. `legacy` is a password hash of an older
  scheme, which the login rewrites.
* `BeginLogout` is a logout by token and the revocation of one's own session. `BeginChange` is everything that raises
  `session_version`: `"PASSWORD"`, `"RESET"`, `"DISABLE"`, `"ENABLE"`, and `"REVOKE_ALL"`, which also stands for enabling and
  disabling two factors. Only `"ENABLE"` revokes nothing.
* The revocation of a revoked row keeps its time and reason (`COALESCE`); a revoked session is told from others
  only by being revoked, so its other fields are dropped.
* A revoked session is deleted `SESSION_RETENTION_DAYS` later, longer than a request takes: the cleanup
  takes it only when no request is under way. An expired one it may take at any moment.
* An insert's foreign keys also lock the parent row. That only delays, and is left out.

### Credentials, LoginThrottle, ResetLimits and the code

* `token[t]` is a row of `account_activation_token` or `password_reset_token`; `to` is the address its link was mailed to, which no column
  keeps. Whoever writes a link locks the account first, so most transactions are one action. The update of a tenant
  reads the account under the lock of the *tenant's* row (`UpdateBegin`) and writes it later (`UpdateCommit`); a change of password verifies
  before its transaction (`BeginChange`, `CommitChange`).
* `InvitationsAreCurrent` is about invitations. A link that resets a password is not revoked by a change of the address: the update of an
  active tenant writes the new address and leaves the link open at the old one until it is used or expires (`tenant-management.service.ts:685`-`:704`
  revokes the invitations of `PENDING` accounts only). Neither does disabling the account revoke it; then it is refused. The model has
  both, and no document says otherwise.
* `throttle[k]` is the row of an identifier or an address. A login reads both rows (`BeginLogin`), verifies, and writes them in a
  transaction of its own (`RecordLoginFailure`, `LoginSucceeds`): calls made at the same time have all read before any writes. `since` counts the failures
  after a lock ended. Time is two flags, of the window and of the lock.
* A reset request takes two advisory locks (`LockIp`, `LockIdentifier`), counts the rows of the window, inserts its own and commits. A
  refused request leaves a row too.

### Documents and the code

`doc[d]` is a row of one of the four document tables, `store[f]` how the image store delivers a file, `job[a][d]` the last row of
`cloudinary_asset_job` of an action for a row. A worker claims a job in a transaction, calls the store, writes the row and records the
outcome; `StepFails`, `AnswerLost` and `Crash` may come between any two of these.

* The trigger of the four tables is `DeletionsEnqueued`, conjoined to every deletion of rows; an active job of the same action and row is
  kept (`Enqueued`).
* Replacing a tenant's picture finds the tenant without a lock and locks the rows that are there (`BeginReplace`); the deletion takes what is there by
  then (`CommitAttach`). So an erasure may come between.
* `LegacyFiles` are the rows the migration found in public delivery: it left a job for each. Each of these files belongs to one row; two old
  rows of one file, which retried submissions could have left, are not explored.
* Nothing takes a job again that a crash left PROCESSING. `ClaimedByOne` says that nothing else leaves one there.
* A job that failed for good is enqueued again by reconciliation (`enqueueCloudinaryAssetJob`), so a file nobody can view may have a
  job that is `PENDING`: `UndeliverableIsMoving` asks for a fault there.
* Signing a download, file names and image validation are left out; the image store itself is known by its three calls.

### TwoFactor, JobRuns, Imports, Migrations and the code

* `manager` is the row of `app_user`; setting up, enabling and disabling lock it and are one action each. A call is let in by its
  session (`RequireAuth`) before it waits for that lock. A login reads (`ReadManager`) and opens its session later with the version it
  read (`CreateAuthSession`). `proved`, the secret its code was of, is no column.
* `runs[j, b]` is the row of `background_job_run` of a job and a bucket of time, `lock` the advisory lock. The insert with `ON CONFLICT DO
  NOTHING` is `InsertRun` or `SkipJob`; both records are `WHERE status='RUNNING'`. `old` says that a row was started more than two hours
  ago. What can go wrong is remembered in `faults`, with which the property names its exceptions. `Outbox` has the work of one job in detail.
* A row of an imported file is its code as it is spelled: the validation folds the case, the unique keys of buildings and rooms do
  not. Buildings and rooms are inserted in one transaction, tenants in one each. A transaction that inserts a key
  another has inserted and not committed waits (`Held`).
* A run of `migrate.js` reads the ledger of applied files once. Each file and its ledger row are one transaction, which the key of
  the ledger keeps from another run's. A file may differ from one deployment to the next (`Sums`).

### The front end and the code

Each module of a page has its React state as variables, the requests under way as a set `calls` with what the handler captured when it
sent them, and one action for each handler and for each answer, in any order, failures included.

* A state update and the clean-up of the effects it causes are one step, as React runs both before it handles the next answer.
* Controls that are disabled or covered by an open drawer are guards: what a user cannot click is no action.
* Most answers are not guarded: they fill whatever is open by then. Whoever asks for one thing while the answer about another is awaited
  is misled by it. `openDetail` of contract A is slow, the drawer is closed and opened for B, and A's late answer fills it
  (`ContractsPage.tsx:228`; `InvoicesPage.tsx` and `PaymentsPage.tsx` alike). This is a fault of the code, of nearly every page, and no property
  here excludes it. Modules call it a *crossing* and say in their comments what their crossings are; `crossed` remembers one.
  A behaviour is followed up to its first crossing. What `ScreensAreOwnUntilCrossed` shows is that it takes one: as long as the user waits for
  an answer before he asks for something else in the same place, the page is right, whatever the order of the answers that are under way
  together (actions, reloads, prefills, lists beside drawers), their failure, or their loss. `InvoiceForm` alone has guards in the code
  (`utilityPrefillRequest`, the effects' `cancelled`); it has no crossing and is right whatever is asked meanwhile.
* Some variables and fields (`on`, `asked`, `created`, `chosen`, `lost`, `dropped`, `widened`, `overtaken`) remember
  what the user had before him or what has happened. They are no state of the code.
* Rows, filters and values are abstracted to which item or filter they are of; what a user types is left out.
* `BrowserTab` has the access token in memory, the cookie, the calls under way and the one refresh they share (`refreshPromise`), against a server that
  rotates a refresh token and ends the session when one is used twice. There `crossed` says that a refresh from before a
  login was answered after it.
* `InvoiceForm` abstracts the values of the form to where they come from: the defaults, a reading, a room, or the draft that is edited. The
  answer to a save closes the drawer, whatever it shows by then.
* `InvoiceDetail`: an action is three requests one after the other: what it does, the invoice and its payment request read again, the list. Some
  handlers go by the id their dialog was opened with, some by what the drawer has when they run, and the drawer is read again by what it had
  then. The states of an issued invoice are one, and so are those of a request in force; an answer that is lost leaves the server changed.
* `FixedChargesPage`: a table is the number of changes its rows have seen. The answer to a save closes whichever drawer is open by then, and then
  loads the tables. The selectors offer what lies in what is chosen above them, and choosing clears what lies below.
* `PaymentsPage`: a tick is of a request; the proofs that are sent are the ones the list has for the ticked requests by then. `overtaken` names
  the requests whose proof somebody else has reviewed since.
* `RegistrationDocuments`: a save goes on with the files it was given while the dialog is cancelled and opened for another contract.
* `BuildingsPage`: a list that is answered is any set of buildings, since another tab may change them, and stands for a list that could not be had
  when it is empty. Every write reloads the list, and the reload selects: so what is open over the panel may come to be about another
  building. A room is known by its building. The panel's skeleton of 250 ms, the search (a filter is two values) and the layout of
  a telephone are left out.
* `TenantsPage`: a tenant is saved in two calls, the profile and the pictures. When the second fails the drawer goes on as that of
  the tenant the first has created.

## Runs

| run | instance | shows |
|---|---|---|
| `ledger` | 2 invoices, 2 requests, 3 proofs, 3 keys, totals up to 2; 51 549 states | money, statuses, requests and proofs agree, the screens agree; history is final; refinement of `InvoiceAccount` |
| `billing` | 2 rooms, 2 months, 2 contracts, 3 invoices, meter up to 1, with a constraint (below); about 460 000 states | nothing is billed twice, an issued bill stays, drafts follow their readings, the advice to replace a void invoice is accepted |
| `tenancy` | 2 rooms, 2 tenants, 2 contracts, capacity up to 2, two calls under way; 556 654 states | one active contract per room, participants and a primary; what it takes to live in two places or to crowd a room; closed contracts are final; counts agree |
| `outbox` | 2 messages, 2 workers, 2 attempts, batches of 2, one fault and one lost lock; 112 927 states | attempts bound the mails, statuses tell the truth, repeats have causes; every message is settled |
| `sessions` | 2 sessions, 3 tokens, 2 requests, 2 passwords, 2 changes; 855 864 states | a session and its tokens agree; a session in use was opened with the password in force, and is of use from the start; what it takes to deadlock |
| `documents` | a tenant's document, an evidence, one that is kept, one upload, one migrated file; 1 request, 2 workers, 2 attempts, 1 fault; 1 992 121 states | a job has one worker; a row without its file and a file without its row have causes; what nobody can download is on its way |
| `office` | twenty-two components of two or three of each thing (below); 1 621 458 states | invitations, limits, prices, sessions and the second factor; migrations, job runs and imports are done once; up to a first crossing, what pages show is what they send |
| `reversal_reopens`, `invoiced_forever`, `meters_decrease`, `one_home`, `deleted_file_survives` | the smallest instances that show them | findings, below |

Deadlock is checked nowhere by TLC: ids run out in every instance, and the system itself may stop at any
moment. Requests that wait for each other are a property, `DeadlockTakesRefresh`, which names who they are.

**PaymentLedger.** Two requests and three proofs are what the interesting sequences take: a partial payment under
one request, its cancellation, the rest under a second, a rejected or reversed proof in between. A total
of 2 is paid in two parts. Ids are interchangeable and used for symmetry; keys are as many as proofs.
The bound in `AdjustDraft` and `CreateDraft` is `MaxTotal`, a name for the column's range.

**Billing.** Every property relates at most two rows of each table and one step; three invoices
allow an issued one, its replacement and a third written by hand, two months an edit that moves a draft
between them, two rooms and two contracts a turnover within a month and a contract that moves. All of these at once is
too much: the constraint `Followed` keeps the runs to one room through both months, where the third invoice is for a month of the
other two, or to both rooms in the first month, with two invoices. A meter up to 1 tells a usage of nothing, of the difference, and of the
whole value after a reset.

**Tenancy.** Every property relates two contracts, one or two rooms and one tenant; with two tenants a primary is
replaced and a room of capacity 1 is full. A third contract adds only another of the same kind:
the checks look for *some* other contract. `MaxInFlight` bounds the handovers, forms and resizes between two of their steps: each race is of two.

**Outbox.** Two workers are what a lost lock takes; two attempts are a first and a last; two messages make
a batch whose second is still unsent when something happens to the first. A crash, a failed record and a lost answer share one
bound, `MaxFaults`, a lost lock has its own, `MaxLosses`: the run has every pair of a fault and a loss.

**Sessions.** Each property relates one session, the account and two calls; the second session is the other browser,
which a change must reach too. Three tokens let one session refresh and the other be opened. `MaxVersion` is
the number of changes: two, so that an account is disabled and enabled again.

**Documents.** One row of each kind (erased with its tenant, expiring, kept), one staged upload and one file that is to be
moved meet each other's jobs at two workers. A job fails for good after as many faults as attempts, more than the bound:
what a failed deletion leaves behind is named by `FilesHaveCause` all the same.

**Office.** The twenty-two components share no state, so their instances add up and do not multiply: `part` says which runs, and the
properties are those of the modules. Each instance is what a race of two takes, and a third where something is replaced:

* `Credentials`: 3 links, 2 addresses, 2 passwords, 1 change under way. `LoginThrottle`: 2 identifiers at limits of 1 and 2, 2 logins. `ResetLimits`: 3
  requests from 2 addresses at limits of 1 and 2. `Charges`: one charge, three days and a month that begins between them, 2 edits.
* `BrowserTab`: 2 calls, 2 sessions, 2 rotations, 1 fault. `TwoFactor`: 3 logins, 2 secrets, 3 changes, which is enabling, disabling and enabling with another secret.
* `Migrations`: 2 runs of 2 files with 2 checksums. `JobRuns`: 2 workers, jobs of intervals 1 and 2, a clock of two moments, 1 kind of fault. `Imports`: 2
  calls, 2 files that have a code in common but for its case.
* The pages: two of each item (one price, two filters, two payment requests with up to two proofs each), and 2 or 3
  requests under way. A user has one page before him, so the pages use the same variables.


`SessionsProvePassword` has one exception, and the model reaches it: a login with an old hash reads the
account, the password is reset, and the login's rewrite of the hash brings the old password back (`auth.service.ts:97`, `:111`:
the `UPDATE` asks for the id only). `DeadlockTakesRefresh` has two, a refresh and a cleanup, and needs both:
the refresh locks token, session, account where a change locks account, sessions, tokens.

Fairness is assumed only in `Outbox`: some worker starts a cycle while the lock is free (every server polls by
`setInterval`), a cycle that is under way goes on (no call waits forever: the mail transport has timeouts),
and the clock advances. Nothing has to be enqueued and no fault has to happen; `SettlesUnderLock` holds
for every finite number of faults the run has, a lost lock excepted: a worker sends slowly, loses its lock, and its claim
goes stale; another claims the message for its last attempt; the first then records the failure of an earlier attempt
over the second's claim, and the row is `PENDING` with no attempts left. No claim takes it again. In the other modules nothing has to happen: a manager
may never review a proof, and no liveness is claimed.

## Findings

* `reversal_reopens`, a balance nobody can collect. `docs/business-rules.md:47` promises that a reversal "reopens its verified payment request when the
  invoice is still payable". `reversePayment` reopens only the request the reversed payment came in under.
  Total 3: request 1 is paid 1, then cancelled; request 2 is paid 2 and is verified; the payment of 1 is
  reversed. The invoice is `PARTIALLY_PAID`; request 1 is cancelled, request 2 verified.
  `createPaymentRequest` answers with the verified request 2, no proof can be submitted to it, and it
  cannot be cancelled.
* `invoiced_forever`: `docs/business-rules.md:35` says a reading referenced by an issued or void invoice
  remains `INVOICED`. A handover of the room in the same month overwrites it and sets it `APPROVED`
  (`upsertHandoverReading`). `InvoicedStays`, a part of `IssuedStays`, is the rule with that exception, which holds.
* `meters_decrease`: `docs/architecture.md:118` says meter values cannot decrease without a reset. They are
  compared at submission with the latest *approved* month only: two months submitted before either is
  approved are compared with the same older one.
* `one_home`, a tenant in two places: a tenant with another active contract is refused (`contracts.service.ts:208`,
  `rental-registration.service.ts:166`), and every path of these modules to an active contract locks the tenant for it but the
  handover. A draft's handover passes its check, another contract of the tenant becomes active in another room, and the handover commits.
  `TwoHomesHaveCause` is what holds: without a handover, a move or a reopening by the tenant form it does not happen.
  Likewise `CrowdingHasCause` says what the capacity of a room is protected from and from what it is not, also where the capacity is what changes:
  a room is made smaller than its occupants only when one of them came between the count and the write.
* `deleted_file_survives`: `docs/data-retention-privacy.md:9` has the file of a deleted document deleted with it. The job of the deletion names
  the file's delivery as the row has it. When a worker has moved the file and not yet written the row, the deletion looks for a file that is no
  longer there, is answered "not found", which counts as done, and the moved copy stays. `FilesHaveCause` is what holds.

## Proofs

Each theorem holds for every value of the constants its module's assumptions allow. Every invariant that a passing run checks is a
theorem, and so is every action property and the refinement of `InvoiceAccount`.

`PaymentLedger_proofs` proves the invariants of the `ledger` run, both its action properties and the refinement
of `InvoiceAccount`. Finiteness is needed only of the ledger, and is an invariant of it.
The properties are not inductive alone. `NetPaidWithinTotal` after a reversal needs that the payment
taken back was counted once (each row's fields are those of its proof, a reversal has its payment:
`LedgerRows`); that a pending proof can be approved needs that one invoice has at most one, hence
one active request and that pending proofs hang on submitted requests (`PendingLinked`); that a void is final
needs that requests of a void invoice are closed or verified (`VoidRequestsClosed`). `IInv` is
the conjunction of these with `TypeOK` and `References`. `StepInv` has one lemma per action. `ScreensAgree` has
`BooksAgree` from the same invariant.

Sums over rows (`MapThenSumSet`) are recursive functions over sets. The prover cannot instantiate an
induction theorem over an operator, so the first section argues by a minimal counterexample: the strict
subset ordering is well founded, and a least set for which a fact about the sum fails is refuted
(`MinimalSubset`). Its lemmas are about the sum of any function over a finite set.

`Billing_proofs` proves `TypeOK` and `NothingBilledTwice`, which are inductive together (a draft may be deleted because what
others replace is void; a replacement is new because nothing replaced its original), and from that
invariant the action properties `IssuedStays` and `BillFollowsReading`. These go
through every writer of a reading: either it writes another row, or the guards keep it from a reading
in the wrong status, or it is one of the named exceptions. `ReplaceAdviceIsAccepted` needs the order in which the void invoices of a
month came about: were each of them replaced by another, the advice to replace one would be refused.
`ReplacementsEnd` says that among any invoices there is one that none of the others replaces. It is inductive because
a replacement's row is new, so nothing replaces it yet.

`Tenancy_proofs` proves the properties of the `tenancy` run, for any finite set of tenants. The
invariant adds facts to those of states: a draft has at most one primary too (`OneLeader`: a handover
asks for none); what a handover has checked of its participants stays true until it commits
(`HandoverChecked`: the contract is locked, and nothing touches the participants of a locked contract); and what a form has read is
of a contract that exists, or makes one that does not (`ReadContractsExist`, `NewFormsKnow`). Every step on a
contract writes one row and its participants, so one lemma (`WrittenInv`) says what a written contract
must be, and each action shows that it is. `OccupancyAgrees` follows for any finite set of contracts: an occupied room has one active contract, so
counting rooms and counting contracts is the same. The people in them are summed over rooms by one query and over contracts by another: either sum
counts pairs, of a room or of a contract and one who lives there (`TenantsOfRooms`, `TenantsOfContracts`), and the pairs correspond.

`Outbox_proofs` proves the safety of the outbox. `AttemptsCounted` is a counting argument: the mails of a message that left are at most the
claims of it, less the claims whose mail is still to be sent; a claim is one worker's.

`Sessions_proofs` proves all of the `sessions` run. What a request has read stays true because of what it holds, so the invariant gives for each
step of each operation the rows it holds and those it still wants, in order (`RefreshReads`, `RevokesOne`, `ChangeHolds`, ...), with locks exclusive.
The argument for `SessionsProvePassword` is the version: a login that read the present version read the present password
(`LoginSound`), and a session of an older version is not usable. `TokensFollowSession` rests on `ChangeHolds`: a session that a change of the account
did not find is newer than it and has one token. `DeadlockTakesRefresh` takes more than the order of the locks, for a logout locks
session, tokens and a change account, sessions, tokens: such a circle could only be a logout and a change that each hold a token the other wants. But the change
does not hold the logout's session, so that session is newer than the change and has one token, which only one of them can have to wait for.

`Documents_proofs` proves all of the `documents` run. Rows, jobs and what reconciliation has read of a row all speak of one file and of its delivery
(`Says`, `OneFile`), one worker is on a job (`OneRun`), and `RunSound` says what a worker at each step has done to the file. The proof showed that
`UndeliverableIsMoving` must allow for a job that reconciliation has enqueued again after the first failed for good: with as few faults as TLC's instance has
that does not happen, but with more it does.

`Office_proofs` proves the nine components of `MCOffice` that are not pages, each from its module's assumption:

* `LoginThrottle`: a counter passes its limit by at most the logins that were under way when it reached it, since every one of them read an open
  row. `ResetLimits`: the advisory locks are exclusive, so what a request has counted is still the count when it inserts. `Credentials`: an
  update of a tenant holds the row whose address it writes, so what it read of the account still stands at its commit,
  and open invitations go to the address in force.
* `TwoFactor`: like the passwords of `Sessions`, by the version. `Charges`: what is in force now is among what was in force since the invoice
  began (`SeenIsNow`), and the order in which the query looks for a price finds the one that prevails (`Resolved` is `InForce`).
* `Migrations`: a version has taken effect once exactly when its row is in the ledger, and the ledger's key keeps a second run out. `Imports`: what an import has
  inserted and not committed is its own; without a cause no two codes are alike. `JobRuns`: `SUCCEEDED` is written by the worker that did the
  job, and each way to a row that lies is one of the named faults.
* `BrowserTab`: as long as nothing crosses, the token that is sent is the newest of the one live session (`TabSound`).

Then `EachIsItself` says that a behaviour of `MCOffice` is a behaviour of each of them, as no step of one touches the variables of
another, and the properties of the `office` run follow.

`Pages_proofs` has the thirteen pages. They share their variables, so their invariants are proved where they share them: `PagesInv` says that the page the user has before
him is in its invariant, each page has one lemma for `Init` and one for its steps, and `PagesStep` puts them together. The property of a page
(`ScreensAreOwnUntilCrossed`) speaks of what is on the screen; its invariant must also speak of what is under way:

* An answer that is awaited is about what is chosen now, up to the first crossing (`AwaitsItsChoice`, `LoadsWhatWasTold`, `UtilityCalls`,
  `RegistrationAwaits`, ...). So at most one call of a kind that fills the same place is under way, and it does not matter in which order answers come.
* `BuildingsPage`: as long as nothing crosses, what is open waits for no list but the one that follows its own write (`BuildingWritten`,
  `BuildingDialog`), so no reload selects another building under it; and rooms that are awaited are of the building
  shown, by the filter chosen (`BuildingRooms`).
* Dialogs over one another are about the same item (`DialogOfItsInvoice`, `DrawersOfOneContract`).
* `InvoiceDetail`: an invoice that is void stays void, so the drawer that replaces it by its replacement, when that is answered, shows one of the same
  pair (`DrawerOfTheReplaced`), also after the server has done what its answer has not told yet.
* `RegistrationDocuments`: the files a save has still to send are in no document, each file is in one place (chosen, being saved, saved or lost), and
  what has been saved is no longer chosen (`SavesTheRest`, `NoFileForgotten`); then counting documents of a file gives one at most.

Only model-checked: liveness (`SettlesUnderLock`), which is out of the prover's reach; and the findings, which are TLC's.

## Plan

Done: the ledger and its refinement, readings and billing, tenancy, outbox, sessions and the second factor, credentials and limits, documents, charges,
job runs, imports, migrations, the browser's session and thirteen pages, with all their invariants proved. Left, in this order:

1. `PaymentTx`: the transactions of `PaymentLedger` taken apart into statements and row locks, refining
   `PaymentLedger`; deadlock victims abort. The order of locks is what it is for: a void locks the invoice and then writes its proofs
   and requests, which other calls lock first.
2. The page of a single room, whose lists and drawers are loaded like those of the pages that are there.

## Not modelled

* Wording, formatting, translations, layout, currency rounding, PDF and QR content, the components of the front end that keep no state.
* HTTP, validation of requests, the middleware that finds the user of a token and the buildings of a manager.
* The audit log (append-only and read by no decision), notifications, and settings (single rows that are overwritten).
* Issuing invoices in bulk and the preview of what a contract is charged, on pages that are modelled otherwise. The page of a single room and those of reports, the dashboard, settings and accounts.
* Pages after a crossing (see the front end, above): that answers which nobody waits for any more mislead is known, and how far is not explored.
* Links to reset a password after a change of the address, and the advice of the work list other than to replace: modelled, with no property.
* The contents of migrations (the schema they add up to is in the guards), seeds, backups and other scripts.
* Operational issues reported by `data-integrity`: read-only queries for what the properties here say does not happen.

----------------------------- MODULE MCOffice ------------------------------
(***************************************************************************)
(* Modules that share no state with one another, each on its own instance: *)
(* part says which of them runs, and the variables of the others keep one  *)
(* value.  A user has one page before him, and the pages share variables.  *)
(***************************************************************************)
EXTENDS Integers, FiniteSets, TLC

CONSTANTS
    Links, Emails, Passwords, Changes, Identifiers, Ips, Gateways, Logins, Resets, Fees, Calls,
    SignIns, Secrets, Sums, Workers,
    Drafts, Invoices, Contracts, Buildings, Files, Readings, Rates, Months, Bills,
    Tenants, New, Requests, None,
    MaxPerIdentifier, MaxPerIp, MaxFailures, MaxResets, MaxResetsPerIp,
    Dates, BilledMonth, Prices, MaxCount, MaxEdits,
    MaxSessions, MaxRotations, MaxFaults, MaxVersion, MaxMigration, Intervals, MaxTime, MaxLosses,
    CsvFiles, Spellings, Folded,
    MaxCalls, MaxRequests,          \* bounds on what a page has under way
    MaxCopies, MaxProofs, MaxChanges,
    Filters, ProofFilters, Sheets, Rooms, RoomOf, BuildingOf

VARIABLES part,
    account, token, update, change,                             \* Credentials
    throttle, login, since,                                     \* LoginThrottle
    reset,                                                      \* ResetLimits
    catalog, row, extra, people, rate, invoice, seen, edits,    \* Charges
    session, expired, cookie, access, page, call, refresh, promise, logout, faults, crossed,
    manager, signed, checking,                                  \* TwoFactor
    schema_migrations, effect, run,                             \* Migrations
    clock, lock, worker, runs, done, failures,                  \* JobRuns
    stored, import, causes,                                     \* Imports
    data, detail, form, box, requests, asked, cause, crossing   \* the pages

C == INSTANCE Credentials WITH Tokens <- Links
L == INSTANCE LoginThrottle WITH Ips <- Gateways
R == INSTANCE ResetLimits
P == INSTANCE Charges WITH Charges <- Fees, Month <- BilledMonth
B == INSTANCE BrowserTab
T == INSTANCE TwoFactor WITH Logins <- SignIns, session <- signed, calls <- checking
M == INSTANCE Migrations WITH Runs <- Calls, MaxVersion <- MaxMigration
J == INSTANCE JobRuns WITH MaxFaults <- MaxLosses, faults <- failures
I == INSTANCE Imports WITH Files <- CsvFiles

\* The pages, and what each leaves of the variables they share.
FormPage == INSTANCE InvoiceForm WITH drawer <- box, prefill <- data, edits <- asked,
                                      autofill <- cause, save <- requests
FormRest == <<detail, crossing>>
InvoicePage == INSTANCE InvoiceDetail WITH phases <- data, replaces <- asked, pay <- form,
                                           calls <- requests, crossed <- crossing
InvoiceRest == <<cause>>
FeePage == INSTANCE FixedChargesPage WITH
                        saved <- data, table <- detail, filter <- asked, drawer <- box, picked <- form,
                        confirm <- cause, calls <- requests, crossed <- crossing
ContractPage == INSTANCE ContractsPage WITH MaxCalls <- MaxRequests, modal <- box, upload <- data,
                                            calls <- requests, crossed <- crossing
ContractRest == <<asked, cause>>
UtilityPage == INSTANCE UtilitiesPage WITH list <- data, target <- box,
                                           calls <- requests, crossed <- crossing
UtilityRest == <<asked, cause>>
TenantPage == INSTANCE TenantsPage WITH initial <- data, created <- asked, target <- box,
                                        calls <- requests, crossed <- crossing
TenantRest == <<cause>>
RoomPage == INSTANCE TenantRoomPage WITH page <- data, reading <- form, bill <- detail,
                                         calls <- requests, crossed <- crossing
RoomRest == <<box, asked, cause>>
FilePage == INSTANCE RegistrationDocuments WITH documents <- data, chosen <- form,
                        saving <- detail, lost <- requests, dropped <- cause, crossed <- crossing
RentalPage == INSTANCE RegistrationPage WITH MaxCalls <- MaxRequests, rooms <- data, reserve <- form, dialog <- box,
                        calls <- requests, widened <- cause, crossed <- crossing
RentalRest == <<detail, asked>>
ImportPage == INSTANCE ImportsPage WITH Entities <- Sheets, page <- form,
                        sent <- requests, crossed <- crossing
ImportRest == <<data, detail, box, cause>>
PaymentPage == INSTANCE PaymentsPage WITH Filters <- ProofFilters, latest <- data, list <- form, ticks <- detail,
                        bulk <- box, calls <- requests, overtaken <- cause, crossed <- crossing
PaymentRest == <<asked>>
ProofPage == INSTANCE PaymentsDrawer WITH MaxCalls <- MaxRequests, pending <- data, target <- box, loading <- form,
                        calls <- requests, crossed <- crossing
ProofRest == <<asked, cause>>
BuildingPage == INSTANCE BuildingsPage WITH MaxCalls <- MaxRequests, list <- data, drawer <- box, rooms <- form,
                        dialog <- detail, calls <- requests, crossed <- crossing
BuildingRest == <<asked, cause>>

ASSUME OfficeAssumption ==
    /\ C!CredentialsAssumption /\ L!LoginThrottleAssumption /\ R!ResetLimitsAssumption
    /\ P!ChargesAssumption /\ B!BrowserTabAssumption /\ T!TwoFactorAssumption
    /\ M!MigrationsAssumption /\ J!JobRunsAssumption /\ I!ImportsAssumption
    /\ FormPage!InvoiceFormAssumption /\ InvoicePage!InvoiceDetailAssumption /\ FeePage!FixedChargesPageAssumption
    /\ ContractPage!ContractsPageAssumption /\ UtilityPage!UtilitiesPageAssumption
    /\ TenantPage!TenantsPageAssumption /\ RoomPage!TenantRoomPageAssumption
    /\ FilePage!RegistrationDocumentsAssumption /\ RentalPage!RegistrationPageAssumption /\ ImportPage!ImportsPageAssumption
    /\ PaymentPage!PaymentsPageAssumption /\ ProofPage!PaymentsDrawerAssumption
    /\ BuildingPage!BuildingsPageAssumption

accounts == <<account, token, update, change>>
throttling == <<throttle, login, since>>
charging == <<catalog, row, extra, people, rate, invoice, seen, edits>>
tab == <<session, expired, cookie, access, page, call, refresh, promise, logout, faults, crossed>>
proving == <<manager, signed, checking>>
migrating == <<schema_migrations, effect, run>>
scheduling == <<clock, lock, worker, runs, done, failures>>
importing == <<stored, import, causes>>
pages == <<data, detail, form, box, requests, asked, cause, crossing>>
vars == <<part, accounts, throttling, reset, charging, tab, proving, migrating, scheduling, importing, pages>>

Pages == {"FORM", "INVOICES", "FEES", "CONTRACTS", "UTILITIES", "TENANTS", "ROOM",
          "FILES", "RENTAL", "IMPORT", "PAYMENTS", "PROOFS", "BUILDINGS"}
Parts == Pages \cup {"CREDENTIALS", "THROTTLE", "RESETS", "CHARGES", "TAB",
                    "TWO_FACTOR", "MIGRATIONS", "JOBS", "IMPORTS"}

Init ==
    /\ part \in Parts
    /\ C!Init /\ L!Init /\ R!Init /\ P!Init /\ B!Init /\ T!Init /\ M!Init /\ J!Init /\ I!Init
    /\ part # "CHARGES" => \A c \in Fees : catalog[c] = None
    /\ \/ part = "FORM" /\ FormPage!Init /\ detail = None /\ crossing = None
       \/ part = "INVOICES" /\ InvoicePage!Init /\ cause = None
       \/ part = "FEES" /\ FeePage!Init
       \/ part = "CONTRACTS" /\ ContractPage!Init /\ asked = None /\ cause = None
       \/ part = "UTILITIES" /\ UtilityPage!Init /\ asked = None /\ cause = None
       \/ part = "TENANTS" /\ TenantPage!Init /\ cause = None
       \/ part = "ROOM" /\ RoomPage!Init /\ box = None /\ asked = None /\ cause = None
       \/ part = "FILES" /\ FilePage!Init
       \/ part = "RENTAL" /\ RentalPage!Init /\ detail = None /\ asked = None
       \/ part = "IMPORT" /\ ImportPage!Init /\ data = None /\ detail = None /\ box = None /\ cause = None
       \/ part = "PAYMENTS" /\ PaymentPage!Init /\ asked = None
       \/ part = "PROOFS" /\ ProofPage!Init /\ asked = None /\ cause = None
       \/ part = "BUILDINGS" /\ BuildingPage!Init /\ asked = None /\ cause = None
       \/ part \notin Pages /\ data = None /\ detail = None /\ form = None /\ box = None /\ requests = None /\ asked = None /\ cause = None /\ crossing = None

Only(p) ==
    /\ part = p /\ UNCHANGED part
    /\ p # "CREDENTIALS" => UNCHANGED accounts
    /\ p # "THROTTLE" => UNCHANGED throttling
    /\ p # "RESETS" => UNCHANGED reset
    /\ p # "CHARGES" => UNCHANGED charging
    /\ p # "TAB" => UNCHANGED tab
    /\ p # "TWO_FACTOR" => UNCHANGED proving
    /\ p # "MIGRATIONS" => UNCHANGED migrating
    /\ p # "JOBS" => UNCHANGED scheduling
    /\ p # "IMPORTS" => UNCHANGED importing
    /\ p \notin Pages => UNCHANGED pages

Next ==
    \/ Only("CREDENTIALS") /\ C!Next
    \/ Only("THROTTLE") /\ L!Next
    \/ Only("RESETS") /\ R!Next
    \/ Only("CHARGES") /\ P!Next
    \/ Only("TAB") /\ B!Next
    \/ Only("TWO_FACTOR") /\ T!Next
    \/ Only("MIGRATIONS") /\ M!Next
    \/ Only("JOBS") /\ J!Next
    \/ Only("IMPORTS") /\ I!Next
    \/ Only("FORM") /\ FormPage!Next /\ UNCHANGED FormRest
    \/ Only("INVOICES") /\ InvoicePage!Next /\ UNCHANGED InvoiceRest
    \/ Only("FEES") /\ FeePage!Next
    \/ Only("CONTRACTS") /\ ContractPage!Next /\ UNCHANGED ContractRest
    \/ Only("UTILITIES") /\ UtilityPage!Next /\ UNCHANGED UtilityRest
    \/ Only("TENANTS") /\ TenantPage!Next /\ UNCHANGED TenantRest
    \/ Only("ROOM") /\ RoomPage!Next /\ UNCHANGED RoomRest
    \/ Only("FILES") /\ FilePage!Next
    \/ Only("RENTAL") /\ RentalPage!Next /\ UNCHANGED RentalRest
    \/ Only("IMPORT") /\ ImportPage!Next /\ UNCHANGED ImportRest
    \/ Only("PAYMENTS") /\ PaymentPage!Next /\ UNCHANGED PaymentRest
    \/ Only("PROOFS") /\ ProofPage!Next /\ UNCHANGED ProofRest
    \/ Only("BUILDINGS") /\ BuildingPage!Next /\ UNCHANGED BuildingRest

Spec == Init /\ [][Next]_vars

Symmetry == Permutations(Calls)

\* Two codes that differ in their case only, and the files that have them.
TwoFiles == {<<"a", "b">>, <<"b", "A">>}
LowerCase == [s \in Spellings |-> IF s = "A" THEN "a" ELSE s]

\* The proofs of all requests or of one; two rooms of one building, a contract each.
AllOrOne == {Requests, {CHOOSE r \in Requests : TRUE}}
OneBuilding == [r \in Rooms |-> CHOOSE b \in Buildings : TRUE]
ARoomEach == [k \in Contracts |-> IF k = CHOOSE j \in Contracts : TRUE THEN 1 ELSE 2]
-----------------------------------------------------------------------------
(* The properties of the modules, each of its own instance. *)

\* The columns and the local state of them all.
TypeOK ==
    /\ part = "CREDENTIALS" => C!TypeOK
    /\ part = "THROTTLE" => L!TypeOK
    /\ part = "RESETS" => R!TypeOK
    /\ part = "CHARGES" => P!TypeOK
    /\ part = "TAB" => B!TypeOK
    /\ part = "TWO_FACTOR" => T!TypeOK
    /\ part = "MIGRATIONS" => M!TypeOK
    /\ part = "JOBS" => J!TypeOK
    /\ part = "IMPORTS" => I!TypeOK
    /\ part = "FORM" => FormPage!TypeOK
    /\ part = "INVOICES" => InvoicePage!TypeOK
    /\ part = "FEES" => FeePage!TypeOK
    /\ part = "CONTRACTS" => ContractPage!TypeOK
    /\ part = "UTILITIES" => UtilityPage!TypeOK
    /\ part = "TENANTS" => TenantPage!TypeOK
    /\ part = "ROOM" => RoomPage!TypeOK
    /\ part = "FILES" => FilePage!TypeOK
    /\ part = "RENTAL" => RentalPage!TypeOK
    /\ part = "IMPORT" => ImportPage!TypeOK
    /\ part = "PAYMENTS" => PaymentPage!TypeOK
    /\ part = "PROOFS" => ProofPage!TypeOK
    /\ part = "BUILDINGS" => BuildingPage!TypeOK

\* One link of a kind is open at most, and an open invitation went to the address
\* of an account that still waits for it.  Reset links may outlive their address.
InvitationsAreCurrent == part = "CREDENTIALS" => C!InvitationsAreCurrent

\* Logins made at the same time pass the limit by their number at most.
FailuresBounded == part = "THROTTLE" => L!FailuresBounded

\* Resets asked for at the same time do not pass the limit.
ResetsWithinLimit == part = "RESETS" => R!ResetsWithinLimit

\* An invoice is priced by tariffs of its time, edits meanwhile included.
InvoicesWhatWasInForce == part = "CHARGES" => P!InvoicesWhatWasInForce

\* A tab is logged in as long as its session and no longer, and no session
\* gets by without the second factor that is in force.
SessionsAreSound ==
    /\ part = "TAB" => B!SessionLastsUntilLogout
    /\ part = "TWO_FACTOR" => T!SessionsProveSecret

\* A migration, a job of a bucket and a row of a file are each done once,
\* whoever else is at it, and said to be done when they are.
OnceOnly ==
    /\ part = "MIGRATIONS" => M!AppliedOnce
    /\ part = "JOBS" => J!RunsAreTrue
    /\ part = "IMPORTS" => I!ImportedOnce

(***************************************************************************)
(* Up to the first crossing, what a page shows, offers and sends is of     *)
(* what the user chose on it last, in whatever order answers come, whether *)
(* they fail or are lost.  A crossing is the user asking a page for one    *)
(* thing while the answer about another is awaited that fills the same     *)
(* place; each page's module says what its crossings are.  The code does   *)
(* not keep users from crossing, and the pages are misled by it: only the  *)
(* invoice form asks of an answer whether it is still wanted.              *)
(***************************************************************************)
ScreensAreOwnUntilCrossed ==
    /\ part = "FORM" => FormPage!FormIsOwn
    /\ part = "INVOICES" => InvoicePage!ActsOnItsInvoice
    /\ part = "FEES" => FeePage!ShowsWhatWasSaved
    /\ part = "CONTRACTS" => ContractPage!ActsOnWhatItShows
    /\ part = "UTILITIES" => UtilityPage!ShowsWhatWasAsked
    /\ part = "TENANTS" => TenantPage!WritesOneTenant
    /\ part = "ROOM" => RoomPage!SendsWhatItShows
    /\ part = "FILES" => FilePage!FiledOnce
    /\ part = "RENTAL" => RentalPage!OffersWhatWasChosen
    /\ part = "IMPORT" => ImportPage!OffersWhatItShows
    /\ part = "PAYMENTS" => PaymentPage!SendsWhatWasTicked
    /\ part = "PROOFS" => ProofPage!ReviewsWhatItShows
    /\ part = "BUILDINGS" => BuildingPage!ActsOnItsBuilding
=============================================================================

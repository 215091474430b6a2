# A TLA+ development of fireons

fireons is a personal net-worth tracker.  A user uploads account statements (PDF);
a Python backend reads them, decides which statement is right about which holding,
and keeps one account per holding with dated balances in PostgreSQL; a Next.js
front end shows the sums.  A separate static website holds calculators.

These modules model the parts in which order, concurrency, failure or arithmetic
decide whether what the user reads is right: the backend's ingestion, uploads and
registration, the front end's session, import page and dashboard, and the website's
questionnaire and calculators.  TLC checks them on small instances, and TLAPS proves
what matters most for every instance.

Contents: [inventory](#inventory), [modules](#modules),
[correspondence](#correspondence-to-the-code), [runs](#runs),
[fairness](#fairness), [findings](#findings), [proofs](#proofs),
[not modelled](#not-modelled), [plan](#plan).

## Inventory

| component | state | operations | interacts with |
|---|---|---|---|
| statement pipeline (`ingestion/pipeline.py`, `model.py`) | the working `NetWorth` of one call: positions by account name, warnings | `ingest`: decrypt, extract, classify, merge holding by holding, redeem | extraction (calls), runs (called in a thread) |
| ingestion runs (`background.py`, `persistence.py`, `session.py`) | `ingestion_runs.status`, the task's transaction, its temporary directory | `run_ingestion`, `load_current_networth`, `persist_networth`, `mark_*` | the accounts ledger (shared tables), the pipeline, the upload handler (scheduled by it) |
| upload admission (`ingestion_api.py`, `rate_limit.py`) | per-process list of (time, size) per user, a temporary directory per request | `POST /ingestion/upload`, `check_rate_limit`, polling of a run | runs (creates and schedules them) |
| registration and sessions (`auth_api.py`, `User`, `Invite`, `InviteRedemption`) | users, invites and their counters, redemptions | register, log in, current user, profile; the administrator's SQL | nothing else |
| accounts ledger API (`account_api.py`, `repository.py`) | accounts, balances by (account, date, currency) | create, rename, close, set and delete balances, list, history, allocation | runs (shared tables), exchange rates, the dashboard |
| exchange rates (`jobs/`, `ExchangeRateRepository`) | rates by (pair, date) | sync job, find-or-create, convert directly, inversely or through a bridge | the ledger's sums |
| extraction (`router.py`, `extract.py`, `parsers/`) | response cache, token usage | parser first, model otherwise | the pipeline |
| import page (`StatementImportFlow.tsx`) | screen, files, rows listed, passwords, the run displayed, an interval | pick, check, add, remove, reset, upload, poll | upload admission, runs |
| browser session (`AuthContext.tsx`, the log-in, registration and guarded pages) | the stored token, shared by tabs; per tab user and loading | check the token, log in, register, log out, redirect | registration |
| dashboard (`NetWorthDashboard.tsx`, its charts and dialog) | accounts fetched, currency selected, dialog, requests under way | load, save (one or two requests and a reload), close, import | the accounts ledger |
| questionnaire (`GetStartedQuestionnaire.tsx`) | position, answers, draft | choose, type, continue, go back, see results | a calculator, by a link |
| website calculators (`website/lib`, `website/components`) | inputs, the browser's storage, the link's parameters, a live exchange rate | edit, share, restore, project year by year | the questionnaire, a rate service |

What is hard, and what makes each part correct:

* **Pipeline.**  Several files of several issuers describe overlapping holdings, out
  of date order; a consolidated statement also speaks by *silence*.  Right means:
  each position is one statement's word, whole; nothing older displaces anything
  newer; silence removes only what its issuer would have listed; a bad file leaves
  no trace; order does not matter where it is said not to.
* **Runs.**  The balances are read, then several seconds pass in a thread, then
  everything is written back, row by row, while other runs and the user write the
  same rows.  Right means: all or nothing, no older statement over a newer one, what
  was redeemed is gone, every run ends and cleans up.
* **Upload admission.**  Uploads interleave at each `await file.read()`, the window
  slides, the process restarts.  Right means: the limits hold in *every* window, a
  refused batch leaves nothing, a run has all its files.
* **Registration.**  Check-then-act over several statements at READ COMMITTED.  Right
  means: identities unique, no invite oversubscribed, counters equal to redemptions,
  no use after revocation or expiry, nobody waits for ever.
* **Session.**  Tabs share one token and nothing else; every answer may come after
  the visitor logged out, logged in as somebody else or left.  Right means: a tab acts
  for the user it shows, and no page waits or redirects for ever.
* **Import page.**  A check, an upload and polls answer late, while the visitor goes
  on picking, adding and removing.  Right means: what is sent is what is listed, and a
  run shown as processing is in time shown as it ended.
* **Dashboard.**  A save is two requests and a reload in the closure of a click; loads
  overlap; five pieces of code add up the same balances.  Right means: at rest the page
  shows the ledger, in the currency it names, and the five sums agree.
* **Website.**  Ten calculators answer overlapping questions by different recurrences
  and boundaries; inputs come from defaults, the storage, links, answers and a late
  exchange rate.  Right means: the advice is right to the rupee, pages agree, and a page
  computes with what it was told last and comes back with it.
* **Rates by date.**  Each figure converts at a rate of another day; find-or-create
  races.  The answers by date are part of the dashboard's modules, the rest is
  [planned](#plan).

## Modules

```
Statements ─┬─ IngestPipeline ── IngestRequirements ─┬─ MCIngest
            │                                        └─ IngestProofs
            └─ IngestionRun ──── RunRequirements ────┬─ MCRun
                                                     └─ RunProofs
UploadAdmission ─┬─ MCUpload
                 └─ UploadProofs
InviteRegistration ─┬─ MCInvite          (INSTANCEs InviteSlots,
                    └─ InviteProofs       the abstract specification)
AuthSession ── SessionRequirements ─┬─ MCSession
                                    └─ SessionProofs
StatementImport ── ImportRequirements ─┬─ MCImport
                                       └─ ImportProofs
LedgerApi ── Dashboard ── DashboardRequirements ─┬─ MCDashboard
                                                 └─ DashboardProofs
Projections ── CalculatorPages ─┐
                                ├─ Website ── WebsiteRequirements ─┬─ MCWebsite
Questionnaire ──────────────────┘                                  └─ WebsiteProofs
```

* `Statements` — what a statement says and what it does to a set of positions: account
  keys, supersession, redemption, verdicts.  Pure operators, shared by the two modules
  that follow, so that one definition of "newer" decides in both.
* `IngestPipeline` — one call of `ingest()`, file by file and holding by holding.
  `IngestRequirements` — what the call owes over its whole batch.
* `IngestionRun` — background tasks against the `accounts` and `balances` tables.  It
  uses `Ingested`, a statement taken whole; `ReturnsTheFold`, proved in `IngestProofs`,
  says that the pipeline's steps amount to exactly that.  `RunRequirements` — what
  runs owe the ledger.
* `UploadAdmission` — the upload handler and its limiter.
* `InviteRegistration` — registrations, statement by statement; `InviteSlots` — the
  promise in one atomic step per registration.
* `AuthSession` — tabs, the token they share, their requests and redirects.
* `StatementImport` — the import page against the runs of the server.
* `LedgerApi` — the ledger's answers and writes as pure operators on the accounts of
  one user; `Dashboard` — the page that asks and writes.
* `Projections` — the calculators' recurrences as functions; `CalculatorPages` — what
  each page claims, and a visit to the pages; `Questionnaire` — the questions;
  `Website` — both, joined by the link from the one to the other.
* Each `...Requirements` module states what users of the component may rely on; each
  `...Proofs` module proves it for every value of the constants.

## Correspondence to the code

### Statements, IngestPipeline

A file is a record of what reading it yields: `read` is the outcome of
`route_extract` (facts, a locked, truncated or foreign file, any other exception),
then completeness, type, issuer, issue instant, the `exhaustive` flag and the
holdings.  Dates count days; instants count `TicksPerDay` ticks a day, so that the
midnight of `as_of`, which stands in for an unknown issue instant, can be compared
with them.  An account name is the sequence of its segments; optional segments are
dropped, as `":".join(...)` over the present ones does.

| code | model |
|---|---|
| the `for` over `file_paths` and its `continue`s | `SetAside` (one reason per `Verdict`), `Accept` |
| the exceptions that leave `ingest()` | `Raise`, `Raises`: an unsupported type, a missing amount, an unknown kind |
| each holding's `_should_replace` and assignment | `TakeHolding`, `Merge`; an EPF passbook states two keys |
| the trailing redemption loop of a file | `EndFile` |
| total, latest `as_of`, the returned `NetWorth` | `Return` |

A document of an ineligible type, or one that is not exhaustive, still goes
through `EndFile`: it drops nothing.

### IngestionRun

A task is a program counter over the awaits of `run_ingestion`: `queued`, `loading`,
`ingesting`, then per position `persisting` → (`creating` →) `selecting` → `writing`,
then `cleaning` or `failing`.  `staged` is what its transaction has written: private
until `Succeed`, and locked — another transaction that inserts the same account name
or writes the same balance row waits.  A row that appeared or vanished between
`SelectBalance` and `WriteBalance` raises (`RowTakenOrGone`), as does an account
created meanwhile (`NameTaken`); two tasks that wait for each other's rows give a
deadlock victim.  SQLAlchemy sends only changed columns, so `Updated` mixes what was
selected with what is committed at the time of the write.  Bookkeeping: `overtaken`, the
rows of a task whose amount somebody changed between its `SelectBalance` and its
`WriteBalance`.

`DatabaseFails` covers any error of a statement, in the work or in `mark_failed`;
`Crash` loses every task, its transaction and nothing else.  `User` sets or deletes a
balance or closes an account, as the handlers of `account_api.py` do, between any two
statements.

### UploadAdmission

`Receive` stands for the checks before the loop; then each file arrives (`await
read()`), is judged, charged and stored without yielding: `RefuseLarge`, `RefuseRate`,
`StoreFile`.  The limiter's list is a set of charges, each named by its file; `charged`
is a history variable, used only by the properties.  `CreateRun` is the commit of the
PENDING run; `Break` an exception other than `HTTPException`; `Restart` empties the
limiter.

### InviteRegistration

Each request is one transaction: two SELECTs, the conditional UPDATE of the invite (in
invite-only mode), the INSERT of the user, the redemption, the commit.  What it has
not committed is private; `holder` is the row lock its UPDATE takes; an INSERT waits
for an uncommitted one with the same name or e-mail.  `began` is PostgreSQL's `now()`,
the instant the transaction began.  Writes that only become visible at the commit (the
counter, the user, the redemption) are applied there.  `Revoke`, `Extend` and
`AddUses` are the SQL the administrator is told to run.

### AuthSession

A token is identified with the user it was issued to.  `tab[t]` holds the page, what
`AuthContext` believes (`user`, `loading`), the check of the mount effect (`checking`:
the token it was sent with) and the operations under way.  An operation goes through
the stages of `handleSubmit` and `login`: `registering`, `loggingIn`, `checking`;
`shown` says that its form is still on the screen, since leaving the form forgets the
form and not what its requests do to the session.

| code | model |
|---|---|
| the mount effect and `checkAuth` | `OpenTab`, `MountCheckAnswers`: any failure removes whatever token is stored *by then* |
| `login`, `register` and their pages | `SubmitLogin`, `SubmitRegistration`, `RegisterAnswers`, `LoginAnswers`, `LoginCheckAnswers` |
| `/auth/registration-info` | `InfoAnswers`; an error counts as "no code required" |
| `logout`, the navigation bar, links | `Logout`, `FollowLink` |
| the `useEffect` redirects | `HomeRedirects`, `GuardRedirects` |

Every answer may be an error.  `undisturbed` is bookkeeping: the tabs whose token no
other tab has changed and whose visitor has not submitted a form while logged in or
while a request was under way.

### StatementImport

The variables are the component's state; `check`, `submitting` and `polls` are its
requests under way.  A poll remembers the status at the time it was sent, and is
answered by that one or by the present one.  The interval does not wait for the
answer of the poll before, so answers overtake each other.  `Reset` is
`resetToFilePicker`, which cancels no check.  `Leave` unmounts; an upload may
still reach the server.  `Advance` is the background task, as `IngestionRun` reports
it; `Restart` loses the tasks under way for good.  Bookkeeping: `meddled` (the picker
was used while a check was under way), `mishap` (a poll failed, an older answer
overtook a newer one, or a task was lost), `uploads` (what the page listed when it
sent).

### LedgerApi, Dashboard

`List`, `History` and `Allocation` are what the three questions of the page are
answered, `Create`, `Rename`, `SetBalance` and `Close` what its writes leave behind,
for one user, today.  A balance has an account, a currency and a day; `PerUsd` is the
rate in force on each day, if there is one.  The answers differ where the code differs:

| | balances | days | rates |
|---|---|---|---|
| `List` (`GET /accounts`) | the latest in the account's own currency | today | today's |
| `History` (`GET /networth-history`) | for each point the latest up to it, in the account's own currency | the days of the last year on which an open account got a balance, none if there is none | of each balance's own day; for a balance older than the year, of the day before it |
| `Allocation` (`GET /allocation`) | the latest in every currency, assets only | today | today's |

The page saves a balance under today; an import writes one under any day up to today.

A load is answered with what the server held when it was sent or holds now.  A save
goes through `account` and, when `SendsBalance`, `balance`; the id of a new account is
known to the second request only.  `Finish` closes whatever dialog is open and reloads in the
currency that was selected at the click; `Alert` is a refused or lost answer, carried
out or not.  The charts mount and ask anew each time the page is drawn anew (`AskCharts`).  `NodeTotal`
is the tree the page draws from the parts of the names.  Bookkeeping: `hasty` (the visitor
acted while the page waited), `unseen` (the ledger changed and no load was started
since).

### Projections, CalculatorPages, Questionnaire, Website

Money is a whole number of its smallest unit: a product by a rate is rounded down, a
sum is exact.  What the properties look at are years, phases and boundaries — in which
year a contribution stops, whether growth comes before or after a withdrawal, which
comparison is strict — and these are the code's.  Sixty halvings of a bracket become
as many as narrow it to one unit; the answer is its midpoint, as in the code, which
need not be enough itself.  The panels show amounts `Rounded` to the `Rupee`, a number
of units, as `formatRupees` and `formatDollars` do.

`Balances` is the loop the retirement, progress and compounding code share, over a rate
and a flow for each year: `simulate` runs it with a rate that changes at retirement and
a flow that turns from contribution to withdrawal, `projectSipSeries` with constant
ones.  `Bisect` is the search they share, over the set of the sums that are enough.
The provident funds (`Accumulate`) pay in before interest and the savings rate
divides by inflation; they are recurrences of their own, as in the code.  `Kind` says
what a field of a form holds: a number, an allocation or a flag.

`Panel(calc, in)` is what a page claims for its inputs: a warning, that the visitor is
on track, or what to invest.  `EditField`, `PickCity` and `PickRegion` are the forms'
change handlers, with what they reset (a new region picks its first city, a typed rate
loses its date).  The state goes to the browser's storage in an effect after every
rendering, and the first one writes the defaults before the restored state: `phase =
"unsaved"` is the time in between.  What is restored is spread over the defaults
(`Restored`).  Bookkeeping: `told`, what each page was told last, field by field — typed
or chosen on it, saved by an earlier visit or read from a link; a live rate is told by
nobody (`Told`).  A page left before its save effect has lost what is not in the storage
(`Remembered`).  A link carries every field as text, `null`
included; `Decode` leaves a field whose default is `null` at its default.  The live rate
answers at any time after mounting, or fails.

`Questions` is computed from the answers so far, as `questionsFor` is, so that going
back and choosing another path changes the list under the visitor's position.
`Destination` is `buildDestinationHref`.

## Runs

Every run switches deadlock checking off because the systems really stop: requests
end, the call returns, the bounded clock reaches its bound.

| run | instance | shows |
|---|---|---|
| `MCIngest` | all batches of up to 3 of 21 files, from 5 ledgers (empty, a manual entry, one statement's, another aggregator's, a share and a fund) | eight properties of one `ingest()` call |
| `MCInvite` | 3 requests, 2 invites (one slot; two slots, expired at once), both modes, clock 0..1, limits raised to 2 | nine properties, refinement of `InviteSlots` and an answer for everyone included |
| `MCUpload` | 5 uploads of 0–2 files, window 2, 3 files or 5 bytes a window, clock 0..4 | the limits in every window, no debris |
| `MCRun` | 2 runs, 4 statements, 1 prior balance, 1 user act, 1 fault | all-or-nothing, published results, no regression, termination |
| `MCSession` | 2 tabs, 2 users, invite-only, 4 acts of visitors | an undisturbed tab acts for the user it shows; every tab comes to rest |
| `MCImport` | 3 files, one locked, 2 uses of a dialog, 2 runs, 2 polls at once | the page sends what it lists and shows how the run ended |
| `MCDashboard` | 2 accounts, 3 names (two nested), 3 currencies (one whose rate changed, one without a rate), 3 days, 4 acts | the page at rest shows the ledger, and its five sums agree while rates hold |
| `MCWebsite` | the ten calculators over a life of five years, gains, losses and debts, saved inputs of earlier visits, one edit, every detour of the questionnaire | the advice is right to the rupee, the visitor is heard |
| `IngestOrder`, `IngestKinds`, `RunsRedeem`, `DashboardUnchanged` | reduced instances of the same modules | the [findings](#findings) |

**Pipeline properties.**  `EveryPositionIsEvidence`: each working position is, whole,
the seed's or one taken holding's word for its key.  `CurrentUnlessRedeemed`: whatever
was stated for a key, the key now holds something at least as recent, unless something
at least as recent was redeemed.  `RedemptionLeavesNothing`: nothing an exhaustive
statement redeemed is still there, unless a later file stated it again.
`OtherSourcesSurvive`: the silence of one aggregator never removes what another listed.
`ReturnsTheFold`: set-aside files and the order of steps inside a file leave no trace.
`OrderOnlyMattersToRedemption`: without redeeming documents and without ties on
(`as_of`, `doc_issued_at`) every upload order gives the same result.
`SecondIngestIsNoop`: from an empty ledger, ingesting the same files again changes
nothing, if no two *sources* tie on (`as_of`, `doc_issued_at`) over a key.  From a ledger
that already holds positions this fails: the second call may bring back, from an older
file of the batch, what the first one redeemed.  And with rival ties it fails for batches
too large for the run: three sources state a key with the same dates, the second
loses to the first, the first is redeemed and the third stored; the second call finds the
third and takes the second for it.  The attempt to prove the property without
`RivalTie` showed this.

**Run properties.**  `OnlySucceededRunsWrite`, `SuccessPublishesResult`: nothing of a
failed run is in the ledger, and every position of a successful one is, under the
run's document and with its amount.  The one exception is a row in `overtaken`, whose
amount somebody changed after the run selected it: the ORM compares with what it
selected, may send the document alone, and the row then mixes two documents.
`NewestIssueWinsUnlessOvertaken`: a run that commits on the very ledger it loaded does
not replace a later-issued statement of an open account.  `EveryRunEnds`: each accepted
run ends and removes its files unless the server stops, also when the pipeline or the
database fails, and in particular two runs that lock each other's rows both end; and it
ends as SUCCEEDED or FAILED, unless the database fails again while the run is marked as
failed.

**Upload and registration properties** are stated beside each module.  `WindowCount`
and `WindowBytes` quantify over every window that ends by now, although the code only
ever looks at the window that ends now.

**Session properties.**  `SessionIsTheTokens`: in an undisturbed tab, a user shown is
the user of the stored token, and a tab that waits for nothing shows exactly whom the
token names.  Both conditions of "undisturbed" are needed: `checkAuth` removes a token
it did not read and never clears a user it replaces.  `TabsSettle`: once visitors stop
acting every tab rests on a form with no request under way or on content it shows.

**Import properties.**  `UploadIsWhatWasListed`: each file once, with a password where
one is needed, unless the picker was used during a check — the first file input stays
enabled and its late answer lists other files than will be sent.  `UpdatesAutomatically`: "This page
will update automatically", unless there was a `mishap`; the code stops polling at the
first failure and takes every answer for news.

**Dashboard properties.**  `DashboardIsCurrent`: at rest, rows and chart data are
those of the ledger in the selected currency, provided the visitor waited for answers
(`hasty`) and nothing happened behind the page's back (`unseen`).  `NumbersAgree`: the
summary agrees with the tree, with the history's last point and with the allocation.
Each condition is one under which the code's sums do part:

* an account that lies below another: the node of the other shows its own balance alone;
* a rate that changed since an account's latest balance (`RatesHeld`): the chart converts
  that balance at the rate of its day, the summary at today's.  With rates of each day
  this is the normal case for any account not in the display currency, and the reader
  sees the two figures side by side;
* no balance within the year: the chart is then empty, although the accounts have
  balances;
* an account that holds a currency not its own: only the allocation counts it.

**Website properties.**  `AdviceIsSound` says of each page that the sum it shows is right to
the rupee — a rupee more suffices and a rupee less does not (`ToTheRupee`); the sum itself
may fall on either side, as the middle of the last interval, rounded — and
that pages which answer one question two ways agree:
retirement with coasting, city and return plans with the SIP page, pension scheme with
provident fund, savings rate with SIP, shortfall with the age of independence.
The forms' `min` and `max` bind the arrows of a number field only, so every number can be
typed, and each condition in the property is there because without it what the page
says is not so:

* at a loss, a balance that has reached the number may fall below it again, so the page
  shows an age of independence and a shortfall at once (`ProgressIsConsistent` asks for
  rates that are not negative, and `SipAdvice` for contributions that are not);
* where more than all is lost in a year (a rate below -100), more savings give less, and
  a search that halves an interval has nothing to find (`CityAdvice`, `ReturnAdvice`,
  `SipAdvice`, `LumpsumAdvice`);
* coasting compares a strict test in the search with a lax one on the page; that they
  meet needs that a unit more is worth a unit more at the end, which rounding down grants
  for rates that are not negative (`CoastAdvice`);
* interest on a debt, or on contributions that are taken out, is charged, not paid
  (`EarnsInterest`).
`VisitorIsHeard`: what a page was told last is what it computes with, whatever arrives
late, and what it has stored once it rests or was left, so that the next visit finds it —
except what had not been saved when the page was left (`InputsRemembered`); questions
passed have answers the question offers; the calculator uses every answer it asked for
and defaults otherwise; a shared link shows its reader what its sender saw, but for a
live rate; the date beside a rate is that rate's, and a rate counts as the visitor's own
exactly when it was typed; an expense is the visitor's own or that of the city shown.

**Bounds and why they suffice.**  Three files give a statement, one that supersedes or
redeems it and one that restates it, in any order; the 21 files contain each type of
aggregator overlap, restatement of one date, ties, and every reason to be set aside
or to raise.  Two runs, and one change of the user, show every pairwise race on rows; more would repeat
them.  In registration, the third request clashes with one of the two others by name
and with the other by e-mail, which is what chains of waiting need.  The upload
window of 2 in a clock of 4 lets the window slide past charges of every age.  Two
tabs, two users and four acts let one tab open, log in, be overtaken by a log-in of the
other and log out.  Two dialogs, two runs and two polls give a check
overtaken by another pick and an answer overtaken by a newer one.  Four acts on the
dashboard are an edit opened and saved and another thing, of the visitor or an import,
before, between or after; three days give a balance before the history begins, within it
and today, and the rate that changes when the history begins gives converted balances of
both kinds, with and without a change since.  A life of five years has a year in every
phase — contributing,
retired, past the last contribution — and both sides of each boundary, and one edit
away from the defaults or a saved visit every panel shows each of its faces; the values
typed include debts, withdrawals and losses.  A rupee of four units leaves room on
both sides of a rounding.  The
counters with a bound (`MaxClock`, `MaxUserActs`, `MaxFaults`, `MaxMaxUses`,
`MaxExpiry`, `MaxFiles`, `MaxActs`, `MaxRuns`, `MaxPolls`, `MaxPicks`, `MaxEdits`) are
constants; TLC needs them, the proofs hold for any value.

**Assumptions of the models.**  The process runs in UTC (it is what the containers
do), so naive instants and `timestamptz` agree.  One currency and one statement per
upload in `IngestionRun`.  The outcome of a commit is known to the task that asked for
it.  One worker process, as `rate_limit.py` says.  A browser's storage neither fails
nor is edited by hand.  The dashboard's answers are all of one day.

## Fairness

`FairSpec` of `IngestionRun` and of `InviteRegistration` is weak fairness of each
task's and each request's own steps: the event loop keeps resuming a coroutine that
can go on, and PostgreSQL keeps serving it.  Nothing is assumed of users, of faults or
of the clock.  A task waiting for a lock is not enabled, so the liveness properties
say something about waiting: no one waits for ever, because whoever holds a lock ends
(or is a deadlock victim).

`Spec` of `AuthSession` adds weak fairness of each tab's answers and redirects: a
browser ends every request, with an answer or an error, and runs the effects of a
rendering.  `Spec` of `StatementImport` adds it to the answers, to the interval and to
each run's task that a restart did not lose.  Nothing is assumed of visitors, of
restarts or of failing polls.  The dashboard and the website are checked for safety only.

## Findings

Each is a run whose property TLC refutes; the property states what the repository
says of itself.

* `IngestOrder` — the upload order decides what is redeemed (`pipeline.py:304-311`),
  while the comment at `pipeline.py:129-131` says it never matters: a fund of CAMS is in the
  ledger, an exhaustive CAMS statement does not list it, and a CDSL statement lists it as
  of an earlier day.  The CAMS statement read first, the fund is deleted and brought back
  with its older amount; read second, the fund is gone.
* `IngestKinds` — redemption is scoped by source alone: a CDSL *mutual fund* statement
  deletes the *shares* of CDSL's demat statement.
* `RunsRedeem` — a redeemed position is dropped in memory only; its balance stays and
  is loaded again by the next run.
* `DashboardUnchanged` — editing an account's name or description posts its old balance
  again under today's date, over what an import wrote meanwhile:
  `NetWorthDashboard.tsx:165` compares the number typed with the text the API sent
  (`tests/test_currency_conversion_api.py:92` asserts `"100.0000"`), while
  `NetWorthDashboard.tsx:163` says that only a changed balance is sent.

Where a property carries an exception (`undisturbed`, `meddled`, `mishap`, `hasty`,
`overtaken`, "overtaken" of `NewestIssueWinsUnlessOvertaken`, `RatesHeld`, the page left
before it saved) the code really misbehaves in the excepted case; the comment at the
property says how.

## Proofs

Every safety property that a passing run checks is proved for every value of the
constants.  A proof module has the shape of its specification:
an inductive invariant `IInv` (or one per component), a lemma for each action, the
theorem that it is always true, and a theorem for each property.  `PROJECT.json` lists
them.

### What the proofs assume

Only the named assumptions of the modules, which TLC evaluates on every run:

| module | assumption | why it holds |
|---|---|---|
| `Statements` | `NoneAssumption`, `TicksAssumption`, `DocumentsAssumption`: documents have the fields of a parsed file | the types of `model.py` |
| `IngestPipeline` | `SeedsAssumption`, `BatchAssumption`: a call starts from positions | `load_current_networth` returns them |
| `IngestionRun` | `BoundAssumption`, `RunAssumption`, `LedgerAssumption`: the rows there at first are finitely many and of no run of the behaviour | table constraints |
| `UploadAdmission` | `SizesAssumption`, `LimitAssumption` | the limits' constants |
| `InviteRegistration` | `CodeAssumption`, `RequestAssumption`, `InviteAssumption`, `StepAssumption` | column types |
| `AuthSession` | `SessionAssumption` | `null` is no user |
| `StatementImport` | `ImportAssumption` | `null` is no list of files |
| `LedgerApi` | `ApiAssumption`: no balance is dated after today, and a day has a positive rate or none | dates are the page's today or a statement's `as_of`; rates are quotients of positive ones |
| | `NamesAssumption`: names start with `Assets` or `Liabilities` | `create_account` refuses others |
| `Dashboard` | `DashboardAssumption`, `DialogAssumption`: no two accounts share a name at first | the unique constraint of `models.py` |
| `Questionnaire` | `UndefinedAssumption` | `undefined` is no answer |
| `Projections` | `ProjectionsAssumption`: the limits are numbers, and each search's upper end is at most 2^`Iterations`, a `Rupee` is some units | the code halves 60 times intervals of 10^7 and 10^9 |
| `CalculatorPages`, `WebsiteRequirements` | `PagesAssumption`, `OriginAssumption`: defaults, saved inputs and typed values have the fields of their form and the `Kind` of each, and their regions, expenses and rates come from where a visit's do | `DEFAULT_INPUTS`, `NumberField`; storage is written by earlier visits |

In `CalculatorPages` a value stands for where it came from, so `PagesAssumption` also
keeps the published rates apart from the typed ones.

### Registration

`InviteProofs`.  The inductive invariant has three parts besides types.  `LockInv`: the
row of an invite is held exactly by the one request that consumed it and is still at
work, and what its UPDATE checked is still true — this is the step that a read of the
counter alone would not give, since the counter moves only at the commit.  `UserInv`:
users are the requests that registered, and no two requests that have inserted or
committed clash.  `CountInv`: a redemption belongs to a user and to the code that user
asked for, and the counter is the number of redemptions and at most the limit.
Refinement of `InviteSlots` follows: a `Commit` in invite-only mode is a `Join` whose
guard is what `LockInv` preserved; `Revoke` is `Withdraw`, `AddUses` is `Widen`,
everything else stutters.

### Uploads

`UploadProofs`.  The log holds every charge that still counts and nothing that was not
charged, so the limiter counts exactly the window that ends now; every earlier window is
settled, and a tick only opens a window that is a subset of the one before.  For
`WindowBytes` the same argument needs sums: `BytesSplit` and `BytesMonotone`, from
`BytesRecursion` (a sum is one member's size and the sum of the rest).

### Pipeline

`IngestProofs`.  The properties of a state speak of what has been taken or heard *so
far*, so they are inductive once `CurrentUnlessRedeemed` is stated over evidence
(`EvidenceIsSettled`) and all evidence is known to be positions: a step adds the evidence
of one holding (`TakingAddsOne`), or hears one file's silence, or changes neither
(`OthersAddNothing`, `OthersKeepPositions`).  The heart is that supersession is a total
preorder (`AtLeastOrder`): what replaces a position is at least as recent as everything
that position was at least as recent as, and what is redeemed takes that claim with it.

The three properties of a whole call compare it with folds.  A fold over a sequence is a
chain: a function on `0..Len(seq)` whose next value is one operation on the one before
(`IsChain`; `FoldSolvable` says that there is one, `SolutionIsChain` that it is the fold).

* `ReturnsTheFold`: `FoldInv` says that the files done so far are a chain from the seed,
  and the holdings done so far a chain from where the present file began.
* `SecondIngestIsNoop`: run the second call beside the first, file by file, and say that
  they are `Near`: about each key they agree, or neither has more of it than some
  statement that is still to come and that settles it.  At the end nothing is to come.
* `OrderOnlyMattersToRedemption`: without redemption a key only gets newer, so in any order
  it ends with something not older than every statement of the batch (`BatchHolds`);
  without ties there is one such statement.

### Runs

`RunProofs`.  `StagingInv`: what a transaction has staged is, position by position, what
the code is to write for it — the stated amount, unless the row is in `overtaken` — and
nobody else has staged the same row — the row locks.
`ResultInv`: no position a run computed is older than the one it was loaded over
(`IngestedNotOlder`, by a chain over the statement's holdings).  `ControlInv`: where a
task can be with which status and what it has at hand there.  `SuccessPublishesResult`
and `NewestIssueWinsUnlessOvertaken` are action properties: only `Succeed` makes a run
succeed (`SucceedsByCommit`), and the commit is what has been staged (`CommittedRows`).
A step of one run, the user or a crash leaves the others' invariant alone
(`OthersUnaffected`): staged rows do not depend on the committed ones but for a row whose
lock the run holds.

### Session

`SessionProofs`.  `SessionIsTheTokens` is not inductive: what a late answer will do
depends on what was sent.  `Calm` says what an undisturbed tab has under way — at most
one request; a mount check that was sent with the stored token; nobody logged in while it
waits; an operation being checked is for the user the token now names.  `Replaced` is the
one lemma all actions share: it replaces the state of one tab and requires every other tab
to count as disturbed if the token changed.

### Import page

`ImportProofs`.  `ListInv` relates the files to upload, the rows listed and a check under
way while nobody meddled: a first check is of the files themselves, a later one is an
addition to what is listed.  `SentInv` says the same of what has been sent.  The code
removes files by name, a recursion over the list: `OnlyKeeps` says what it leaves.

### Dashboard

`DashboardProofs`.  `Existence`: what rows, dialogs and saves speak of is in the ledger.
`OneAtATime`: a visitor who waits has one request under way, in the selected currency.
`Fresh`: a load under way will answer what the ledger holds, and without one the page
shows it.  On the last day of the history each account counts for its latest balance
(`CountsAsShown`), at the rate of that balance's day or of the day the history
takes it from; that is today's value where `RatesHeld` (`HistoryAgrees`).  `NumbersAgree`
is about sums over sets: they can be taken one member at a time
(`SumTakes`), renamed (`SumReindexed`), split (`SumSplits`) and nested (`SumOfSums`).  The
tree's totals are a function defined by recursion from the deepest names upwards; that it
exists (`TotalsExist`) and gives each node the sum of the accounts below it
(`TotalsAddUp`) are inductions on the height, and need that no account lies below
another, which is the property's hypothesis.

### Website

`WebsiteProofs`.  `QuizInv`: the position stays within a list that changes under it,
because every list begins with the category and the path and asks for neither again
(`Lists`), so that an answer can change the list only at the first two positions.
`PagesInv`: the inputs on the screen and those in the storage are `Good` — exactly the
fields of the form, none null but a rate's date, the expense and the rate from a known place —
which every handler keeps (`PatchedIsGood`, `CityIsGood`, `LiveIsGood`; `LinkSays` for links).
`QuizLink`: at the end of the questionnaire every answer its calculator takes has been
given, so the link carries it and `Decode` reads it back.  A shared link shows its
reader the sender's panel although it does not carry the date of the rate, because no
panel depends on it (`PanelIgnoresDate`).  `ToldInv` keeps `InputsRemembered` beside them,
an action at a time: a change tells exactly the fields it changes (`ToldChanged`), the
late rate is not told and changes nothing that was (`ToldLive`).

`AdviceRightToTheRupee` is a statement about every record of inputs that is `Good`, whatever
visit led to it (`GoodAdvice`); the fields being of their `Kind` is part of the
invariant.  It rests on four arguments.

* *One recursion.*  A ledger is a function of the years whose every value follows from
  the one before by growth and a flow (`LedgerExists`, `BalancesAreLedger`).  All that
  is known of the ten recurrences comes by `YearByYear` induction on ledgers: two with the
  same rates and flows are equal (`LedgersAgree`), and one that starts with more and is
  fed more has more each year, as long as no year loses more than all
  (`LedgersOrdered`).  Two pages agree where they keep the same ledger:
  `CoastingIsInvestingNothing`, `AccumulationIsSip`, `SavedIsLedger`.
* *Searches.*  Halving keeps a bracket whose upper end is enough, or the cap, and whose
  lower end is not enough, or the start (`HalvingBrackets`); when `Iterations` halvings
  have made it one unit wide, its midpoint is the last sum that is not enough and one
  unit more is enough if the cap is (`SearchFacts`) — for *every* set of sums, monotone or
  not.  The amount shown is at most half a rupee away (`RoundedFacts`), so a rupee more or
  less is on the one side or the other (`RupeeBeside`); that all sums on that side are
  enough, or not, is the monotonicity of the recurrences (`MoreInvestedMoreLeft`,
  `MoreSavingsMoreWorth`, `MoreSipMore`), and with it the page may also test otherwise
  than its search, strictly or laxly (`PlanSound`).
* *Discounting.*  The sum to invest today is a recursion in the other direction, each
  year the least that grows to the year after (`LeastToGrow`, `DiscountedIsLeast`).
* *Crossings.*  The age of independence is the least age at which a series has reached
  the number (`CrossingIs`); what was reached stays reached without losses
  (`ReachedStays`), so the age decides whether the page is on track (`FireAgeIs`).

### Only model-checked

* Liveness under fairness: `EveryRunEnds`, `EveryRegistrationEnds`, `TabsSettle`,
  `UpdatesAutomatically`.  The prover has no rule for it.
* That the refuted statements of [findings](#findings) fail is shown by their runs.

Induction schemes with an operator as parameter cannot be instantiated by the prover.
Where a proof needs induction over numbers it takes the least counterexample instead
(`Induction`, from `WellFoundedInduction`), about a set of numbers.

## Not modelled

* **Text recognition and extraction** (`parsers/`, `router.py`, `extract.py`, the
  language model, its cache and usage accounting): a file's outcome is an input of the
  pipeline.  Units, NAV and token usage are carried through without a decision.
* **Where rates come from** (`jobs/`, the writing half of `ExchangeRateRepository`):
  `LedgerApi` is given the rate in force on each day, and it stays so during a visit.
* **In the ledger**: the deletion of balances, histories of other lengths than the year
  the page asks for, and balances dated after today.  Debts
  stored negated by an import (`account_api.py:334`), renamed accounts against the
  deterministic key of the next import (`account_api.py:360`) and manual edits that keep
  the row's document (`repository.py:216`) would need the ledger and the import in one
  model.
* **In the runs**: several statements per upload, two currencies of one account
  (`persistence.py:50`), and a commit whose acknowledgement is lost (`session.py:106`).
* **Profile updates** of `auth_api.py`, which no page sends.  A log-in and the check of a token
  are answers in `AuthSession`.
* **On the website**: the chart's drawing, wording and number formats, the forms
  that post an address and forget it.  Amounts are whole numbers, so the rounding of
  doubles is not part of any property.
* **Unused front-end code**: `AddAccountFlow.tsx` and `useTransactionWorkflow.ts` are
  imported by no page.
* **Migrations, scripts, infrastructure, CI, static pages**: no behaviour of their own.

## Plan

In order of what a mistake would cost the user:

1. `LedgerApi` grows: deletion of balances, manual edits that keep a row's document, debts
   stored negated, dates after today; an abstract ledger (a function from account and
   date to an amount) it implements, and an import composed with renaming.
2. `ExchangeRates` — the sync job against find-or-create, and what it makes of `PerUsd`,
   the rate in force on a day; rates that change during a visit.
3. `IngestionRun` grows: several statements per upload, two currencies, a commit whose
   outcome the task does not learn.
4. Extraction: parser-first routing, the response cache and usage accounting; the
   contract of a parser (completeness, source, exhaustive).
5. More proofs: the theorems on what 1–4 add.  On the website, how far doubles are from
   the whole numbers of the model; the recurrences' rounding errors would have to be
   bounded over the years.

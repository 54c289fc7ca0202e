# Construction-site safety platform: formal models

The program is a web service for the safety of a construction site: incidents
are reported, assigned, rectified and closed; inspections are planned and
executed item by item; trainings and certifications are recorded; a dashboard
sums up. A Go server (`src/backend`, gin and gorm) stands between a React
frontend (`src/frontend`) and MySQL. Every request runs in a goroutine of its
own, all shared state is in the database (and in one map, the rate limiter's),
and a container restarts the server when it ends.

This directory holds TLA+ models of the server, the TLC configurations that
check them on small instances, and proofs, checked by TLAPS, for every
instance. `PROJECT.json` ties every definition to the lines it models, lists
the runs, the hazards, and for each property a faulty variant of the code
that breaks it.

To check a run: `tlc -config <run>.cfg <MC module>`; a proof: `tlapm <module>`.

## 1. Inventory

| component | state it keeps | operations | what is hard about it |
|---|---|---|---|
| incidents | table `safety_incidents`: status, rectification measures | Report (INSERT); Assign, SubmitRectification, Close (SELECT, status check, UPDATE of all columns); Get, List, statistics | the three transitions interleave: nothing locks the row between read and write; an UPDATE fails before or after its commit; crashes |
| inspections | tables `safety_inspections`, `inspection_items` | Create (one transaction); Execute (transaction with row lock, loop over the submitted items, verdict); Get and Report (two reads); List, Stats | concurrent executions, lock waits and their timeout, rollback and crash within the loop, lists that repeat, miss or invent items, the score's rounding |
| rate limiter | a map from client address to bucket, behind one mutex | Limit | waiting for the mutex in any order, the clock, whole-minute arithmetic, restart |
| request pipeline | the request's context; table `audit_logs` | CORS, AuditLog, rate limiter, AuthRequired, RequireRole, handler, and the way back; shutdown | what runs before and after the handler, and what is left out when a layer stops the request; stopping the server with requests under way |
| accounts | table `users`; the tokens clients hold | Register (SELECT, bcrypt, INSERT), Login (SELECT, bcrypt, sign), UpdateProfile (SELECT, UPDATE of all columns), Me, List | overlapping registrations of one number, overlapping whole-row updates, tokens that outlive what they say |
| certifications | table `worker_certifications`: status | Submit, Review (SELECT, check, UPDATE), List, ListExpiring | two reviewers at once |
| trainings | table `safety_trainings`: date, participants, pass rate | Create, Record (SELECT, UPDATE of all columns), List, Get | overlapping records; a field left out arrives as nothing or zero |
| dashboard | none | Stats: a series of statements and clock readings | figures counted at different moments |
| startup and seed | phase of `main`; presets in all tables | connect, AutoMigrate, Seed (count users, INSERT one by one), serve; `database/init.sql` on a new database | an interruption between two INSERTs, ids that presets expect of each other, a restart loop |
| lists | none | the six `List`s: a COUNT, then a SELECT with ORDER BY, LIMIT and OFFSET | rows come and leave between two pages, and between the COUNT and the SELECT; sort keys that tie |
| upload | files | create a file under a time stamp, copy into it | two uploads in one nanosecond, a clock set back, a copy that breaks off |
| audit log list | none | List, its page | every audited write moves the rows it is paged over |
| web page of the inspections | a zustand store (the list on show), the page's state (query, dialog) | change the filter or page, open the dialog of an inspection, mark its items, submit; create a plan | answers late, lost or out of order; what runs behind an `await` uses the values of its closure; requests given up that are carried out all the same |
| web page of the incidents | a store (the list), the page's state, the detail of `useIncident` | filter, open, assign, rectify, close, cancel | the detail on show is the last to arrive, not the one asked for; each step loads again behind its `await` |
| session and profile page | `authStore` (local storage), `userStore`, the route on show, the form | login, logout, guards, fetch and save the profile, upload a picture | requests of an old session answered in a new one; late 401s and late logins; a reload loses the stores but not the token |
| rest of the web frontend | the stores and pages of trainings, certifications, dashboard | fetch lists, send forms | as on the pages above, without dialogs that load |
| formatters, logger, error type, constants | none | pure | nothing |

**Interactions.** `main` starts everything and seeds before it serves. A
request passes the pipeline; its last layer is the handler, which calls one
service, which calls its repository. Services share nothing but the database;
incidents, inspections, trainings and certifications refer to users by id, and
users are never deleted. The role that the pipeline admits by is the one in
the token, which the accounts issued. The audit log writes after the handler
has committed. The dashboard reads the tables of four services. The frontend
talks to the server by requests only, each with a promise that is resolved or
rejected.

**What makes each correct.** Incidents walk reported → investigating → resolved
→ closed with the measures they were rectified with; an inspection gets one
verdict, computed from one list, all or nothing; no minute admits more requests
than the limit; a write is committed only for the roles of its route and is
audited once and truthfully; a number is registered once, and a token tells the
truth; a decided certification stays decided; a recorded list is not lost; a
figure is one the tables account for; presets are written once, refer to each
other rightly, and the server comes up; what a page submits belongs together,
and what it reports as a success is one; what a list hides or repeats has
moved; the session that ends had a reason to, and nobody sees or saves another
user's profile or picture.

## 2. Modules

| module | stands for |
|---|---|
| `IncidentRows` | the incident table: statuses, the shape of a row |
| `IncidentLifecycle` | *abstract*: the walk, one step per operation |
| `IncidentVersions` | *abstract*: what remains of it when requests overlap |
| `Incidents`, `IncidentsProofs` | the service, handler and repository; its theorems |
| `InspectionRows` | the two inspection tables, submitted lists, the score |
| `AtomicInspections` | *abstract*: an execution as one step |
| `Inspections`, `InspectionsProofs` | the service with its transaction; its theorems |
| `RateLimiter` | the middleware; its theorems are in `RequestPipelineProofs` |
| `RequestPipeline`, `RequestPipelineProofs` | the chain of layers, the audit log, stop and start; its theorems, and those of `RateLimiter` |
| `AccountBook` | *abstract*: what registering and logging in promise |
| `Accounts`, `AccountsProofs` | the user service; its theorems |
| `RowRequests` | what Certifications and Trainings share: a row held between SELECT and UPDATE |
| `Certifications`, `Trainings` | the two services |
| `Dashboard`, `DashboardProofs` | composes both with one pool of requests, and adds the dashboard's rate; the theorems of all three |
| `Startup`, `StartupProofs` | `main`, `SeedService.Seed`, `init.sql`, restarts; its theorems |
| `Lists` | the six lists, read page by page; its theorems are in `PagesProofs` |
| `Uploads` | the upload directory |
| `ProfilePage`, `ProfilePageProofs` | the session of the browser and the page of the own profile, over `Uploads` and the users' table; its theorems |
| `InspectionPage` | the browser's page of the inspections, its store and requests; the server behind it as `AtomicInspections` promises |
| `IncidentPage` | the browser's page of the incidents with its dialog; the server behind it as `IncidentLifecycle` has it |
| `Pages`, `PagesProofs` | composes the two pages as routes of one program; its theorems, and those of `Lists` |
| `MC...` | instances for TLC |

The correspondence is the same everywhere. A *table* is a partial function
from ids to rows, and a row keeps the columns that some check or write depends
on. A *request* is a worker that is idle or holds what it has read (`req`,
`tx`). An *action* is what happens between two points where others can come
between: a statement of the database, a mutex, a layer. So a transition of an
incident is two actions - `Find` (the SELECT with the status check) and `Save`
(the UPDATE of all columns) - with error and success answers as in the handler,
and an execution of an inspection is `Acquire`, one `MarkItem` for each entry,
and `Finish` (which commits), or `Abort`. `Crash` ends all requests and leaves
the tables, as MySQL does. Definitions under the comment "A faulty variant" are
used by no specification: they are plausible mistakes, each of which a property
must notice.

What a model says about the database: a single statement is atomic; a locking
SELECT waits for the row and may time out; InnoDB takes the snapshot of a
transaction at its first plain SELECT, which in `Execute` comes after the row
lock, so the transaction sees what was committed when it got the lock; an
UPDATE or INSERT that is answered with an error may be committed all the same
when only the connection broke (`SaveFails`, `ReportFails`, `StatementFails`,
`Remains`; in the pipeline, `Refuse` and `RecordFails`);
AUTO_INCREMENT does not give ids back.

## 3. Runs

| run | shows | instance and bounds |
|---|---|---|
| `incidents_concurrent` | With overlapping requests, failing UPDATEs and crashes: measures go with the status, a 200 shows a row that was stored, a step follows the lifecycle unless some request was overtaken, and the service implements `IncidentVersions`. | One seeded incident without measures (as `seed.go` writes it) and one reported; three requests, two texts. Three requests let one be overtaken by the two-step progress of the others; the texts tell an old version from a new one. |
| `incidents_never_back` | *Violated*: two overlapping assignments; the slower one turns a resolved incident back. | Two workers. |
| `inspections` | One verdict for each inspection, kept for good; the transaction implements `AtomicInspections`; an exact list is explained by its items; a report with a verdict shows that verdict's items; every score is a percentage; every request is answered. | An inspection with two items and one without; lists that are empty, partial, exact with and without a failure, repeated and contradictory, and foreign; two workers, which is one to hold the lock and one to wait, or one to report and one to execute. |
| `rate_limiter` | No window of a minute, wherever it begins, admits more than the limit; nobody is refused before a full capacity was granted. | Two clients, two workers, limit 2, two ticks to a minute, clock up to 5: refills at a whole minute, at one and a half and at two. |
| `rate_limiter_starved` | *Violated*: a client that keeps asking is refused although nothing of it passed for a minute. | The instance of `rate_limiter`. |
| `pipeline` | Only admitted requests write; audit entries are true and single; a write whose success was answered has an entry or is in the error log; one without either is under way, was cut with the process, or was answered as failed although it is committed. | Two requests over eight kinds of route, an admin, a worker or no token, statements that fail before or after their commit, and the server stopped, killed and started at any point. |
| `accounts` | Whoever was told 200 on registering owns the account; tokens are true; the service implements `AccountBook`. | Two workers, two numbers, two ids, two passwords, two roles. Both workers can be registering the same number, and one can update a profile while the other one does. |
| `dashboard` | Lists survive records without one; decisions stand; the rate's two counts are covered by the trainings there are; the month counted is one the request lived in or, when a year ended between the two readings of the clock, that month of the year before. | Two trainings, two workers, one certification, one viewer; a year of two months and a clock from 1 to 3, so that the first month that ends is the last of its year and the second one is not. |
| `startup` | Presets are written once, what a row refers to is stored, under the id the reference names or, if it is a user, under one higher by the number of ids used up before there was any; gaps have a cause, the server comes up. | The sixteen presets of `seed.go` in order; a database that `init.sql` filled to the end of any table; up to three interruptions. |
| `pages` | Inspections: a list that is submitted marks the items of the inspection it is submitted for; who is told of a success has decided the verdict; a list asked for after the filter last changed fits the filter. Incidents: a step the server takes is of the incident, and from the status, the user saw; only an answer to something older than the dialog can put another incident into it. | Two inspections of one item, one row to a page, two pages; two incidents of one severity, one status to select; five requests: loading the page, a changed filter, a dialog, its submission and the list that is fetched again make five. Two at a time are enough to overtake each other. |
| `lists` | A row that belonged to the list all the time and that a walk never shows let one in front of it leave, or one come in between a COUNT and its SELECT, or ties with another; a row shown twice had one arrive in front of it, or ties; the rows of an answer go with its total, but for those that moved between the COUNT and the SELECT. | Three rows, three sort keys (so that rows tie, precede and follow), pages of one row: every row is a page border. |
| `profile` | The name of one user never gets into the profile of another; a save sends what was typed or uploaded on this page, or was in the row since the page was opened; a picture in use is whole and its owner's, unless its name was given twice; a session ends by logout, by another login that succeeds or is refused, or by a 401 - to a request of an earlier session, or because its own token has expired. | Two users, two names to choose, two files, four requests, two at a time: a request of an old session, the login of the new one, what it fetches, and one more. Symmetric in users and files. |

The two violated properties say what a document of the repository says, and are
the findings of `PROJECT.json`: the lost update of incident transitions and the
starved client.

**Seen on the way**, without a run of its own. What follows is in the models
as the code has it, and a property would only restate it.
- The pages format dates as `YYYY-MM-DDTHH:mm:ss`, without the zone that
  `time.Time` wants from JSON: every plan, report of an incident and training
  they send is answered 400 (`ServeCreate` and `ServeReport` refuse).
- A list of one passed entry completes an inspection of any number of items:
  the verdict is that of the list (`ExactListIsExplained` says when it is also
  that of the items).
- Recording only a sign-in list sets the pass rate of a training back to zero.
- `handler` ignores the error of binding a `PageQuery`: `max=200` is checked
  and the page size used all the same; only `Normalize` changes it.
- Each of the two selections of the incidents' page replaces the whole filter
  (`setFilters({ severity })`, `setFilters({ status })`): the other one is
  dropped, while its box still shows it (`Select` allows one at a time).
- A write answered 200 may leave no audit entry: the entry is a statement of
  its own, and when it fails only the error log knows (`GapsAreKnown`).
- A write that is committed although its statement returned an error is
  answered 500, and `AuditLog` passes over what failed: it is in neither log,
  although README.md:172 says that writes are recorded automatically.
- Ids used up by the INSERT of the first user shift those of all users, so the
  presets that name users by number name the wrong ones (`ReferencesHold` says
  by how much, and that nothing else is off).

**Bounds.** `MaxTime`, `MaxMonth` stop the clocks, `MaxInterruptions` the
interruptions, `MaxRows` the rows that are ever in a list; `MaxSent` is how
many requests a page sends in all, `MaxPending` how many of them are under way
at a time; the rest are sizes of constant sets.
The requests of the pages are the bound that matters: with four a profile can
be fetched in one session and arrive in the next, with five on the other pages
a dialog can be overtaken. `ProfilePage` also holds with five requests and a
single file name (16 million states), which is too long for a run. Requests are
sent at most once in `RequestPipeline`, any number of times elsewhere. Symmetry
is used for workers and for ids, numbers, users, files or clients that play the
same part, in runs without liveness properties only.

**Deadlock** is checked everywhere but in `startup`, where a server that serves
has nothing left to do once the interruptions are used up, and in `pages`, which
rest when all requests they may send are answered. The page of the profile
never rests: its user can always leave it and come back.

**Fairness.** `Inspections` assumes weak fairness of what a request *already
under way* does next (`WF_vars(Proceed(w))`): its actions begin when the body is
bound, so nothing in them waits for a client; goroutines are scheduled, and a
statement returns - with its result, an error or, if it waits for a row lock,
the lock wait timeout. Nothing is assumed of clients, crashes or who gets a
lock: a request that never gets it is answered because its SELECT fails in the
end, and without that action `RequestsAreAnswered` does not hold. `Startup`
assumes weak fairness of `Run`: `restart: unless-stopped` starts the container
again, and `main` runs on. The other modules state no liveness. In particular
`RequestPipeline` does not say that a request ends: `main.go` sets no timeout
for reading or writing, so one whose client sends half of its body stays in the
handler's binding until the process ends.

## 4. Proofs

The theorems hold for every value of the constants, under the named
assumptions of the modules.

**Incidents** (assumptions `TextsAssumption`, `SeedAssumption`). The properties
of the current row are not inductive: an overtaken request may write the
successor of any row the incident ever had. `IInv` therefore speaks about the
history: a worker holds a row that really was there, in the status its
operation insists on (`HeldAreVersions`), and every version has the version it
came from beside it (`VersionsAreLegal`). From it follow `TypeCorrect`,
`MeasuresCorrect`, `ClosedCorrect`, `AnswersCorrect`, `ClosedCorrectAtRest`, and
step by step the refinement `RefinesVersions`. Where no request
holds an old copy, what it writes is the successor of the row itself
(`FreshStep`): hence `FollowsLifecycle`. `SerialImplementsLifecycle` adds that
with a single worker what it holds is always the row itself, and refines
`IncidentLifecycle`; no run checks that, for the theorem says it all.

**Inspections** (`RequestsAssumption`, `FloatShortAssumption`,
`NoOneAssumption`). `IInv` is types, `LockIsOwned`, a loop invariant
(`LoopInv`: the inspection is open, its counts are those of the entries passed
so far, each mark is the last one submitted or the one that was there) and
`ReportInv` (half a report that began with a verdict still agrees with it).
`TypeCorrect` contains that every score is a percentage, whatever the rounding
of doubles does; `LockCorrect`, `ReportCorrect`, `VerdictCorrect` follow, and
`RefinesAtomic`: at the end of the list the loop has computed what
`AtomicInspections` says of the list as a whole. `ExplanationCorrect` goes on
from the loop invariant: an exact list is a bijection between its entries and
the items, so the entries of a mark are as many as the items that end up with
it (`EntriesAreItems`), and no rounding makes a full score of an incomplete one
or the reverse (`FullScore`).

**RateLimiter** (`LimiterAssumption`; in `RequestPipelineProofs`). `LimiterIInv` adds to the types that admissions
are numbered (`Serials`), that what was granted in the minute before the last
request and what is left in the bucket stay within the capacity (`Burst`), and
`AtMostPerMinute` for every window (`Windows`). A refill needs a whole minute
of silence, so it finds an empty minute behind it: that is the step on which
the proof turns. `LimiterTypeCorrect`, `LimitCorrect` and `TokensCorrect` follow.

**RequestPipeline** (`UsersAssumption`, `RolesAssumption`). Where a request is
in its chain says what it has passed. `IInv` says so of every request
(`Sound`): on the way in who the context takes it to be from and which roles
let it in (`Holder`, `PassedLayers`); on the way back whether what it wrote is
committed and whether its entry is made (`WentThrough`, `Committed`,
`Recorded`). `WritesCorrect`, `AuditCorrect` and `GapsCorrect` are read off it;
the step on which the last one turns is `Return` past the audit layer, which a
committed write that did not fail can only take with its entry, or the error of
its entry, behind it. A handler that fails may have committed what it wrote
(`RefuseInv`), and an entry whose INSERT fails may be there (`EntryInv`).

**Accounts** (`BlankAssumption`). `IInv` adds to the types and the properties
that numbers are unique (`PhonesAreUnique`) and that a row a request holds has
the number, the password and the role of the stored one (`HeldRowsAreTrue`):
nothing but a profile update ever writes a row again, and it leaves these
alone. So a book indexed by number can be read off the table (`BookOf`), a
profile update leaves it as it is, and `RefinesAccountBook` follows, with
`RegistrationCorrect`, `TokensCorrect` and `PhonesUnique`.

**Dashboard, Trainings, Certifications** (`ClockAssumption`,
`TrainingsAssumption`). Trainings are never deleted and keep their month, so
what was counted stays covered by what there is (`CountIsCovered`, `FiguresCovered`); what a record holds has the
month of its row (`HeldMonths`). `MonthsCorrect` needs what
the first reading was (`ClockIsAhead`) and a calculation on the calendar: the
month of the second reading, put into the year of the first, lies between the
two readings, or does so a year later (`MonthRead`). `DecisionsCorrect`
and `ListsCorrect` are action properties of the same invariant.

**Startup** (`PresetsAssumption`, `ReferencesAssumption`: a preset refers to
presets before it, by their places in their tables, as those of `seed.go` do).
Whatever was interrupted, the stored presets are the first n of them
(`Prefix`), the seeding stands right behind them, and what is neither nothing
nor all was cut: `SeededOnceCorrect`, `GapsCorrect`. `ReferencesCorrect` needs
to know every id (`IdsAreAhead`): a row's id is the place of its preset in its
table, and only those of the users can be ahead of that, all by the same
number k, because only before the first user is stored does a failed INSERT lead
to a new attempt, and k is at most the number of interruptions, each of which
uses up one id or none. Places are cardinalities, so no induction is needed.

**Lists** (`ListsAssumption`; in `PagesProofs`). While a page is between its
COUNT and its SELECT, the total is right on each side that nothing has moved to
since (`CountIsRight`): `TotalsCorrect`. For what a walk hides and repeats,
`WalkIInv` counts the rows in front of a row (`Front`): one not yet read has at
least as many as the pages so far (`UnreadIsBehind`), one that was counted has
fewer than were counted (`CountedIsInTotal`), one that was read has fewer than
its page and those before it (`ReadIsInFront`) - each unless a row on the
wrong side moved, or the row ties. `SliceOrder` says what OFFSET and LIMIT cut
out in these terms. `HiddenCorrect` and `RepeatedCorrect` follow. The proof
sharpened the second property: that a row left and came back does not, by
itself, let a walk repeat it.

**InspectionPage, IncidentPage** (`PagesAssumption`; in `PagesProofs`). A page
keeps nothing of a request but what the closure behind its `await` has, so
`IInv` is about the requests on their way as much as about the page. Of the
inspections: an answer about one has its items (`DetailsFit`); whatever was
asked for on account of something after the last change of the filter has that
filter (`FreshListsFit`); who will be told of a success has decided the verdict
(`VerdictsAreTheirs`). Of the incidents: a step on its way is one of the detail
it was clicked on (`StepsFit`), and the details asked for since the dialog was
opened are of its incident (`FreshDetailsFit`). Requests are numbered, and that
order is what "since" means; it is no assumption on the order of the answers.
`TypeCorrect`, `SuccessCorrect`, `FilterCorrect`, `StepsCorrect` and
`ShownCorrect` are parts of `IInv`.

**ProfilePage, Uploads** (`ProfileAssumption`: the users are among the owners of
files). The argument goes through tokens: each request has the one of the
session it was sent in, and what it carries, or its answer brings, is of that
token's user (`Attributed`); who waits for an answer on the page waits in the
session that asked (`Awaited`), because logging in and out leaves the page; so
what the form holds is of the session's user (`PageOK`). An open file has one
writer, or its name was given twice (`WritersAreAlone`), and until it is
answered its address is nobody's: `AvatarsCorrect`. `ProfilesCorrect` and
`SavesCorrect` are parts of `IInv`; `SessionsCorrect` is an action property
that needs of it that a refusal means a missing or an expired token.

**Proved and no longer run:** the type invariants of `Incidents`,
`RateLimiter`, `RequestPipeline`, `Accounts`, `Dashboard`, `Startup` and
`Lists`, `ClosedWasResolved` and `ClosedAtRestIsFinal` of `Incidents`,
`LockIsOwned` of `Inspections`, `PhonesAreUnique` of `Accounts`. They were
model-checked before they were proved, and a theorem says what a run would, for
every instance. The inductive invariants were model-checked first, too.

**Only model-checked.** Of the properties of the passing runs, the two of
liveness: `RequestsAreAnswered` and `ServesInTheEnd`, which are beyond TLAPS
here. Every invariant, action property and refinement they check
is stated by a theorem.

## 5. Abstractions and limits

- Columns that no check and no write depends on are left out: titles,
  descriptions, areas, photographs, remarks. `measures` stands for the measures
  and the deadline, which are always assigned together.
- `RateLimiter`: `admitted` starts afresh with the process, as the map does, so
  the limit is one for each run of the server. That the map never shrinks is
  listed as a hazard and not modelled.
- `Accounts`: a password is compared as such; that bcrypt separates different
  passwords is assumed. `logins` records what each token was granted for.
- `RequestPipeline`: which requests the limiter passes and when a token expires
  are free choices; so is whether a handler fails, and whether what it wrote is
  committed then. Recovery and ErrorHandler act on panics and on `c.Error`,
  which no handler uses; RequestID and RequestLogger decorate; a preflight
  OPTIONS request ends in CORS. The five seconds of grace are a free choice
  between `Shutdown` and `Die`.
- `Inspections`: double arithmetic is `FloatShort`, the set of quotients that
  fall below a whole percentage. The two inspections of the seed are left
  out: one is final from the start with figures of its own (completed,
  although an item did not pass), the other one is like one created without
  items. The `remark` and the photograph go with the mark.
- `Trainings`: the pass rate is 0 for "none"; decimals are left out.
  `Record` treats a rate that is left out of the request as 0, which is what
  the binding makes of it.
- `Dashboard`: of the figures the completion rate of trainings is modelled. That
  of inspections is computed from the same kind of double reading and double
  count; the lists are single reads.
- `Startup`: what `init.sql` writes differs slightly from `seed.go` (a third
  certification, an audit entry, measures of the incidents); the model writes
  the common part. AutoMigrate leaves what is there.
- `InspectionPage`: an execution is one step of the server, as proved of
  `Inspections`; the executions of other clients and abandoned requests of the
  page look alike to it (`Elsewhere`). A refusal, a broken connection, a lost
  answer and the timeout all reject the promise (`Rejected`). `Create` ends in
  a rejection, so what stands behind its `await` never runs. The query of a
  list is answered at one moment, although the code counts and then finds; the
  total, the page size and the status `in_progress`, which nothing assigns, are
  left out; so is the doubled effect of React's strict mode in development.
- `Lists`: the six lists of the repositories are the same code but for the
  column they sort by, which no UPDATE changes; a row that is updated may leave
  the filter or come into it. Rows within a page are a set. The server's
  `Normalize` is the bound on the page size; a page number whose OFFSET
  overflows is left out. A walk ends with a request that fails, whereas the page
  keeps the list, total and page number it has: walks that go on after a
  failure are not modelled, nor is a page size that changes within a walk.
- `Pages`: leaving a page and coming back is one step of that page (`Return`);
  that the other one is on show in between is not modelled, for the two share
  nothing but the session.
- `IncidentPage`: an operation is one step of the server, as proved of a single
  worker; overlaps are the subject of `Incidents`. Another client's steps are
  `Elsewhere`. The report form is its request, refused for the date. Pages of
  its list are turned as on the inspections' page.
- `ProfilePage`: the profile update is one step of the server (its overlaps are
  in `Accounts`); the name in the header, which is that of the login and is
  never brought up to date, is left out. A name stands for everything that is
  typed in the form. The server stores any text as an avatar; that other devices
  store only a whole picture of their owner's or the one they have (`Entered`)
  is an assumption about clients, of which this page is one and is shown to
  keep it.
- `Uploads`: extension and size are checked before anything changes and are
  left out; a name is what the clock gives, so any name may be given again. A
  copy that ends without an error is taken for whole: `SaveUploadedImage` does not
  look at the error of closing the file, so a file system that reports a failed
  write only then is left out.
- Not modelled: the pages of trainings and certifications and of the dashboard,
  which fetch lists and send forms as the pages above do, without dialogs that
  load; components and styles; formatters, loggers, the error type, constants
  and settings, which have no state.

## 6. Plan

Done: the server - incidents, inspections, rate limiter, pipeline, accounts,
certifications and trainings with the dashboard, startup, lists, uploads - and
the pages of the browser that overtake themselves - inspections, incidents,
session and profile. Proofs of every safety property of all of them.

Left, in the order of their worth:
1. Compositions that the proofs now make cheap to state: that the table under
   the two pages is that of `Inspections` and `Incidents` rather than of their
   abstract specifications.
2. The remaining pages: the sign-in dialog of the trainings, whose pass rate is
   one state for all dialogs, and the reviewer's list of certifications.

# A formal model of labase.py

labase is the base of a web application: FastAPI processes ("instances") behind a balancer, all on
one Supabase (PostgreSQL with row level security, GoTrue for accounts, Storage for files). It has
no broker, no cache server and no leader: instances coordinate through rows, locks and two
background loops of their own. That is where its difficulty lies, and what these modules are about.

The directory holds TLA+ modules translated from the source, TLC configurations that check them on
small instances, and TLAPS proofs that hold for every instance. `PROJECT.json` maps each definition
to the lines it stands for, and lists the runs, the hazards, the findings and the theorems. Paths
below are relative to `src/`.

Contents: 1. The system. 2. The modules. 3. The runs. 4. Fairness. 5. What is proved. 6. What the
model found. 7. What is not modelled. 8. The plan.

## 1. The system

### 1.1 How it fits together

    browser (cookies) --> handler --> one transaction: rows + a fact in business_events ---- commit
          ^                  |                               |
          '--- answer        |- GoTrue, Storage (in no transaction)
                                                             |
        every instance:  EventListener (a tick = a transaction)
                           | per durable consumer: scan above its cursor, enqueue, advance
                           | spread: hand the fact to this process's in-memory handlers
                           v
                         task_queue  <-- claimed by the TaskWorker of any instance (lease),
                                         handler and consumed_events mark in one transaction
        threads --> log lines  --> LogDrain      --> log_lines (or a day file)
                --> exceptions --> CaptureDrain  --> issues, issue_occurrences (+ facts)
                --> counts     --> MetricsFlusher--> minute and hour rows

Handlers never call another context: they emit a fact, and the contexts that registered for its
kind react in a task. Server-wide settings travel the same way, as facts that every instance
spreads to its own copy. Accounts and sessions live in GoTrue and bytes in Storage, which take part
in no transaction.

### 1.2 The components

| Component | State | Operations | What is hard | What makes it correct |
|---|---|---|---|---|
| **Event journal and listener** (`apps/shared/events`) | `business_events`; per consumer a cursor and a ledger of dispatched facts; per process a spread cursor and the facts applied above it | emit, claim and check, dispatch a consumer's backlog, read and apply spread, tick, crash | transactions commit in another order than their keys; several listeners on one cursor; instances of two releases; a tick that rolls back after it moved memory | no cursor passes an undispatched fact; one task per fact and consumer; every committed fact dispatched and checked in the end; a process applies a fact at most once and forgets only what a failed tick had read |
| **Task queue and worker** (`apps/shared/queue.py`) | rows with attempts, `run_at`, `locked_at`, `done_at`, `failed_at`; `consumed_events`; each worker's claimed batch | enqueue, plant a recurring topic, claim, run, complete, retry, park, purge, stop, crash | a lease that expires under a live handler, so two workers run one row; writes by id alone; recurring chains under a unique index | an idempotent reaction takes effect once; a receipt is true; only spent work is parked; a recurring topic neither forks nor ends; every task lands |
| **Tasks screen** (`apps/tasks`) | none of its own | the backlog, the film strip of what ran | four queries, each with its own snapshot, while workers go on | no recurring topic is lost or misplaced between two queries |
| **Live settings** (`apps/shared/settings`, the console's update) | `app_settings` rows with a version; overrides per organization; each process's copy | update, set and remove an override, boot (seed, read), spread and reload, merge per request, exit | the values in a fact are read before a concurrent edit commits; a boot replays old facts | no update is lost; every running instance ends by serving what is stored; an organization gets what was told of its overrides |
| **Organizations** (`apps/organizations`) | memberships, invitations, versions; the last-owner trigger and the policies | leave, remove, set a role, invite, revoke, accept, forget a deleted user | checks in Python and in the trigger that see only committed rows; a row loaded by the gate and used later | an organization keeps an owner; each departure is told once; an invitation seats one member once; a revoked one seats nobody |
| **Server admins and account closing** (`apps/console`, `apps/auth`, `apps/profile`) | GoTrue's accounts, roles and bans; the advisory lock; facts of deletions; the bootstrap task | grant, revoke, disable, enable, delete, leave, promote the first user | two systems and one lock that covers only some of the writers; writes that land after their lock is gone | somebody can always administer the server; only the first user is promoted, and is not passed over; a closed account and its fact agree |
| **Sessions and sign-in** (`apps/auth`, `apps/profile`) | cookies with access and refresh tokens, a stash, a half-open second factor; GoTrue's sessions | sign up, sign in by password, link, passkey, OAuth, verify a factor, refresh, change a password or an address, enrol, impersonate, return, sign out | concurrent refreshes of a rotating token; answers applied late or never; a commit that fails after GoTrue has opened the session | a sign-in is one fact; a disguise is marked and ends; no race of renewals signs anybody out |
| **Files** (`apps/files`, avatars) | rows, stored objects, share links, a quota | upload, rename, share, delete, seed a welcome file, set an avatar | object and row change one after the other; an owner demoted in between; an organization deleted in between, whose rows go by cascade | bytes and rows agree, while their organization stands; the quota holds |
| **Ordered content** (`persistence/repository.py`, `apps/todo`), **pages and navigation**, **calendar**, **API keys** | rows with positions and versions, facts | add, edit, tick, publish, arrange, delete, revoke | a reorder renumbers what it read while others add and delete; a change that changes nothing checks no version | positions stay distinct; a move lands where it was asked; the journal tells the rows; a visitor reads no unpublished page |
| **Learning** (`apps/learning`) | subscriptions, cards with a level and a next day | subscribe, compose the session of the day, review | a daily limit counted before the write | the limit holds; a reviewed card is not asked again that day |
| **Handles** (`shared/integration/slugs.py`), **organizations' own rows** | handles of profiles and organizations, each unique in its table | check against every list as row security shows it, take; create, rename | check-then-act across two tables | a handle names one thing; the limit of owned organizations holds |
| **Exception capture** (`apps/shared/logs/capture.py`) | per process a bounded queue, a count of shed captures, the failure latch | capture, append or shed, tick, deliver, keep what was refused, report overflow, stop | a storm at the bound; a tracker that is down and raises captures of its own; a stop that cancels a delivery | captures and shed counts are conserved; a storm does not hide another failure; stop leaves nothing; every capture lands |
| **Issue tracker** (`apps/issues`) | one row per fingerprint with status, count and version; occurrences; facts | fold an occurrence (open, count, regress), triage | processes and administrators write one row from what each loaded | counts add up; a resolved issue has been quiet since; the facts tell the status |
| **Log sink** (`logs/sink.py`, `chain.py`), **request log** | a bounded queue of lines, an outage, day files | log, drain, fall back to a file, report, stop, flush at a crash | a drained batch is in nobody's hands while it is appended; the sink reports through its own queue | a line ends in the table, in a file or in a count; what the sink says of itself is true |
| **Metrics** (`apps/metrics`, `logs/loop.py`) | counts in memory, the snapshot flushed last, minute and hour rows | count, flush a delta, roll up, drop the old | a flush that commits and whose answer is lost; a roll-up while instances restart | every exchange counted is in the rows once; each fault of an outage opens one issue |
| **Timeline** (`apps/timeline`) | none of its own | read pages of a list merged from three sources | each source cut at its own newest rows, by an order that is not that of the list, then the merge cut again | pages in order, no row twice, none passed over but what is tied with or overtaken by the end of a page, or kept out of its source's answer by an older row |

The rest has no protocol of its own: the HTTP edge (one atomic upsert per hit of the limiter), the
integration seams (registrations at boot), persistence (its commit and version lock are steps of
every module), e-mail (a task, at least once), health probes and public pages (reads), the scripts
and the browser's scripts.

### 1.3 How the components meet

* A business transaction and its fact commit together; the listener turns facts into tasks; the
  worker runs them. `EventJournal` ends where the task row is inserted, `TaskQueue` starts there.
  `FactDelivery` is the contract between the two: each recorded fact gets one task per consumer.
* Settings use the spread half of the listener: `Settings` takes from `EventJournal` that a
  process reads the committed facts it has not applied, and applies one read in key order.
* Closing an account emits UserDeleted (`ServerAdmins`); organizations react to it by forgetting the
  user (`Membership`, request kind "forget"), and the profile drops its own. Nothing else consumes it: where
  forgetting a user leaves an organization without an owner, it is deleted, and the rows of its files
  go with it by cascade (`ForgetLastOwner` of `FileStore`).
* Creating an organization seeds it: the welcome tasks and pages (`Content`), the welcome file
  (`FileStore`), each in the transaction or task of whoever created it.
* A member's request gets the server-wide values of its process (`Settings`) under the overrides of
  its organization (`OrgSettings`).
* `Telemetry` is one process: `LogSink` and `LoadMetrics` side by side, fed by its exchanges, stopped
  in the order they were mounted, and read back by `Timeline`.
* The capture drain calls the tracker, which is `issues` (`ExceptionCapture` extends `IssueTracker`);
  the tracker's own failures come back as captures.

## 2. The modules

Each component has a module with its CONSTANTS and their named assumptions, VARIABLES, `Init`, one
action per step that another actor can separate, `Next`, `Spec`, and its properties. `...MC` modules
give TLC its constants and constraints, `...Proofs` modules hold the theorems. Operators marked "mutant" stand
beside the definition they would replace: a plausible bug each property must notice.

A step is what runs between two points where somebody else may act: an await on the database, a
commit, a call to GoTrue, a lock released. Uncommitted writes are in a request's own variables
(`draft`, `look`, `verdict`, `image`), and become visible in its commit step.

### FactDelivery
The promise, with no clock or instance: `recorded` facts and `tasks[t][f]`, which goes from 0 to 1
once for a recorded fact that topic `t` wants. `EventJournal` implements it under
`recorded <- Visible` (the committed facts), `tasks <- tasks`.

### EventJournal (`apps/shared/events/listener.py`, `repository.py`)
`tx`, `start`, `mint` are business transactions: a fact's `created_at` is when its transaction
opened, its uuid7 key is minted at the INSERT, so the order of keys is neither the order of
`created_at` nor that of commits. A listener's tick is `BeginTick` (claim_unchecked, SKIP LOCKED),
one `Dispatch` or `SkipTopic` per durable consumer it carries (lock the cursor row, scan, enqueue
what the ledger lacks, advance over the settled prefix), `ReadSpread`, `CommitTick`, then
`ApplySpread` outside the transaction. `TickFails` rolls the database back and keeps the memory
the tick has moved, as the code does (`missed` records what it had read); `Crash` also empties the memory. `Carries` differs per
process, which is what a rolling deploy is. One fact per business transaction; NOTIFY only shortens
the wait between ticks, so it is left to the scheduler.

### TaskQueue (`apps/shared/queue.py`)
Rows, with time as countdowns and saturating ages so that the state stays finite without stopping
the clock. `Claim` takes a batch under one lease in a transaction of its own; `Take`,
`HandlerCommits` or `HandlerRaises`, `Complete`, `EndingFails`, `Retry`, `Fail` follow for one row
after the other, each addressing its row by id alone, whoever holds it by then. `EndingFails` is the
statement that ends a row refused by the index, or lost with the database: the tick ends, the batch
stays locked. The idempotent
wrapper's `consumed_events` mark commits with the handler. `Stop` and `Crash` leave the claims in the
table. `Boot` plants recurring topics under the partial unique index, which `Complete` also meets.

### TaskScreen (`apps/tasks`)
`TaskScreen` EXTENDS `TaskQueue` with the lines that failed tries leave and one page in the making:
`ListBacklog`, `ReadClocks`, `ReadTries`, `ReadRuns`, one query a step, while the queue goes on. `Lanes`,
`RecurringLanes`, `OneShotLanes` and `Stacked` are what the page shows of them. A row parked after its
topic had a clock leaves the clocks, so its tries are drawn among the one-shots: `NoTopicMisplaced` says
that this is the only way there. The state "retrying" is also that of a first try under way, as in
the code.

### Settings, OrgSettings (`apps/shared/settings`, `apps/console/infra`)
An edit is `Read`, `Flush` (the UPDATE under the version lock), `ReadValues` (the image the fact will
carry), `Record` (the key is minted), `Commit`, or `Rollback`. An instance is `Boot` (seed, read;
either may find the database down, and the app runs on defaults), `Fetch` and `Reload` (whole-image
replacement in key order), `Exit`. `OrgSettings` EXTENDS it with the rows of overrides: `SetOverride` or
`RemoveOverride` reads one, `CommitOverride` writes it under its version and tells its fact (also when
nothing changed), `DeleteOrg` cascades. No process keeps a copy; `Merged` and `Given` are what a request
of a member, or of anyone, gets.

### Membership (`apps/organizations`, its migration)
A request is `Arrive` (the gate's SELECT, which loads the caller's row), `Check` (Python's checks on
loaded rows), `Issue` (the statement's snapshot, what the policies say), the statement itself
(`Delete`, `SetRole`, `LockInvitation` then `Seat`, `Invite`, `Revoke`, for the worker `Remain` and
`Drop`), which waits for row locks and meets the trigger, then `Commit` or `Fails`.

### ServerAdmins (`apps/console`, `apps/auth/infra`, `apps/profile/infra`)
GoTrue's state apart from PostgreSQL's. A request is `Ask`, `Acquire` (the advisory lock), `Decide`
(a fresh list of admins), `Write` (GoTrue), `Commit`; in between it may be refused, cut off with its
write still under way (`Sever`, then `Land` or `Vanish`), or fail to commit. `Enable` and the
bootstrap of the first user (`List`, `Promote`, `PromotionRefused`, `Redeliver`) take no lock.

### Sessions (`apps/auth`, the security handlers of `apps/profile`)
GoTrue's sessions with the generation of their refresh token, each browser's cookies (`jar`), and the
answers on their way (`wire`): the cookies each sets, laid `Over` the jar's in any order (`Deliver`) or
lost (`Lose`). A handler is one
step: it reads the cookies of its request, calls GoTrue, and its commit succeeds, so that the answer
leaves, or fails, so that no cookie does though GoTrue has done its part; tokens GoTrue has then
outdated are of no more use to the browser, nor is an answer on its way that carries them (`missed`).
`Rotate` is the renewal that
any request with an old access token performs; GoTrue takes the last token and the one before. A
disguise is a session by `Impersonate` beside a stash with the admin's own; `Covered` says that another
disguise was put on over a session. A challenge may be answered by several codes (`MaxCodes` bounds
them).

### FileStore (`apps/files`, the avatars of `apps/profile`)
A request reads and checks (`UploadCheck`, `DeleteCheck`, `RenameCheck`, `ShareCheck`, `SeedCheck`), then calls
Storage (`UploadObject`, `RemoveObject`, `MoveObject`), then writes its row and commits (`InsertRow`,
`DeleteRow`, `RenameRow`, `ShareRow`), meeting the version lock and the policy by then; `CommitFails` leaves
Storage as it is. `Demote` takes an owner's rights in between. `ForgetLastOwner` is what the clean-up of a
deleted account does to an organization that has no other owner: it deletes it, its rows of files go by
cascade, and their objects stay (`gone` keeps whose they were). From then on the policies of Storage and of
the table permit nothing there (`Permitted`); no request that was under way brings a row back.

### Content (`apps/todo`, `apps/pages`, `apps/calendar`, `apps/api_keys`, `apps/learning`, handles, organizations)
Every handler of these has the same shape, so there is one: a request opens with the rows it read
(`seen`), the rows it would leave (`plan`) and its facts, and `Write` commits those it changed, refused
(409) when a changed row has moved, or `Fail` drops it. Only the addition of a task has a step before: it
counts (`CountTodos`, in `counted`), and reads the list in a second statement (`AddTodo`), which may be longer by
then. What differs is what each computes: `Reordered` and
`Prepended` for positions, `LastPlace` for the navigation, `RoomForTask`, `RoomForReview`, `Owned` for the
limits, `Scheduled`, `Due`, `SessionOfDay` for the cards, `Available` for handles, which sees through row level
security only some of the holders (`Sees`). `ReadAs`, `ListedPages`, `ViewedPages`, `NavPages` are what a
role is shown.

### LogSink, LoadMetrics, Timeline, Telemetry
`LogSink`: the bounded queue, the drain (`TakeLines`, `AppendLines` or `AppendRaises`, `WriteFiles` or
`FilesRaise`), the reports that the sink queues of itself, `StopDrain`, `CrashFlush`. `LoadMetrics`: `Observe`,
the flusher (`BeginFlush`, its commit with an answer or without, `StopFlusher`), the verdict of its loop,
`RollUp`. `Timeline`: `Asked` (each source's last rows up to the cursor, by its own `key`), the merged page, `OffersMore`.
A fact has two times, that of its transaction's start, by which it is listed and cut, and that of its id,
by which its source limits what it answers (`Committed` gives both, in any order between two facts).
`Telemetry` composes the three into a process that serves exchanges, starts, stops in the order of
mounting, crashes, is killed and replaced; `Timeline` is instantiated over the stored lines and facts.

### IssueTracker, ExceptionCapture (`apps/issues`, `apps/shared/logs/capture.py`)
`IssueTracker` has the rows and the triage request (`LoadIssue`, `SetIssueStatus`, `TriageFails`), and
the computation of one more occurrence, with its fact. `ExceptionCapture` extends it with each
process's queue: `Capture`, the drain's `StartTick`, `Pop`, `Look` (the tracker's SELECT), `Delivered`,
`TrackerFails`, `AnswerLost` (the commit landed, its answer did not), `Keep`, `EndLoop`, and `Stop`, which
cancels the task and runs two more ticks. A capture is a member of `Kind`; `PrintOf` and `ShedKey` give
the two keys the code derives from it (the fingerprint of five frames, the shedding key of one).

## 3. The runs

Eleven runs pass and one exhibits a disagreement; `PROJECT.json` lists their properties and, for each, a
mutant of the code that breaks it. With two workers they take from half a minute to three and a
half minutes.

| Run | Instance | What it shows | Why it is large enough |
|---|---|---|---|
| `journal` | a rolling deploy: 2 listeners of which one carries only one of 2 consumers; 2 facts, one also spread; Batch 1, one crash or rollback, fair | no cursor skips, no spread twice, none forgotten but what a failed tick had read, every fact handled, refinement of `FactDelivery` | the listener that cannot dispatch a fact may check it first; two ticks meet at one cursor; a batch of one makes a claim block what is behind it; both transactions are open at once, within one instant: `Settle` and `MaxTx` are 0, so what a fact's `created_at` and key do to the settle window is the theorem's to say |
| `queue_tasks` | 2 workers, 2 rows (one ledgered), 2 attempts, Lease 2, one crash, stop or lost database, one worker without a handler, fair | one effect, true receipts, every task lands | a lease can expire once per attempt, so two workers run one row in every order |
| `queue_recurring` | 2 workers, 1 recurring topic, 3 row ids, one crash or lost database; pages of the screen | the chain neither forks nor ends; the screen does not lose the topic | three ids hold the row, its successor and a done one the purge takes |
| `settings` | 2 edits of 2 keys, 2 instances, 2 faults; 2 requests on the overrides of one organization | no lost update; processes end fresh while edits do not overlap; an organization gets what was told | two edits of one key or of two, before, during and after each boot |
| `organizations` | 2 users, 1 invitation, 3 requests, 2 open at once, 1 failure | an owner kept unless raced, departures told once, seats once, revocation final | two requests of every pair of kinds, with a third before or after |
| `server_admins` | 2 users, 2 requests at a time, 2 faults | an acting admin, one founder, nobody passed over, deletions told, outside the named interleavings | each pair of removals, with a promotion in between; requests repeat without bound |
| `sessions` | 1 browser, an admin and a user, 2 sessions, 2 answers on their way, a window of 2 ticks, 3 ticks | one fact per sign-in, disguises bounded, no one signed out by a renewal | two requests of one browser renew at once and are answered in either order; a disguise outlives two access tokens |
| `files` | 2 requests, 2 members, 2 files, 2 names, quota of 1 | bytes and rows agree; the quota | every pair of operations on one file, with a demotion, a failed commit or the end of the organization in between; one upload fills the quota |
| `content` | 2 requests at once, 3 items per list, 3 handles (one reserved), a limit of 2 tasks, the others 1, 2 writes | positions and handles unique, limits, moves, journal | a move past an item that another request removes, adds or moves; a third item tells a move from a swap; with a limit of 2 and lists of no, one or three tasks at first, an addition is counted with room on a list that is not empty, and another commits before it reads |
| `capture_issues` | two scenarios chosen in `Init`: a storm of 3 beside another failure in a queue of 3, 2 faults, a stop; and two processes of two releases with two verdicts on one issue, 1 fault | conservation of captures and of shed counts, a storm hides nothing, stop leaves nothing, counts and statuses through races, every capture lands | the queue overflows with one capture of each kind and with the tracker's own failure; every order of two folds and two verdicts |
| `telemetry` | 2 processes one after the other, a queue of 2 lines, 3 exchanges, 2 failures, 3 minutes | lines accounted, reports true, counts add up, pages in order | the queue overflows with a report of itself; a flush is lost on either side of its commit, a roll-up follows, then a new instance; a page with rows of two sources, a row passed over between its end and the next, and three facts of overlapping transactions; after two failures no fault of the flusher comes back behind another one, which the theorem covers |
| `timeline_paging` (violation) | pages of 2, 4 rows that arrive one by one | there are older rows and no button for them | the fourth row is the one below the second page |

Bounds are named in each module or cfg: `MaxTime`, `MaxFaults`, `MaxCrashes`, `MaxOpen`, `MaxWrites`, `MaxCodes`,
`Budgets`.
Attempts saturate at `MaxAttempts`, ages at an expired lease, `effects` at 2, which is enough to be seen
breaking a property that allows 1. Some runs follow a part of the behaviours only (CONSTRAINT), each
time to keep apart what does not meet:

* `queue_recurring` (`Watched`): a page is made once a try has failed, one worker runs meanwhile and one row
  lands at most; the retention of done rows outlasts the making of a page.
* `settings` (`Apart`): overrides are written with no edit open, and read by one instance that never fails.
* `sessions` (`InScope`): mailed links, passkeys and OAuth within one tick, disguises over time; not both.
* `files` (`InScope`): files or avatars, and one torn file.
* `content` (`Scopes`, `Edited`): the kinds that one request can touch together make a behaviour; of the three
  pages two are edited, all three are arranged.
* `telemetry` (`Together`): an admin reads, and a third exchange comes, while nothing is flushed, failed or
  stopped; so do transactions that overlap, of exchanges that all record a fact and before the drain has
  taken a line; time passes and flushes fail where the drain has taken nothing, and no line falls
  out of the queue once a minute has passed; the second process
  follows one failure at most.
* `capture_issues` (`Alone` in `ExceptionCapture`): once the faults are spent, a row is loaded by one at a
  time, since a lost race is itself a failure of the tracker.

Symmetry is over requests, users, rows, workers, files and names that are alike and appear in no
CHOOSE, and never in a run with liveness properties. Deadlock is checked in `journal`, `queue_tasks` and
`queue_recurring`. It is unchecked where behaviours end because their bounds do.

## 4. Fairness

* `EventJournal!FairSpec`: weak fairness of each listener's tick. The loop polls after an interval
  whether or not a notification came, and guards each tick, so an exception does not end it.
  Business transactions and faults owe nothing: a transaction may stay open and no fact is promised
  before it commits.
* `TaskQueue!FairSpec`: time passes; each worker keeps working (its loop is guarded, a handler
  returns or raises, a dead process is started again by its supervisor). The purge is fair only
  because it gives the model its row ids back.
* `Settings!Spec`, `OrgSpec`: an open edit ends; the listener of a running process ticks, which is what
  `EventJournal` shows of `spread`. Edits and boots owe nothing.
* `ExceptionCapture!FairSpec`: the drain of a process keeps running and an open triage request ends.
  Captures, faults, stops and verdicts owe nothing, and faults are finitely many: the tracker's
  database comes back.
* The other modules state safety only: a handler that is not finished owes nothing, since its client
  may go away and its process die.

## 5. What is proved

The proofs hold for every value of the constants that the named assumptions allow: any number of
facts, topics, instances, rows, workers, users, requests, keys, faults. None assumes fairness.

**EventJournalProofs.** `TypeCorrect`. `ExactlyOneTask`: the ledger row and the task are one draft, and the
cursor row's lock admits one draft per consumer. `JournalImplementsDelivery`: the commit of a tick is
a `Deliver` step (the ledger excludes what was delivered), the commit of a fact is `Record`, all else
stutters. `NothingIsSkipped`, the main one, `ASSUME 2 * MaxTx <= Settle`. `CursorNeverSkips` is not inductive:
it must be known that nothing surfaces below a cursor later. `WindowInv` adds that a key is minted at
most `MaxTx` after its `created_at` (`Dated`), that a cursor and a drafted cursor stand at facts created
more than `Settle` ago (`IsSettled`), and that a draft holds what its cursor passes. A
fact about to commit opened at most `MaxTx` ago, so its key is at most that old; the key a cursor
stands at was minted at most `MaxTx` after a `created_at` more than `Settle` old, so more than
`Settle - MaxTx` ago. With `2 * MaxTx <= Settle` the first is always above the second.
`SpreadIsNotRepeated`, under the same window, says the like of a process's memory: its cursor too stands at
a settled fact, and what it has marked as applied it has taken, or had read in a tick that failed
(`MarksAreTrue`). It does not say that each fact is spread: after a rollback some are not (6.1.4).

**TaskQueueProofs.** `TypeCorrect` (with `WorkerInv`: a busy worker holds the row it processes).
`AtMostOneEffect` and `ReceiptsAreTrue`: the consumed mark counts the effects because it commits with
them, and a worker about to complete has seen a committed run; neither needs the lease.
`ParkingIsHonest`: a claimed copy never counts more attempts than its row (`ParkInv`), however late.
`RecurringGoesOn`: a planted topic has one open row, or none and a parked one (`RecurInv`); the step that
could break it is `Complete`, which ends a row and plants the next under the index in one
transaction. `TopicsKeepTheirPlace`, of the screen: each topic a page is bound to show is open yet, or was
read, at each of its four queries; one without a clock had its last row parked (`PageInv`).

**SettingsProofs.** `TypeCorrect`, `NoUpdateIsLost`: whoever holds a row's lock read the version stored, and no
other holder exists; a seed waits for an inserting edit. `CaughtUpIsFresh`: an instance that has applied
every committed fact serves what is stored, unless two edits overlapped. While they do not, facts are
committed in the order of their keys (`InTurn`), the fact with the highest key carries the rows as
stored (`Imaged`), and it is the last that an instance applies (`InOrder`). `OrgsAreServed`: the last fact
told of an override gives its row (`OverridesTold`), because `CommitOverride` writes both under the
version. `NoUpdateIsLostWithOverrides` carries the second theorem over to `OrgSpec`.

**ServerAdminsProofs.** `TypeCorrect`; `AnActingAdminRemains`. The invariant: whoever decides holds the lock
(`LockHeld`); before the first promotion there is no role, token or ban and nobody can ask for
anything but to leave (`Founded`); an acting admin
remains (`Kept`), and a removal about to be written still leaves another one (`Spared`). `Spared` is
preserved by the bootstrap because promoting only adds, and by other requests because they have no
lock; both fail exactly when a promotion crosses a removal or a write outlives its lock, hence
`Orderly`. `TheFounderIsTheOnlyOne` rests on it: an acting admin remains for later bootstraps to see.
`NoUserIsPassedOver`, `DeletionsAreTold` (where each account is, between GoTrue's write and the commit).

**OrganizationsProofs**, of the roster. `TypeCorrect`. Under the others lies `LInv`: no two requests hold one row, and an open
request holds every row its draft will change, so nobody else commits to it. `AnOwnerRemains`: `Safe`
says that the open drafts that end an ownership all end the same one (hence are one draft, which holds
the row) and that another owner stands, the one the trigger saw; nobody can be ending that one, so a
commit leaves it. Two drafts ending two ownerships is `raced`, the case the code's trigger misses.
`OneSeatPerInvitation`, `RevocationIsFinal`: who is about to seat holds the row and it is pending; the commit
that seats leaves it accepted for good. `EveryDepartureIsTold`: a draft that ends a membership was written
over one (`Fit`) and holds it, so each commit adds one request to one side of its user's balance.

**OrganizationsProofs**, of content. `ContentTypeCorrect`, `JournalAgrees`, `MovesLandRight`, `NothingTwiceUnlessRaced`,
`LimitsAreKeptUnlessRaced`. Some thirty operations begin a request, but what they leave of their list takes
eight forms (`StepForms`): a task put first, a list rearranged, a row edited or created, a page seeded with its
place, a place added, a card reviewed, a name taken. The rest of the proof speaks of these forms and of
`Write` alone. Under all lies `VInv`: a row whose version is the one a request saw is the row it saw, because
every write gives a version that no row had. `KInv`, for the journal: a row is created by at most one request
and told once of its end, and what was told last is its value. `MovesLand`: a renumbered list has the item
just above the named one (`ArrangedPlaces`); rows that the request leaves alone kept their places.
`PlacesInv`, for positions: as long as the version lock would let a request write, it has seen every row of
its list, and the places it gives out are places its rows had, or the first, or one past the last; so they
are not those of another's rows. It holds only while no two requests add the first task, or one adds to
the navigation and another adds or rearranges: nothing makes these two write one row, hence `overlapped`. `NamesInv`: a
handle about to be taken is still held by nobody, unless two checked it or the check was blind. `CardsInv`
and `OwnersInv`: who was counted in still has the room it was counted in. An addition of a task is the exception: its
count is of an earlier moment than its list, so its room is that of the list it read unless the list has
grown between (`LateCount`), which the property names. The counting arguments replace
an induction over lists: the place of an item is the number of those before it (`Index`), and numbers of
members of finite sets are compared by the cardinality theorems of the library.

**SessionsProofs.** `TypeCorrect`, `SigningInIsToldOnce`, `DisguisesEnd`, `NobodyIsSignedOutByARace`. Cookies are in a
jar or in an answer that will be laid over one, so each part of the invariant is said of both: of the
jar, and of the jar as each answer would leave it. `KeptInv`: every token names a session, told of as
often as its sign-in demands, in pairs of one session, of a generation that GoTrue has reached. `OwnInv`: no
session is in two browsers' hands, so another browser's handler does not touch mine. `FateInv`, while
nothing was applied late: a disguise ends by its window and its stash is who put it on, and answers on
their way carry what is newest. `UseInv`, while nothing was applied late or lost either: GoTrue still
takes every refresh token held. Sessions only move forward (`Evolve`: no session is reopened, renamed or set
back), which lets one lemma carry all four over any handler. A handler then differs by two things only:
how it moves its session, and whether it sends cookies (`Sends`) or none (`KeepsSilent`).

**FileStoreProofs.** `TypeCorrect`; `StoreMatches`; `QuotaKept`. Storage is called before the row is written, so a
file's bytes and row disagree in between by design; `BytesFit` says by how much, given which request
has called Storage and not yet written. A request knows the row it was checked against and only a
higher version replaces it (`RequestsFit`), so of two changes of one file one is refused, and leaves it
torn; an id is given once and worked on by its upload alone until its row stands (`IdsFit`). Once the
organization is deleted no row comes and no call to Storage is permitted, so a request that was under way
leaves its file torn, and of every other file the bytes lie where its last row said, for good (`gone`). The
quota needs that an upload checked but not yet inserted counts already (`Coming`): two of them is `raced`.

**LogsProofs**, of captures. `ResolvedIsQuiet`, `TheJournalTellsTheStatus`. Whoever has loaded a row holds the
committed one or an older version of it (`AsOf`), and a version never names two rows since every write
moves it: a write that finds its version was computed from the row it replaces. Nothing is assumed of
the queue: the two hold whatever the drains do. `TypeCorrect` and the books of one process, each kept by
its own steps and left alone by another's: `CapturesAccounted` (raised = queued, in hand, folded, shed or
cut), `KeysSurviveStorms` (the queue has more places than there are shedding keys, so when it is full
some key is there twice, and the victim shares its key with another capture), `StopIsClean`. `CountsAreExact`:
an issue's count is the sum, over processes and kinds, of what they folded. No induction over the
terms: a sum of naturals is the number of their units (`SumIsSize`, the cardinality of a set of pairs), and
adding one adds a pair. Elsewhere too an induction over finite sets is replaced by the minimal element
of a set of counterexamples, which a well-founded relation has.

**LogsProofs**, of a server process. `LinesAreAccounted`, `ReportsStayTrue`, `TheCountsAddUp`, `PagesStayInOrder`.
Lines are numbered as they are said, so the invariant (`SinkInv`) is that the lines of all places together
are numbered 1 to `said`, each number that of one line (`Kept`): the lines' numbers are what the queue, a
batch and a file share. Each step moves lines or says new ones (`Grew`), whose report adds to the sum of
its kind what it takes from the count it tells (`DropsTold`, `OutagesTold`). Under it `ServerPhases`: after the
drain's last tick only workers speak, so a stop in order ends with no line of a request in memory.
The load: for each label, the sum over the rows of minutes and hours with what is gone and what the
process has counted is a number no step changes without its ledger (`Balanced`), where what is under
way lies between the last snapshot and the accumulator (`FlushFits`). A roll-up regroups the minutes of an
hour and its instances: a sum is that of the sums over the fibers of a map (`SumFibers`). The pages:
lines have even times and facts odd ones, so no two rows have one time or one key (`TimesApart`), and
`PassedOver` is the argument of `Overtaken`: when a source left out a row for an older one, the two are out
of turn; when none did and a full page leaves out a row newer than its last, that row's source
gave as many rows as a page holds, one of them dropped with the cursor, and the rest are the page but
its last row. `ReadInv` carries this from page to page, where every row shown is no older than the oldest
cursor; it is of the rows that stood when the first page was read, so rows arriving do not matter.

**What is assumed.** Besides the types of constants: `2 * MaxTx <= Settle` (finding 6.1.3: the code takes
`MaxTx <= Settle`); rows of the queue, kinds of exceptions and processes are finitely many
(`RowAssumption`, `KindAssumption`, `ProcessAssumption`; a table and a fleet are finite at any time, and the
models give every id from the start); identifiers of files are not those of members, both being parts of
the path in Storage, which are uuids (`FileStoreAssumption`); the value that stands for "none" is no
value (`SessionsAssumption`, `FileStoreAssumption`, `ValueAssumption`); a request is counted under a route, a
path or the unmatched label (`TelemetryAssumption`); the items of `Content` and the requests on them are
finitely many, their keys are ordered, no two days have one date, and a founder is a member of what was
founded (`ContentAssumption`); bounds and limits are natural numbers.

**Only model-checked.** Liveness (`EveryFactHandled`, `EveryTaskLands`, `EndsFresh`, `EveryCaptureLands`) and
whatever needs ENABLED, which the prover does not handle. Every other property of a passing run is a theorem.

## 6. What the model found

### 6.1 Disagreements between the code and what it says

The first has a run. Of the others, 3 is the assumption of a theorem (and the window of the run), 9 is
how `Stop` behaves, and the rest are exceptions that a property names, so that it holds and says where
it would not: without the exception, TLC finds the behaviour.

1. *The Timeline stops at its second page* (`timeline_paging`; `timeline/infra/router.py:228`). Each source is
   asked for its 100 newest rows up to the cursor, the cursor's own row included, and that row is
   dropped afterwards: a second page filled by one source has 99 rows at most, is taken for the last
   one, and what is older cannot be reached. The same missing row has a second consequence: the source
   whose row is the cursor gives one row less than the page holds, an older row of another source takes
   the last place and becomes the next cursor, and the rows of the first source between the two are
   passed over for good (`Overtaken` in `PagesInOrder`). It was an attempt at the proof that showed this:
   the run was then too small to meet it.
2. *The Timeline's merge is not exact* (`timeline/infra/repository.py:6-7`: "each source giving its own
   newest rows: exact for newest-first"). Besides what 1 passes over, facts and occurrences are limited by their id (`shared/events/repository.py:332`,
   `issues/contract/queries.py:39`), which is taken at the INSERT, but listed, filtered and cut by
   `created_at`, when their transaction began. Of two transactions that overlap, the one that began first
   may take its id last: its older row then stands in the source's answer for a newer one, and when the
   page's end becomes the cursor the newer one is passed over for good (`OutOfTurn` in `PagesInOrder`;
   without it TLC finds the page in the `telemetry` run). Nor is the merge exact with the app filter,
   applied after each source's limit.
3. *The settle window is half as wide as it says* (`events/listener.py:35`). The window is compared with
   `created_at`, when the fact's transaction opened; the cursor compares keys, minted at the INSERT. A
   fact recorded late in a long transaction has an old `created_at` and a young key, and carries the
   cursor past a key that has not committed. Half the window is what holds, and is proved.
4. *A rolled-back tick forgets what it was to spread* (`events/listener.py:152`). The spread memory moves
   before the commit; after a failure the facts are skipped as applied, until the process restarts
   (`missed` in `SpreadOnce`). These facts are all that a process forgets.
5. *Two owners can leave at once* (migration `20260818000002:159`). The trigger said to close the race
   (`:148`) looks for another owner without locking one (`raced` in `OwnerKeptUnlessRaced`).
6. *An edit of a setting can serve what another replaced* (`console/infra/router.py:537`, against
   `shared/settings/live.py:145`). "Every fresh value" is read before the concurrent edit commits, and
   adopted whole after it (`overlapped` in `EndsFresh`).
7. *A disguise can outlive its window* (`profile/infra/router.py:637`, against `auth/infra/security.py:156`). An
   admin who, in a disguise, confirms an authenticator is handed the session for as long as a sign-in
   (`Plain` in `DisguiseIsBounded`).
8. *A handle can be taken twice* (`shared/integration/slugs.py:66`). The check of the other contexts' lists runs
   under the caller's row level security, which shows only the profiles of co-members (`unseen` in
   `UniqueUnlessRaced`).
9. *A stopped worker keeps its claims* for the length of the lease; `docs/production.md:118` says that stop()
   releases them.
10. *A deleted organization leaves its files in Storage.* `files/contract/integration.py:126-127` says of the
   welcome file that "a vanished owner or org must not leave a stray object in Storage", and checks
   (`org_exists`) before it uploads. An organization deleted after that check leaves it (`torn`
   in `StoreMatchesRows`), as it leaves the objects of every other file: the cascade of
   `20260818000011_files.sql` (`:6`, `:57`) takes the rows when the last owner is forgotten
   (`organizations/contract/integration.py:199`), and nothing removes the bytes (`gone`).

### 6.2 Behaviours to know of

* Queue. A worker without a topic's handler parks the row on its first claim (`queue.py:357`);
  `events/bus.py:60` says retried, then parked. `_CLAIM` does not look at `attempts` (`queue.py:278`), so a row whose
  worker dies each time is claimed without end; `EveryTaskLands` holds because crashes are finite.
* Settings. `settings_refresh_seconds` is read by nobody (`env.py:49`). The fact of an override is told
  even when no row changed; an override whose setting is no longer overridable still applies. The
  console's view raises on a stored text where a number is declared, while the processes serve it.
* Organizations. A revocation that read an invitation while pending overwrites "accepted": the function
  that accepts leaves the version alone; the seat is unaffected. Two owners can invite one address
  at once. Two deliveries of UserCreated at once can make two personal organizations; two creations
  at once can pass the limit (`overlapped`).
* Server admins. The promotion of the first user takes no advisory lock, though `admin_guard.py` says that
  every path that changes who is admin does; and it takes every error of GoTrue, a 429 or a 500 too,
  for a deleted user. Two bootstraps at once both find no admin and promote both users (`raced`). A GoTrue
  write that outlives its request lands after the lock is gone (`late`). A commit that fails once GoTrue has
  closed an account leaves it closed with no fact, so no clean-up follows (`lost`).
* Sessions. A change of password or address uses the cookie of the request, expired or not
  (`profile/infra/router.py:393`, `:441`); stopping a disguise of a user with an authenticator is refused once the stashed
  token has expired; `RlsSession`
  resolves the caller a second time; routes that return a Response of their own drop renewed cookies.
  Two behaviours came from the invariant of the proof, which the instance of the run is too small to
  meet. An admin disguised as another admin may put on a second disguise, and stopping that one gives
  back the first as a sign-in would be: for the full lifetime, with no stash, banner or deadline
  (`auth/infra/router.py:697`, against `auth/infra/security.py:155`; `Covered` in `DisguiseIsBounded`). And of
  several codes accepted for one challenge, one whose commit fails outdates the tokens that the answer
  to an earlier one carries (`missed` in `RefreshStaysUsable`).
* Content. `repository.py:79` says positions are dense from 0, but the navigation starts at 1 and deletions
  leave gaps. A page set to the visibility it has tells its fact without a version check (`echo`). A
  page returned to draft keeps its place but is no longer offered by the manager of the navigation.
  Two first reviews of a card at once may leave the earlier day. The limit of tasks can be passed on
  any list: an addition that commits between another's count and its reading of the list is in what the
  other reads and locks, and is not in what it counted (`todo/infra/router.py:90`, `todo/infra/repository.py:14`;
  `CommitsLate` in `LimitsKeptUnlessRaced`). The version lock protects the limit from an addition that comes
  after that reading, but on an empty list, where it has nothing to lock (`overlapped`). Two behaviours came from attempts at the proofs. Pages added to the
  navigation while it is rearranged may share a position with a page of it: the addition takes one past
  the last place it read, the rearrangement renumbers from 0, and neither writes a row of the other's
  (`Crossed`). And a move whose named row goes up meanwhile may land below it: of the tasks a, i, b, k, while
  i is on its way above k, a is deleted and k moved into the gap at the top; neither writes i or b,
  all that the first move changes, so it commits i and b below k (`WentUp` in `MovesLand`; it takes four
  tasks and three writes, one more of each than the run has, so the run would pass without it).
* Capture and issues. Stopping the drain loses the delivery in progress and the tick's count of shed
  captures, though `host.py:41` says that stop drains what a worker holds (`cut`). A verdict that repeats
  the status its request has read writes no row, so nothing checks the version, and its fact is told
  over a regression committed meanwhile (`echoed`).
* Files. Two uploads checked at once can pass the quota, which neither's sum refuses (`raced`).
  `uploaded_by ... on delete cascade` never fires: a deleted account keeps its row in `auth.users`.
* Logs and metrics. The drain stops before the flusher, so what the flusher logs of its last failure is
  never stored, nor is the drain's own last report; a last tick that raises (the fallback directory)
  keeps the handlers after it from stopping. A cancelled append loses its batch; a commit whose
  answer is lost adds its deltas twice (`doubled`).

## 7. What is not modelled

Inside modelled components: the wake-up by NOTIFY; more than one fact per business transaction; the
payloads and the identity a handler runs under; the coercion of settings to their types; the
organization's dashboard and settings page; the listing of accounts and `scripts/promote_admin.py`; a
late bootstrap write that lands after its task was delivered again; the text of fingerprints; the
mark that keeps one exception object from being captured twice (captures of a kind are counted, not
told apart); the death of a process in `ExceptionCapture` (its queue dies with it, by design), and what it
captures after its drain has stopped; the screens, the alerts and the purges of `issues`; what GoTrue
does to other sessions when a password or a factor changes, and its count of codes; the facts that
`files` tells; the uniqueness of page slugs, Markdown, searches and forms; dates and times of events;
the lookup of an API key by its hash; the resources of a card and the import of decks; the widths,
colours and filters of the Tasks screen, its tally; the processors of a log line, the live level and
the partitions of `log_lines`; two threads that append to the log queue between its length check and
its append; the histogram of a route; the Timeline's other filters, its facets, chart and export.
`IssueTracker` calls a row unmoved by its version alone, which is what `version_id_col` and the unique
fingerprint do.

PostgreSQL is READ COMMITTED throughout: a statement sees what was committed when it started, waits
for row locks, and the ORM's rows are as old as the SELECT that loaded them. Row level security is
modelled for memberships, invitations, files, pages and the sight of profiles. GoTrue and Storage are
external, with the effects their callers rely on.

Components without a module: the HTTP edge (the limiter fails open by design, so the bound it would
promise does not hold under faults), integration seams (registrations made once), persistence (a
step of every module), e-mail (a task of the queue, at least once), health probes (two reads), the
scripts and the browser's scripts. Each is listed in `PROJECT.json` with its reason.

## 8. The plan

The order is by what can be lost silently. All modules planned are written:
`FactDelivery`, `EventJournal`; `TaskQueue`, `TaskScreen`; `Settings`, `OrgSettings`, `Membership`, `ServerAdmins`;
`IssueTracker`, `ExceptionCapture`; `LogSink`, `LoadMetrics`, `Timeline`, `Telemetry`; `Content`; `FileStore`; `Sessions`.

Every safety property that the passing runs check, invariant or action property, is stated by a theorem,
and so is the refinement of `FactDelivery`; what the runs show alone is liveness. What remains worth doing
is to say more, not to prove more of what is said: a refinement between the queue and the settings'
spread, the parts of `Pages and navigation`, `Profile` and `Issue tracker` that section 7 leaves out.

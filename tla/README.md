# Verification of signaldesk-control-api

TLA+ models of the control plane, the TLC runs that check them, and TLAPS
proofs about each of its parts and the composition of the whole. Paths are
relative to the repository; `services/` and `routes/` stand for
`src/signaldesk_control_api/services/` and `.../routes/`.

    tlc -workers 2 -config OutboxPublisher_safety.cfg MCOutboxPublisher.tla
    tlapm OutboxPublisherProofs.tla       (and the other *Proofs.tla)

`PROJECT.json` lists the runs, the source lines of every definition, the hazards
behind the properties, and for every property a mutant of the code that breaks it.
Operators commented as *Mutant* are those; no specification uses them.

## 1. The system

A web BFF, job workers and an e-mail worker call an HTTP API over PostgreSQL; a
separate process moves outbox rows from PostgreSQL into Redis streams.

| component | state | operations | what makes it hard |
|---|---|---|---|
| Outbox publisher (`outbox_publisher.py`) | `outbox_events.published_at`, `attempt_count`, `next_attempt_at`; Redis markers and streams; the process's `stop_event` | `publish_batch`, the Lua script, `_schedule_retry`, `run_forever`, `--once`, SIGTERM | two stores without a common transaction; lost answers and acknowledgements; late commands; several publishers; crashes; poison rows |
| E-mail deliveries (`services/email_deliveries.py`) | `email_deliveries`, the recipient's user and membership | create (within a completion), get, claim, sent, failed | a claim may be lost after its commit; reports repeat and contradict; the recipient changes; reads without locks |
| Diagnostics (`services/diagnostics.py`) | `diagnostic_jobs` and what completion writes with it | create, get, worker scope, claim, complete | racing workers; partial failure within a completion; revocation; lost answers |
| Exports (`services/exports.py`) | `export_jobs`, `export_diagnostic_snapshots` | create with snapshot, get, download, recover, page, claim, complete | the same, and a list read in pages while its source changes |
| Outbox rows (`services/outbox.py`) | `outbox_events` | one insert in the transaction of the job | atomicity with the job |
| Tenant identity (`auth.py`) | users, memberships, passwords | `get_tenant_context`, `authenticate_user` | two statements without a lock |
| Credentials and settings (`auth.py`, `settings.py`, `main.py`) | one secret per role | validation, the check of each request | which pairs are compared; an application that is not configured |
| Path-only guards (`routes/*.py`) | none | read and bound a request body | slow, empty and silent senders; threads; JSON bodies that nothing bounds |
| Database sessions (`database.py`) | one transaction per call | commit, rollback on failure | errors between statements |
| Migrations (`alembic/versions`) | the schema and its rows | back-fills, downgrades | rows of every release; workers that remember |

Interaction: a service inserts an outbox row in the transaction of its job; the publisher
makes it a stream entry; a worker reads the entry and calls the API (claim, page,
complete); completion creates an e-mail delivery and its outbox row in the same
transaction; the e-mail worker reads that event and calls claim, then sent or failed. All
shared state is in PostgreSQL rows. What makes each part correct:

- publisher: one stream entry at most per row, never marked without one, and every clean
  row published, whatever fails and whatever poison precedes it;
- deliveries: one mail at most, to the address frozen under authorization, and reports
  that are true and final;
- jobs: request, claim and completion happen once and in order, each with all of its rows
  or none, and completion only while the requester has access;
- exports: the object is the snapshot, and the snapshot is sound and complete for its
  organization;
- requests: a service runs only for the right role and for a user who had access, and
  every request is answered unless a sender keeps it, or every thread, waiting;
- migrations: no row of any release stops one, and none loses an event or a meaning;
- the whole: an accepted job ends in one mail or a recorded reason why not.

## 2. Modules

| module | models |
|---|---|
| `OutboxDelivery` | abstract: requested, sent at most once, confirmed after sending |
| `OutboxPublisher` | `publish_batch`, `_schedule_retry`, the Lua script, the process |
| `EmailContract` | abstract: claimed once, one mail to the frozen address, one report |
| `EmailDeliveries` | the calls on one delivery, the worker's SMTP step, changes of the recipient |
| `EmailReads` | `EmailDeliveries` with a history of what was in force during a call |
| `JobContract` | abstract: what a job promises; `Diagnostics` and `Exports` implement it |
| `TenantCalls` | what all job calls share: tenant context, locks, ends of a call, changes of access |
| `Diagnostics`, `Exports` | the two job services; `Exports` uses `JobContract` for the diagnostics that go on around it |
| `RequestGate` | what a request passes before its service: credential, guard, session, identity |
| `Migrations` | revisions 0003 to 0007 in both directions, with the application between them |
| `ControlPlane` | `JobContract`, `OutboxDelivery` and `EmailContract` composed end to end |
| `...Proofs` | the theorems of section 5 |
| `MC...` | the constants and symmetry sets of the runs |

Conventions. A call or process has a program counter whose labels name the next
statement; one action is one SQL statement, script or commit, so that everything
PostgreSQL allows under READ COMMITTED may happen in between. Writes of an open transaction
are invisible to others, so they are applied in its commit (`Apply`, `SetPublished`,
`Defer`); up to then the transaction owns its locks, and a failure only has to give those
back. `FOR UPDATE` is a lock variable with one owner, `FOR SHARE` a set of owners,
`SKIP LOCKED` a condition of the select.

**OutboxPublisher.** `pc` runs through idle, select, eval, mark (a batch row), failed,
retry, lockwait, scheduling (the retry transaction). Redis is three variables: `marker`
(the key the script tests), `appended` (every entry XADD made) and `trimmed`. `delayed`
holds commands the publisher gave up that Redis may still run. `wait` is
`next_attempt_at` as ticks that are left, `elapsed` the age of a retry transaction, since
its `now()` is its start. A payload is abstracted to whether it keeps its contract
(`Poison`), a canonical event to the row and the contracts package of its publisher.
Stop is looked at where the code does, between batches.

**EmailDeliveries.** `copy` is the row as the session has it in memory, `began` the
transaction's `now()`. `recipient` joins user and membership: an address or `Revoked`. `share`
is the lock on those rows: the calls that hold them `FOR SHARE`, or the `Writer` who edits
them. A claim that finds the recipient available waits until an edit is committed or rolled
back, and reads again; a recipient that is not available is refused at once, since the
statement selects no row to wait for. A call that ends forgets what it knew (`Forget`).
The worker is external, but the promise of one mail needs it: it mails only when a claim
was answered ok, and (if `disciplined`, chosen once for a behaviour) reports what SMTP said.

**Diagnostics, Exports.** A client's call reads the user, then the membership, then acts;
a worker's call starts at its operation. Completion locks the job, checks it, locks the
requester, commits. A `CompletionIsAuthorized` step is this commit. In `Exports`, `draft`
is the snapshot of an open transaction, or the page that is on its way; `Rank` is the order
of `(created_at, id)`, which is not the order of commits. Here a change of access is one step that
respects the share locks; the wait for one is exercised in `EmailDeliveries`. The object key and the object
it stands for are one record, the key being right for exactly one job.
The unique constraints on outbox rows and deliveries are left out on purpose: `TypeOK` of
`Diagnostics` shows that the locks alone keep the counts at one.

**RequestGate.** A request has one of seven kinds, which differ in the order of what they
pass. A *tenant* operation: credential, session, user, membership. A *login*: credential,
session, password, membership. A *delivery* operation and an export's *recovery*: credential,
then the guard, which reads the body on the event loop under a deadline, then a session. A
diagnostic worker's *scope*: credential, session, and then its own reading of the body, in
a thread and without a deadline. The workers' other operations (*diagnostic*, *export*):
credential, session. An operation that declares a JSON body (a login always; a creation or a
completion among the others, `Payloads`) waits for it before all of this, on the event loop and
without a deadline: the framework parses the body before it solves a dependency.
Synchronous dependencies and handlers need a thread of the pool (`ThreadFree`); the guard
and the wait for JSON need none. `request[r].held` collects which facts about the user have held
since the request came.

**Migrations.** One action per revision and direction; a run of several revisions is one
transaction, which is the behaviour in which nothing comes between their actions. A
revision's own constraints are left out of its action, so that `SchemaHolds` shows them not
to be the reason why nothing goes wrong. The three UPDATEs of 0006 are three operators over
the columns (`ClearPending`, `FillSent`, `FillFailed`): the rows of one status each, the join with
`users`, COALESCE. What they leave is compared with the CHECK (`DeliveryState`), which is written
down apart from them; the same CHECK is asked of the rows that claims and reports write. The
recipient's row in `users` comes and goes, but not while a delivery refers to it.
Transactions of the application are single steps here. The releases of revisions 3 to 6 are not in
the repository; section 4 says what is assumed of them. Workers keep what they were told across
migrations: an answered claim (`leave`), a snapshot that was read (`held`).

**ControlPlane.** One transaction of a service is one step of several contracts: completion is
a `Complete` of the job, a `Create` of the delivery and a `Request` of two outbox rows.
Everything else is coupled only through the streams: a worker acts on an event that stands in
its stream, as often as it likes. The detailed modules implement the contracts, so what holds
of the composition rests on them, and that they do is proved.

## 3. Runs

| run | shows |
|---|---|
| `OutboxPublisher_safety` | two publishers with different contracts packages, one of them with `--once`, a clean and a poison row, two faults of any kind, and a marker overwritten or an entry trimmed: `AtMostOnce`, `PublishedIsStreamed`, `PoisonIsolated`, `LockDiscipline`, `UnreportedIsPublished`, `PublishedIsFinal`, the inductive invariant `IInv`, and that the publisher implements `OutboxDelivery` (`DeliverySpec`) |
| `OutboxPublisher_liveness` | `EveryEventPublished` behind a poison row, `StopIsHonoured` |
| `OutboxPublisher_backoff` | `BackoffSchedule`: with the code's 30 and 300 seconds the delays are 30, 60, 120, 240, 300, 300 |
| `EmailDeliveries` | two e-mail workers, disciplined or not, and edits of the recipient under lock: `TypeOK` (with the CHECK constraint on a row), `SentNotBeforeAttempt`, `ClaimIsAuthorized`, `FrozenIsFinal`, `EveryCallAnswered`, and that the calls implement `EmailContract` (`ContractSpec`) |
| `EmailReads` | a violation of `GetIsCurrent`, see below |
| `Diagnostics` | a disciplined worker and one that calls anything: `TypeOK`, `AnswerIsDurable`, `CompletionIsAuthorized`, `JobContract` (`ContractSpec`), and `JobsGetDone` for a worker that recovers through the scope endpoint |
| `Exports_worker` | paging through lost answers, restarts and changing diagnostics: `ExportIsSnapshot`, `ExportsGetDone` |
| `Exports_completion` | two racing workers: `SnapshotIsComplete`, `CompletionIsAuthorized`, `JobContract` (`ContractSpec`) |
| `Exports_anyorder` | foreign snapshots and keys, incomplete objects, two organizations: `SnapshotIsSound` (own organization, each diagnostic once, in order, well formed), `AnswersStayInTenant` |
| `RequestGate` | two requests of every kind at once, and one thread: `OneRolePerCredential`, `EmptyBeforeDatabase`, `ServedWithAccess`, `EveryRequestEnds` |
| `Migrations` | every order of upgrades, downgrades and application steps: `SchemaHolds`, `RowsAreAnnounced`, `SecondMailByRewindOnly`, `ObjectIsItsSnapshot` |
| `ControlPlane` | two jobs from request to mail: `AnnouncedIsCommitted`, `MailIsEarned`, `EveryJobEnds` |

**A divergence** (`EmailReads`, `GetIsCurrent`). `get_authoritative_delivery` promises
"current authority for pending, or frozen authority after claim"
(`services/email_deliveries.py:150`). It reads the row and then the user, without a lock.
If a claim freezes address A and the user takes address B in between, the answer is
*pending, B*: the delivery was never pending with B. Claim, the only operation to mail
by, is not affected: its reads are locked (`ClaimIsAuthorized` holds).

**Limits the runs make precise.** A second mail is possible after the downgrade of 0006, and
only as often as it found the delivery in *sending* (`SecondMailByRewindOnly`). A job that was
accepted may stay without a mail for three reasons and no other: SMTP refused it, the requester
lost access, or the worker that claimed the delivery was lost (`EveryJobEnds`). The deadline
of the guard protects deliveries and recoveries only: a scope, and every operation with a JSON
body, waits for its sender as long as that likes, and scopes keep a thread meanwhile. As many
of them as the pool has threads stop every request that needs one. `EveryRequestEnds` names both
as outcomes, and says that there is no third.

### Bounds

Every counter has a named bound, and a run stops being interesting beyond it.

- `MaxFaults` limits failed statements, lost answers, lost acknowledgements, crashes and restarts
  together. Two give the pairs that matter (a lost acknowledgement, then a failure during
  its recovery): `OutboxPublisher_safety`, `OutboxPublisher_liveness`, `Diagnostics`. One is
  enough where the calls are retried by others anyway (`EmailDeliveries`, `Exports_worker`,
  `Exports_completion`, `OutboxPublisher_backoff`). `Exports_anyorder` has none, for its worker
  may call anything at any time; `EmailReads` needs none.
- `MaxDamage` 1 limits foreign writes to Redis: one is enough to make a row fail closed.
- `AttemptCap` stops `attempt_count` where it no longer matters: 6 covers the whole rise of the
  code's delay, which is constant from the fifth failure on.
- `MaxTime` 1: of two transactions one may have begun before the other.
- `MaxChanges` 2: a right is lost and given back, or two are lost between two reads.
- `MaxDowngrades` 2, `MaxSnapshots` 2 and `MaxDeferred` 1: from 0007 below 0006 and up again, or
  from 0006 below 0005, or twice across one revision; an export has its snapshot drawn and
  drawn again, and of two diagnostics of one organization and one of another.
- `MaxLost` 1: one e-mail worker is lost with its delivery while the other job's is not.
- One job or delivery is enough for the services, because calls on
  different rows share only the requester's locks, and share locks do not exclude each
  other; one user is enough for the same reason. `PageSize` 1 makes two rows and the end three
  pages. `Exports_anyorder`, whose worker may complete with anything, has two diagnostics and
  pages of two, enough for an order and for a foreign row. Two publishers or workers show every race of two; nothing in the code counts them.
- Two requests and one thread: one that holds it, be it for its sender, and one that needs it.

Every run checks for deadlock but `Migrations`, whose rows and bounds run out.

### Fairness

- `Work(p)`, `Serve(c)`, `Run(r)` weak: a process that runs takes its next statement; Redis and
  PostgreSQL answer or fail; a deadline passes.
- `LockRow(p)`, `Lock(c)`, `Await(r)` strong: PostgreSQL grants a row lock to its waiters in
  turn, and the pool its threads, so that a waiter is not passed over for ever. `Lock(c)` of a
  delivery's call includes the claim's lock on its recipient.
- `ChangeRecipient(u)` weak: an edit of a user ends, by commit or rollback.
- `Restart(p)` weak: a supervisor restarts an exited publisher. `Tick` weak: time goes on.
- `Request(c)` weak for `Disciplined` workers only: such a worker does not forget a job
  whose stream entry it has not acknowledged.
- In `ControlPlane`, weak fairness of `Publish`, `CompleteJob` and the others is what the runs
  of the parts establish: `EveryEventPublished`, `JobsGetDone`, `ExportsGetDone`. SMTP need not
  accept a mail.
- No fault is ever fair, and faults are finitely many: liveness means recovery once
  failures stop. Changes of access are not fair; `JobsGetDone`, `ExportsGetDone` and
  `EveryJobEnds` exempt a job whose requester loses access. A sender of a request is never fair.
- `EveryEventPublished` is checked with `BatchSize` greater than the number of poison rows
  (the code's default is 100). With fewer places than poison rows that are due again by the next
  batch, those could fill every batch; the code relies on its back-off there.

## 4. Assumptions about the outside

PostgreSQL is READ COMMITTED with row locks that end with their transaction, and ends the
transaction of a dead session; DDL waits for open transactions. Redis runs a script atomically
and does not lose or expire markers (the keys have no TTL); damage by others is `MaxDamage`.
The order of stream entries is not promised and not stated: `created_at` is the start of a
transaction, so rows become visible out of order.

The workers are assumed to mail only after an answered claim. A thread pool has a thread
(`PoolAssumption`), and nothing more is assumed of its size.

Of the releases that ran before 0006, whose code is not in the repository: they advanced
diagnostics and exports as today; they mailed a pending delivery, be it one that a downgrade
rewound, as they set it to *sent*; they set `attempted_at` or left it NULL; and they did not touch a
settled delivery again. `SecondMailByRewindOnly` rests on the second and the last.

## 5. Proofs

For any values of the constants that satisfy the named `ASSUME`s of the module proved about.
Every safety property of the runs but `BackoffSchedule` is a theorem:

| module | theorem | states |
|---|---|---|
| `OutboxPublisherProofs` | `TypeCorrect` | `Spec => []TypeOK` |
| | `Invariant` | `Spec => []IInv` |
| | `ExactlyOneEntry` | `AtMostOnce` always holds |
| | `NoFalseConfirmation` | `PublishedIsStreamed` always holds |
| | `PoisonStaysHome` | `PoisonIsolated` always holds |
| | `NoHoldAndWait` | `LockDiscipline` always holds |
| | `CountIsTrue` | `UnreportedIsPublished` always holds |
| | `PublishedStaysFinal` | `Spec => PublishedIsFinal` |
| | `ImplementsDelivery` | `Spec => OutboxDelivery!Spec` under the refinement mapping |
| `EmailDeliveriesProofs` | `TypeCorrect` | `Spec => []TypeOK`, the shape of a row included |
| | `Invariant` | `Spec => []IInv` |
| | `OneMail` | `AtMostOneMail` always holds |
| | `FrozenStays` | `Spec => FrozenIsFinal` |
| | `ClaimsAreAuthorized` | `Spec => ClaimIsAuthorized` |
| | `Implements` | `Spec => EmailContract!Spec`, with `status` and `snapshot` as its state |
| | `SentAfterAttempt` | `SentNotBeforeAttempt` always holds |
| `TenantCallsProofs` | lemmas | what a step of one call keeps, and leaves to the others |
| `DiagnosticsProofs` | `Invariant` | `Spec => []IInv` |
| | `TypeCorrect` | `Spec => []TypeOK`, each outbox row and delivery inserted once |
| | `Durable` | `AnswerIsDurable` always holds |
| | `Authorization` | `Spec => CompletionIsAuthorized` |
| | `Implements` | `Spec => JobContract!Spec` |
| `ExportsProofs` | `Invariant` | `Spec => []IInv`, types included |
| | `InTenant` | `AnswersStayInTenant` always holds |
| | `SoundSnapshots` | `SnapshotIsSound` always holds |
| | `CompleteSnapshots` | `SnapshotIsComplete` always holds |
| | `SnapshotStored` | `Disciplined = Workers` implies `Spec => []ExportIsSnapshot` |
| | `Authorization` | `Spec => CompletionIsAuthorized` |
| | `Implements` | `Spec => JobContract!Spec` |
| `RequestGateProofs` | `Invariant` | `Spec => []IInv` |
| | `OneRole` | `OneRolePerCredential` always holds |
| | `EmptyFirst` | `EmptyBeforeDatabase` always holds |
| | `Served` | `ServedWithAccess` always holds |
| `MigrationsProofs` | `Invariant` | `Spec => []IInv` |
| | `SchemaAlwaysHolds` | `SchemaHolds` always holds |
| | `AlwaysAnnounced` | `RowsAreAnnounced` always holds |
| | `MailsByRewind` | `SecondMailByRewindOnly` always holds |
| | `ObjectsAreSnapshots` | `ObjectIsItsSnapshot` always holds |
| `ControlPlaneProofs` | `Invariant` | `Spec => []IInv` |
| | `NothingAnnouncedEarly` | `AnnouncedIsCommitted` always holds |
| | `OneMailPerJob` | `MailIsEarned` always holds |

**The publisher.** `AtMostOnce` is not inductive: from a state with an entry but no marker the
script would append another. `MarkerCoversEntry` (an entry has some marker,
right or wrong) closes that, and no action removes a marker. `PublishedIsStreamed` needs that a publisher
at *mark* has an entry (`MarkAfterEntry`); that needs every entry and every late command
to concern the row it names (`OwnEntry`, `OwnRequest`), because the script's answer 1 comes from
comparing them. `PoisonIsolated` needs `CleanInHand` for the row that is about to be sent.
`PublishedIsFinal` needs that a published row is unlocked and not deferred
(`PublishedAtRest`), which needs that a lock belongs to the publisher whose row it is
(`LockDiscipline`): between rollback and retry the row is free, and another may publish it.
`UnreportedIsPublished` needs `Reported`: who is on the way to a retry has put its row on the list
before, and a select starts with no row in hand, so the row it takes replaces none.
`IInv` is their conjunction with the types. It is proved one group at a time (`StepTyped`, `StepRedis`,
`StepHand`, `StepLock`, `StepReported`, `StepPublished`), with `RedisSteps`, `DbSteps` and `QuietSteps`
sorting the actions by what they touch. The refinement maps an entry's first appearance to
`Send` and `published_at` to `Confirm`; the count of copies is a cardinality, hence
`OneCopy` and `NoCopy`.

**Deliveries.** One mail is not inductive either: two calls at *mailing* would send two. `Leave`
says that a call whose claim is committed is the only one of its delivery and that the mailbox is
still empty. A second claim cannot commit beside it because a call about to write holds the row
(`Locked`) and what it read of the row still stands (`InHand`), so a claim commits from *pending*
alone, and nothing leads back there. Most steps move one call and write no row: `Still` and
`StillKeeps` settle them together, and `CommitKeeps` and `SmtpKeeps` the others.
`ClaimsAreAuthorized` adds `Shared`: from the check to the commit the call holds the share lock,
and the address it copied is still the user's. `FrozenStays` and `Implements` are about single
steps and follow from `IInv`.
`SentAfterAttempt` compares the starts of two transactions. A second invariant, `Timely`, says
that SMTP has answered only for deliveries whose attempt has a time, and that a disciplined report
under way began after that time (`Reporting`); the row of a claim is not written again
(`StepFreezes`), so the time it is compared with is the one that was there when the report came.

**Job services.** Three facts of a call make every commit a step of `JobContract`: a creation in
flight is the only one of its identifier and its row is still absent (`Alone`, `Knows`); a claim or
a completion that goes on after its first statement holds the job's lock (`Holds`), so the status it read
stands (`Knows`); and the commit of a completion holds its requester's share lock with the access it
found (`Vouched`), which is `CompletionIsAuthorized`. `AnswerIsDurable` and the tenant of an answer
are `Told`: said of the call from its last read until it is answered, and of the answer after that;
statuses only advance and a scope is written once, so no other call makes it untrue. `RowInv` ties the rows of
a job (its events, its delivery) to its status: a completion writes all of them or none.
`TenantCallsProofs` has what both modules need: a step of one call takes no lock from another
(`Apart`), and nobody's access changes while a call shares it.

**Snapshots and pages.** `SnapshotRows` numbers an organization's diagnostics by their rank, and
`PositionsFollow` says that a lower number is a lower rank, so that the rows under growing numbers
are in order and none comes twice (`Ordered`).
`Numbering` shows that these numbers are 1..n without a gap (an injection between finite sets of
one size is onto), hence `SnapshotFacts`: the rows of a snapshot are exactly the diagnostics of its
organization. Diagnostics are never taken back, so those that were there when a creation
arrived are in its draft (`Drafting`) and then in the answer (`Told`). A worker's reading is a prefix
of the snapshot of the one job it works on (`Reading`), and all of it once a page was short.
`SnapshotStored` needs that a worker completes only after that short page. This is the worker's
protocol and not the API's doing, which accepts any completion of a claimed job; hence the hypothesis
`Disciplined = Workers`, which is how `Exports_worker` runs. `Thorough` is the invariant it adds.

**The gate.** The invariant is of each request by itself: where it stands says which kinds come there
(`Routed`), that it carries no key but the one of its role (`Keyed`), what the guard has read
(`Guarded`) and what was seen of the user (`Identified`). The last rests on `held` growing with
every change of the user, so that each fact a statement sees is in it for good. `OneRole` then
needs only that the settings which pass both validators have a different value for each role.

**Migrations.** `Eventful` and `FieldsInv` say, for each revision, which rows, columns and events there may
be; each migration is shown to lead from the one revision's to the other's. For 0006 that is
`BackfillFacts`: what the three UPDATEs, one after the other, leave in a row of each status. It needs
from before that the recipient of every row is in `users`, or an UPDATE with its join would pass
the row over. `MailInv` counts
a mail to come (`Credit`) with those gone out and those a worker has leave for: only the
downgrade of 0006 adds to the sum, and it counts in `rewound`. `ObjectIsItsSnapshot` needs that a
number is never drawn twice for one export: what a worker holds is under a number that is drawn
(`Genuine`), so after a downgrade it cannot be taken for the rows of the next.

**The whole.** `IInv` of `ControlPlaneProofs` ties the three contracts: which outbox rows exist
in which state of a job (`Announced`), that a stream holds only those (`Streamed`), that a
delivery belongs to a completed job (`Ordered`) and is claimed on its event (`Claimed`), and in
which states a worker may hold it (`Held`, `Sent`). Neither `ReportMail` nor `Smtp` alone shows
that no mail goes out after a report of failure: `Held` does.

Only model-checked: all liveness, which is out of the prover's reach (`EveryEventPublished`,
`StopIsHonoured`, `EveryCallAnswered`, `JobsGetDone`, `ExportsGetDone`, `EveryRequestEnds`,
`EveryJobEnds`), and `BackoffSchedule`, which is about powers of two, of which the provers know
nothing. What is proved of the delay is that it stays within `RetryMax` (`RetryDelayType`).
That the inductive invariants of the services, the gate and the migrations are such was
first checked by TLC on the instances of their runs.

## 6. Not modelled

- The connection pool of the engine, and `session_scope`, which no service uses.
- Revisions 0001 and 0002, which make the tables of users, organizations and memberships: no
  step looks back at them. Indexes.
- The object store, SMTP, Redis consumers: external, by what the code assumes of them.
- Lengths, formats, digests, JSON shapes, header names, password hashes, logging.
- A Redis that hangs for ever: the client has no socket timeout, and the models assume that it
  answers or fails.
- A worker that dies in *sending* leaves the delivery there for good. The code promises no
  way back; it is how it keeps to one mail.
- Creation has no idempotency key: a client that lost an answer and asks again has two jobs.

## 7. Plan

Done, in this order: the publisher, deliveries, diagnostics, exports, migrations, the gate, the
composition, and the proofs about each. Next:

1. The composition once more: each of its three contracts as a consequence of
   `ControlPlane!Spec`, so that their properties carry over to it by name.
2. The contracts by themselves: what `JobContract` and `EmailContract` imply for every
   implementation (a result written once, a mail only after a claim), to be cited instead of
   proved again from the detailed modules.

# Verification of Smart Grocery Assistant

TLA+ models of the parts of this repository whose correctness depends on the order of events:
deleting an account across two services, reading the list while it is written, list-service's event
publisher, ai-service's asynchronous suggest jobs with the web panel that polls them, the web app's
list page, and the benchmark program that measures account deletion. TLC checks them on small
instances; TLAPS proves the main safety properties, and five refinements, for every value of the
constants.
Paths below are relative to the repository.

## 1. The system

| Component | State | Operations | Talks to |
|---|---|---|---|
| user-service (Go) | tables `users`, `profiles`, `outbox`; one AMQP publisher; one outbox poller goroutine | register, login, me, update, `DELETE /me`, `GET /internal/exists/:id` | RabbitMQ exchange `user`; asked by list-service |
| list-service (Go) | tables `sections`, `items` (soft delete); publisher queue; consumer; orphan job | CRUD of sections and items, full list; `user.deleted` consumer; orphan cleanup every 10 minutes | exchange `list`, queue `list.user-events`, user-service over HTTP |
| ai-service (Python) | Redis keys `ai:status:*`, `ai:result:*`, LLM cache keys; Celery queue in Redis | six synchronous LLM endpoints; `POST /suggest`, `GET /jobs/{id}`; Celery task `suggest_task` | Redis, OpenRouter |
| web app (Next.js) | session token, list page state, AI panel | pages; `AiPanel` runs and polls jobs | api-gateway |
| api-gateway (Fastify) | rate-limit counters of a library | JWT check, proxy, websocket relay | the three services |
| saga-benchmark (Go) | tokens of its users, what it recorded of each | registers users, fills and deletes accounts, polls, audits; stops and starts list-service | user-service, list-service, docker |
| RabbitMQ, Redis, PostgreSQL | exchanges and queues, keys with TTL, tables | | |

What is hard, and what makes each part correct:

* **Account deletion.** `DELETE /me` deletes the row and writes an outbox row in one transaction,
  or falls back to a plain delete and a direct publish; a poller publishes outbox rows and marks them
  in a separate statement; list-service consumes the event with two unprotected statements and a late
  ack; an orphan job asks user-service about every owner and purges those it denies. Tokens outlive
  the account. Correct means: nothing of a live user is ever purged; one deletion takes one
  announcement path; whatever crashes, breaks or is redelivered, the deleted user's lists disappear.
* **List events.** A bounded queue that never blocks a request, one goroutine, one reconnect and
  one retry, no confirms. Correct means: no event without a change, no reordering and no duplicate
  behind the queue, losses only for reasons one can name, and the loop never stands still.
* **Suggest jobs.** The API and the worker write one status key; result and status are two keys with
  a TTL each; messages are acknowledged late; the panel polls with an interval that neither waits for
  nor cancels its requests; each task runs in an event loop of its own on a Redis client kept from the task
  before. Correct means: no job is lost with a worker and each tells how it ended, the status never goes
  back to pending, "done" implies a result, polling ends, and the panel shows the result of its own job.
* **Full list.** `GET /lists/full` is one query for the sections and one per section for the items,
  with no transaction. Correct means: no item in the answer that was not on the list at some
  moment of the request, and none missing that was on it throughout.
* **List page.** A copy of the list that answers to the page's own requests keep up to date; several
  are under way at once, and nothing is asked for again. Correct means: a quiet page shows what the
  user left and, but for the translations, which are on the page alone, what is stored, unless two requests for
  one row overlapped or an answer was lost and no change has put the row right since.
* **Benchmark.** Goroutines behind a semaphore, phases behind `wg.Wait`, list-service stopped for one of
  them. Correct means: what it records of deletions and cleanups is true.

`PROJECT.json` lists every hazard at its line with the properties that would catch it.

## 2. Modules

| Module | Models | Built from |
|---|---|---|
| `Faults` | a budget of environment faults; each run names the kinds it admits | - |
| `Users`, `UserEventBroker` | ids; exchange `user` and queue `list.user-events` (external) | `Faults` |
| `UserService` | `internal/service/user_service.go`, `repository/user_repo.go`, `events/publisher.go`, `events/outbox.go`, `cmd/main.go` | `UserEventBroker` |
| `ListRepo` | `list-service/internal/repository/list_repo.go`, one action per statement | `Users` |
| `ListWriters` | everything that changes `list_db`, to a reader: requests, and cleanups for users who are gone | `ListRepo` |
| `FullList` | `GET /lists/full`: `list_repo.go` `GetFullList`, `list_service.go`, `handler.go` | `ListWriters` |
| `UserCleanup` | `list-service/internal/events/consumer.go`, `cleanup/orphan_cleanup.go` | `ListRepo`, `UserEventBroker` |
| `AccountDeletion` | the two services, the broker and clients with tokens | `UserService`, `UserCleanup` |
| `DeletionPromise` | abstract: what deleting an account promises | - |
| `ListEvents` | `list-service/internal/events/publisher.go` and the service methods that call it | `Faults` |
| `LossyFifo` | abstract: what the publisher promises a subscriber | - |
| `SuggestJobs` | `ai-service/app/routes/ai.py`, `services/job_store.py`, `services/cache.py`, `worker/tasks.py`, `worker/celery_app.py` | `Faults` |
| `JobQueue` | abstract: what ai-service promises of a job | - |
| `AiPanel` | `web/src/components/ai/AiPanel.tsx`, suggest tab, on top of the jobs | `SuggestJobs` |
| `ListPage` | `web/src/app/list/page.tsx`, `components/list/SectionCard.tsx`, `ItemRow.tsx`, `lib/api.ts`, against the statements | `ListRepo`, `Faults` |
| `SagaBenchmark` | `list-service/experiments/saga-benchmark/main.go`, `availability.go`, against the promise | `DeletionPromise`, `Faults` |
| `MC*` | model values for TLC | |
| `*Proofs` | theorems and their proofs | |

How state and actions correspond to the code:

* *user-service.* A user id is a fresh uuid, so `acct[u]` goes unused, live, deleted, once;
  `outbox[u]` is its outbox row. A `DELETE /me` handler is a record `req[r]` with the call it makes next.
  `DeleteUserWithOutbox` is the transaction, whose commit may have an unknown outcome; then
  `FallbackDelete`, `CaptureChannel`, `PublishDirect`, `Reconnect` follow `DeleteUser` and
  `PublishUserDeleted` call by call. AMQP channels are numbered as `reconnect` opens them; `pollCh` is
  the one the poller captured in `main`. `PollFetch`, `PollPublish`, `PollMark` are one poll.
* *list-service.* `secOwner`, `secLive`, `itemSec`, `itemLive` are the columns the statements' WHERE
  clauses read; `secRow`, `itemRow` the names, positions, quantities, ticks and `name_secondary` (`second`). `ConsumeItems`/`ConsumeSections` and `OrphanItems`/`OrphanSections` are
  the two statements of each cleanup, with every other action possible between them.
* *Reading.* `ListWriters` is at once the environment of `FullList` and the abstract view that
  `AccountDeletion` implements (`WritesLikeThat`). `read` is one request; `seen` and `steady` are what was
  on the list at some moment of it, and all the time.
* *Page.* `page` is `sections` and `itemsMap` by id; a request in `req` goes from sent to answered, refused or
  lost. One action per stretch of code: sending (`AddSection` ... `HandleDelete`), the statement (`Served`),
  and the code after the await (`Created`, `Updated`, `Translated`, `Deleted`, `Failed`). `want` is the row
  as the user left it; `doubt` holds the rows that two requests overlapped on or whose answer was lost, and
  `alone` those whose latest request has met no other: the answer to such a change carries the row as stored and takes
  it out of `doubt`. `Shown` is the row on the page without its translation. `Reload` stands for opening the page
  again, from the browser or by its links; in the latter case the chain of a new item goes on (`Unheard`).
* *Benchmark.* `job[u]` is what the goroutine of user u is about to do. The stack it runs against is
  `DeletionPromise` itself: whatever the real stack does is allowed by it (`StackKeepsPromise`).
* *Events.* An event is named by its request; `wire` is what was written to the socket and not
  yet read by the broker: a break loses it silently, since nobody asks for confirms. The exchange is
  a subscriber's view; no service of the repository reads it.
* *Jobs.* A child process of the worker is a program counter over `_run_suggest`. `StoreJob`,
  `EnqueueJob` are the two calls of `suggest_endpoint`. Celery, kombu and Redis are external: late ack, a
  lost child acknowledged, a lost worker's messages restored after the visibility timeout, keys deleted at
  the end of their TTL. The TTL equals the visibility timeout, so a key of an earlier run may go while a restored
  job is in hand; only what the run itself has just written stays (`JustTold`, `JustStored`), and a result goes
  before its younger "done". `stale` are the children whose Redis client has a connection of a loop that has ended:
  for them `Start` raises with no fault.
  `IsJobQueue` maps messages that are queued or to be restored to `waiting`, and the children to `taken`,
  `running` and `over` (its first or last write has raised); `closed` are the jobs whose POST is past its two calls.
* *Panel.* One action per stretch of code between two awaits: `Run`, `Submitted`, `Tick`, `Answered`;
  `Read` is the server side of one poll, whose status and result reads are two steps.

Operators that end a comment like "The token does not wait for the profile" without being
part of a next-state relation (`RegisterTokenFirst`, `PublishUnbounded`, `StoreResultLate`, ...) are
the faulty variants that show each property can fail; `PROJECT.json` pairs them with the property.

## 3. Runs

| Run | Instance | Shows |
|---|---|---|
| `user_service` (54,239 states) | 2 ids of one e-mail, 2 handlers, 3 faults of 6 kinds | `OnlyDeletedAnnounced`, `OnePathAnnounces`, `TokenMeansProfile`, `PublishedIsQueued`, `StrandedStays`, and `OutboxDrains` (liveness) |
| `account_deletion` (115,809) | 1 user, 2 sections, 1 item, any 1 fault of 9 kinds | types, `OnlyDeletedPurged`, `OwnersAnswered`, `EventsKept`, `PledgesMet`, `VanishedStays`; `KeepsPromise`, `FulfilsPromise`: the stack implements `DeletionPromise` with its liveness; `WritesLikeThat`: it implements `ListWriters` |
| `full_list` (165,773) | 2 users, 2 sections, 3 items | types, `AnswerIsReal`, `AnswerIsComplete`, `OthersRowsKept` |
| `list_events` (10,092) | 3 requests, a queue of 1, 3 faults | types, `NoPhantomEvents`, `IsLossyFifo`, `AnsweredFirstComesFirst`, `LossesExplained`, `NobodyWaits` |
| `ai_panel` (249,567) | 2 jobs, 1 child, 2 overlapping polls, 1 fault of 6 kinds | types, `NeverPendingAgain`, `DoneHasResult`, `JobsKept`, `PollingEnds`, `RunComesBack`; `IsJobQueue`: the service implements `JobQueue` |
| `list_page` (4,647,238) | 1 user, 1 section, 1 item, 2 names, 1 translation, 2 requests at a time, 2 faults | types, `QuietPageIsTrue` |
| `second_job` | no fault, 2 jobs, 1 child | violates `TasksTell` |
| `stale_channel` | 1 broken connection | violates `OutboxReachesQueue` |
| `exists_error` | 1 wrong answer of the exists endpoint | violates `OnlyDeletedPurged` |
| `late_poll` | no fault | violates `ShowsOwnJob` |
| `deleted_stays` | no fault, 1 request at a time | violates `DeletedLeaves` |
| `bench_blind` | no fault, 1 user | violates `CleanedMeansGone` |

Why the bounds are enough for the cases meant: two ids with one address are the least that makes the
UNIQUE index matter, two handlers the least that race; three faults break the transaction, the first
publish and the retry of one deletion. In the whole stack one fault already reaches each
lost, duplicated, redelivered and unrouted event, since steps that need no fault (a first publish before the
queue is bound, a stale token) combine with it. A queue of one with three requests overflows while an
event is in hand. Two jobs are a panel's previous and current one, two polls overlap. Two sections
and three items give a read both a section already read and one still to come, with an item that
appears or goes in each; all ids are interchangeable in `full_list`, which checks no
liveness, so symmetry is sound there, as it is for the two request slots of `list_page`. There one section and one item
are enough, since the page's handlers touch one row each, and the two kinds of row differ. That
cleanups spare other users is checked with two users in `full_list` and proved for the whole stack (`OthersItemsKept`). The
theorems of section 5 carry most of the safety properties to every size.

Deadlock is not checked where the instance really comes to rest: all requests answered, all
jobs submitted, all ids of the list page used and its rows gone, a stopped broker that nobody must start.
`account_deletion` and `full_list` check it.

## 4. Fairness

Weak fairness of an action means that a goroutine or callback that can run does run.

* Goroutines and handlers (`Poll`, `Handler`, `Consume`, `PublishLoop`): the Go scheduler. `Scan` and
  the poll: tickers. `ChildStep`, `Read`, `Answered`, `Tick`: the worker's processes, the event loops,
  `setInterval`.
* Restarts (`UserStart`, `ListStart`, the worker after `WorkerCrash`): `restart: unless-stopped` in
  `docker-compose.yml`, Deployments in `k8s/`.
* `BrokerStart` in `AccountDeletion` and `UserService`: RabbitMQ is restarted likewise. `ListEvents`
  assumes no such thing: `NobodyWaits` holds with RabbitMQ away for ever.
* `Restore` and `Expire`: timers of kombu and Redis. `Take` is strongly fair: a job is not passed over
  for ever by children that keep taking other jobs (each job runs once per message, and the broker's
  list is first in, first out).
* Faults are bounded (`MaxFaults`), which is what makes "eventually" meaningful; no fault is ever
  forced.

The `ai-worker` service of `docker-compose.yml` and `k8s/ai-worker.yaml` runs `python worker.py`, which only
imports the application and exits. The models assume the worker that the docstring of `worker.py`
starts (`celery -A worker worker`); with the command as deployed no job would be taken at all.

## 5. Proofs

All eight modules with proofs are checked by TLAPS to the last leaf.

* `UserServiceProofs`. `UserInv` adds to the checked properties what makes them inductive: handlers past
  their first statement have a user (`HandlersBusy`), profiles belong to live rows (`ProfilesLive`), the
  poller holds rows of the outbox (`PollerHoldsRows`), and each outbox row or announcement still owed names a
  deleted user (`SourcesDeleted`); `QueueInv` adds the messages, and `DeliveredInv` that a row about to be
  marked is in the queue already. The key step: a live user is named by
  no announcement, so the step that deletes the row starts the only one. Theorems `UserServiceTypesHold`,
  `AnnouncementsAreTrue`, `OneAnnouncement`, `TokensAreForAccounts`; and, if no message dies unconfirmed
  (`NoUnconfirmed`), `MarkedMeansQueued`. `StrandedUntilRestart` needs that no handler reconnects without a
  publisher and that channel 0 is nobody's (`ChannelInv`): then a reconnect opens a channel which the poller
  does not hold, and nobody else announces a user who has an outbox row.
* `AccountDeletionProofs`. `DeletionInv` reuses `UserInv` and `QueueInv` and adds `Settled`: an owner of
  sections has a complete account or a deleted one, for good. It is needed because the orphan job acts on
  a verdict about ids it scanned earlier: only a settled user's denial means deletion. Theorems
  `DeletionTypesHold`, `OwnersAreAnswered`; and, under the assumption `FaithfulOracle`
  (the exists endpoint never errs), `CleanupsAreSafe`, `OthersItemsKept` and the refinements `StackKeepsPromise` and `StackIsWriters`. The
  run `exists_error` shows that the assumption cannot be dropped; `WrongVerdictsAreConfined` says what is left
  without it. Four more hold under every fault. `EventsAreKept` follows an event from the outbox to the ack; it needs
  that the consumer's hands are empty between deliveries (`HandsFree`), so that none is overwritten by the next. `PledgesAreMet` is the end-to-end form: for a deleted user without tokens
  the event ends only with every row inactive, since the delivery in hand has done what its next statement presumes
  (`Handled`), and what is inactive stays so (`InactiveStays`). Both name the three ways an event gets lost.
  `VanishedForGood`: a deleted user without a token and off the lists never comes back on them. `UnseenForGood`: an
  active item of a deleted user to which neither an event nor the scan leads (`UnseenOrphan`) is active for ever. It
  and `OthersItemsKept` state their properties beside the proofs: the first describes a defect (section 6), and the
  second needs more users than the run of the stack has.
* `ListRepoProofs`. Lemmas about the statements, used by the next two: they keep the types of the
  tables, and a row stays where it was inserted.
* `FullListProofs`. Both promises look ahead to the sections still to be read: what lives in one of
  them was seen (`Ahead`), because `CreateItem` demands an active section, and what was on the list all
  the time is in the answer or in such a section (`Owed`). Theorems `FullTypesHold`,
  `AnswersAreReal`, `AnswersAreComplete`, `OthersRowsAreKept`; `StackIsWriters` carries them to the stack.
* `ListPageProofs`. `PageInv` follows each row through the one request under way for it (`Sound`): until
  the statement the page and the table agree and the request says what will change, after it the
  request carries the stored row, and what a request for another row does is no concern of it
  (`SameIsKept`). A row that two requests met is in doubt; of it the invariant keeps only that the one request of
  a row in `alone`, if it is a change, is answered with the row as stored (`LoneFits`), which is what ends the doubt.
  That no request sends a translation (`TablesFit`) is why the table never has one. Theorems `PageTypesHold`,
  `QuietPagesAreTrue`, for finitely many sections, any items, names and requests at a time.
* `ListEventsProofs`. `EventsInv` says what `doPublish` has in hand and that it reconnects only on a
  closed channel. The refinement maps wire, hand and queue to one sequence; each action moves nothing,
  appends, takes the head or cuts a run out of it. Theorems `EventsTypesHold`, `EventsAreReal`,
  `PublisherIsLossyFifo`, `LossesAreExplained`, for any queue size. `AnsweredFirstIsFirst` follows from the
  refinement: an accepted event stays before a later one (`InTurn`) under each step of the abstract FIFO.
  `EachEventOnce` follows from it likewise: neither the retry nor a crash sends an event twice.
* `SuggestJobsProofs`. `JobsInv` says where a job's one message is: nowhere before the API enqueued
  it, then in exactly one of the queue, a child, and the unacknowledged messages, so that only the child
  that holds it writes the job's keys. Theorems `PanelTypesHold`, `NoJobIsPendingAgain`,
  `DoneComesWithResult` and `JobsAreKept` hold under every fault: a child lets go of a message only when it
  has told how the job ended (`RunTold`), or after one of the two exceptions the property names. (With the
  run's one child a killed child and a crashed worker differ only in the acknowledgement; that a crash keeps every
  held message is carried by the theorem, for any children.) The same invariant
  gives the refinement `ServiceIsJobQueue`, under every fault: a child's steps are a run's, since it holds the
  job's only message, and `Restore` redelivers to one of the jobs in hand. `ShowsOwnJobUnlessPollsOverlap` assumes
  `OnePollAtATime` (each poll is answered before the next tick): then all that is under way is about the
  job of the last Run (`PanelOwnsAll`). `RunIsNeverStuck` is the safety half of `RunComesBack`.
* `SagaBenchmarkProofs`. For any users, groups and pool (`Flags`, the sense of the program's flags): `DeletionsAreRecorded`,
  `PhasesStayApart` and `BenchIsBlind`: in no behaviour does the program
  record a timeout or count an orphan. A goroutine that had not returned would go on in the next phase (`Begin`), so
  `PhasesStayApart` rests on `wg.Wait`, through `ActiveInCrew`: whoever is at work belongs to those waited for. Their properties need no run of their own; the run of
  this module shows what follows from the last.

Only model-checked: everything about liveness (`OutboxDrains`, `FulfilsPromise`'s fair half,
`NobodyWaits`, `PollingEnds`, `RunComesBack`), which the prover does not do.

## 6. Findings

Each has a run whose counterexample is the story.

1. `stale_channel`: the poller keeps the channel of startup (`cmd/main.go:84`); after one broken
   connection no outbox row is published until the process restarts, although `outbox.go:72` promises a
   retry on the next poll. `StrandedUntilRestart` proves that nothing short of a restart helps.
2. `exists_error`: any status but 200 lets the orphan job purge a live user's lists; the endpoint
   answers 404 for its own database errors. `WrongVerdictsAreConfined` bounds the damage to the user asked about.
3. `late_poll`: `clearInterval` does not cancel a poll under way; a late "done" of the previous job
   replaces the display, stops the new job's interval and unlocks Run. Overlapping polls are all it takes, and
   without them it cannot happen (`ShowsOwnJobUnlessPollsOverlap`).
4. `deleted_stays`: `api.ts:92` parses the body of the answer 204, which has none: the code after the
   await of a deletion never runs, and the deleted row stays on the page until it is opened again.
5. `bench_blind`: the benchmark decodes the object `{"sections": ...}` into a slice and ignores the error. Every
   list looks empty to it: the first poll ends each wait, and the orphan audit counts nothing. The
   consistency windows and the "0 orphans" of the reports beside it are not what they say they are.
6. `second_job`: `asyncio.run` gives each task its own event loop (`tasks.py:41`), `cache.py` keeps one Redis client
   for all of them. The second job of a child process raises at its first call (`tasks.py:18`), outside the `try`, on
   a connection of the loop that has ended: it is acknowledged and stays pending, with no fault, although
   `architecture_report.md:162` says any exception of the task sets "failed" and `phase3_implementation_plan.md:451`
   that the loop per task "works". A fault of Redis at that call ends the job the same way.

Observed while modelling, without a run of their own:

* `outbox.go:65` publishes without confirms: a message that dies with its connection is lost with its row marked
  (fault kind `unconfirmed`; the orphan job makes up for it). `PublishedIsQueued` excludes it.
* `orphan_cleanup.go:14` says the orphan job "soft-deletes their orphaned data" and is "a safety net for cases where
  the user.deleted event was lost". It is not for items: `DeleteSection` leaves them active (`list_repo.go:99`), and the
  job looks at active sections only (`:55`). When the event of a user whose sections were deleted one by one is lost
  (published before the queue was bound, which needs no fault), the items stay in the table for ever, on nobody's
  list: `UnseenForGood` proves it. No run passes or fails on it; the promises checked are stated for sections.
* The `name_secondary` the page shows after a translation is sent to nobody and stored nowhere
  (`SectionCard.tsx:71`-`73`): it is gone when the page is opened again or the item is changed. `QuietPageIsTrue`
  sets it aside.
* A translation that ends after an edit of the same item shows the item as it was created, and its
  request renames the item back (`SectionCard.tsx:71`); two quick ticks send the same value
  (`ItemRow.tsx:85`). `QuietPageIsTrue` exempts such rows until a change that meets no other
  request, so it shows that nothing else goes wrong, and where it ends.
* A killed child is acknowledged (`task_reject_on_worker_lost` is not set), so `task_acks_late` protects
  against the death of the whole worker only.
* The status expires after one hour, the default visibility timeout after which a lost message is
  restored: a client rarely sees the end of a restored job.
* `AiPanel.tsx` does not stop polling on "failed" (`:45`), and leaves Run disabled after a suggest POST
  that failed (`:79`).
* README's `ai.jobs` queue on RabbitMQ is not what the code uses: Celery's broker is Redis (`config.py`).

## 7. Not modelled, and why

* Password hashing, JWT contents, names and texts, profile fields (`UpdateProfile`): data no property
  reads. Malformed messages on `list.user-events`: nobody sends them.
* The order of messages in `list.user-events`: a requeued delivery may overtake, so the queue is a
  bag.
* `ListEvents` abstracts the statements of `ListRepo` to "changed or failed", and `Publisher.Close`,
  which nothing calls.
* The other tabs of the panel, and its remount, which starts over. The selection, the clarify dialog and
  the AI dialogs of the list page, which change no list.
* In `ListPage`, other writers of the list (a second browser, the cleanups): the page never hears of them.
* In `SagaBenchmark`, times, statistics and reports; `Drain` may end at any moment for its 30 seconds.
* A literal order of rows: `ORDER BY position, created_at` is abstracted, and with it two sections that
  get the same position from a stale length.
* The synchronous LLM endpoints and their cache: one cache-aside call each, whose concurrent misses no
  other part can tell from one. The session (its one race is a listed hazard). The api-gateway, a
  stateless proxy whose errors are the fault kind `net`. Metrics, load tests, dashboards.

## 8. Plan

Done in this order, the most important behaviour first: user-service, list-service tables and
cleanup, their composition and `DeletionPromise`; list events and `LossyFifo`; suggest jobs and the
panel; the full-list read and `ListWriters`; the list page; the benchmark; proofs beside each; `JobQueue`, the
way of an event, and what follows from each finding.

Next:

1. `Session`: token and user across login, a late `me` and logout.
2. Panel: the other tabs' results under the shared loading flag; jobs with several children.
3. `ListPage` against `ListWriters`: a second browser, and the cleanup of a deleted user.
4. `AccountDeletion` with a second user and item: a run in which `OthersItemsKept` can fail.

## 9. Running

    tlc -config AccountDeletion.cfg MCAccountDeletion.tla
    tlapm AccountDeletionProofs.tla

The `MC` module of each configuration is the `module` of its run in `PROJECT.json`.

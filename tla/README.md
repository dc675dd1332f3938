# QueueFlow: specifications and proofs

TLA+ modules for QueueFlow (`src/`): a queue of tickets kept in PostgreSQL,
changed by HTTP requests and by a Celery worker, shown on displays fed through
Redis, and worked on from a web client. The modules are written from the code;
this file says which part of the code each stands for, what TLC checks about
it, what TLAPS proves, and what is not covered.

    tlc -workers 2 -config TicketLifecycle_safety.cfg MCTicketLifecycle
    tlapm TicketLifecycle_proofs.tla

## 1. The system

| Component | State | Operations | Talks to |
|---|---|---|---|
| Ticket state machine (`state_machine/ticket_fsm.py`, trigger of migration 0003) | none: two tables of the same transitions | `transition`, `event_type_for`, `check_ticket_status_transition` | called by every status change, before and during the UPDATE |
| Ticket requests (`services/ticket_service.py`, `repositories/ticket_repo.py`, `api/v1/tickets.py`, `counters.py`, `kiosk.py`) | rows of `tickets`, `ticket_events`, `interactions` | create, call-next, start, complete, hold, cancel, no-show, transfer | the database; Redis after the commit |
| `auto_no_show` (`workers/tasks.py`, `celery_app.py`) | none of its own; reads and updates `tickets`, adds `ticket_events` | scan, update the batch, commit or fail and retry | the same rows as the requests |
| Idempotency keys (`models/idempotency_key.py`, `ticket_repo.py`, clean-up task) | rows of `idempotency_keys`, a day of validity | look up before, save after the request, daily clean-up | wraps create, call-next, start, complete and the kiosk |
| Ticket numbers (`TicketRepository.next_number`) | `tickets.number` | MAX + 1 per location; transfers keep the number | create, kiosk, transfer |
| Signage (`services/signage_service.py`, `api/v1/signage.py`, `useSignage.ts`) | a subscription, a sequence number and the last snapshot per display | publish, snapshot of several queries, stream, heartbeat, reconnect | Redis, the database |
| Analytics (`analytics_service.py`, `analytics_repo.py`, `kpi_rollup`) | none: the timestamps of `tickets`; `kpi_rollup` only logs what it finds | summary, time series, hourly rollup | the stamps the requests write |
| Administration (`admin_service.py`, `api/v1/admin/`) | `tenants`, `locations`, `users`, `user_roles`, `services`, `counters`, `channels`, `audit_log` | create, patch, assign a role | the database; an audit entry in the same transaction |
| Operator's screen (`OperatorQueue.tsx`, `TicketCard.tsx`, `client.ts`) | the cards and filters, requests in flight | poll, choose a filter, call next, the buttons of a card | the ticket requests, over HTTP |
| Connection pool, AI, authentication and RLS, rate limits, other pages | see section 7 | | |

What each has to get right:

- *State machine*: the copy in Python and the copy in PL/pgSQL agree; terminal
  statuses are terminal.
- *Requests*: no update is lost and no illegal history is recorded although the
  check is made on a status read without a lock; a customer is called once per
  wait; the log explains the status; a ticket is served at a counter of its own
  location; a completed ticket has no interaction left open.
- *auto_no_show*: it gives up tickets that were called and did not come, only
  those, and all of them sooner or later, although one bad row aborts a whole
  batch, workers die, and `task_acks_late` delivers a task again.
- *Idempotency*: a retry never repeats the request, and the answer belongs to
  the same request.
- *Numbers*: no two tickets of one location bear the same number.
- *Signage*: a display eventually shows what the database has; a snapshot is a
  state the location was in.
- *Analytics*: stamps are in order, as far as clocks agree; figures that are
  taken one after another or computed in two places fit together.
- *Administration*: no patch undoes another; unique names stay unique; the
  audit log tells what happened and nothing else.
- *Operator's screen*: an old card does no harm, and the list comes to show the
  queue.

What makes this hard to test: READ COMMITTED lets another transaction commit
between a handler's SELECT and its UPDATE; the row lock makes the UPDATE wait
and then apply to a newer row than the one that was read; the trigger lets an
UPDATE pass that keeps the status; the worker's batch is prepared from an
unlocked scan; side effects (key, publish) follow the commit in steps of their
own; screens and displays show what was true some time ago. `PROJECT.json`
lists the hazards one by one, at their lines.

## 2. Modules

| Module | Stands for |
|---|---|
| `TicketFSM` | the two transition tables and the pure functions on them |
| `AtomicTickets` | abstract specification: every request is one indivisible step of the history of a ticket, every batch one step of the histories of its tickets |
| `TicketLifecycle` | all requests and the worker as interleaving transactions; its properties and its inductive invariant |
| `KeyedRequests` | what surrounds the change of a ticket: the idempotency key before and after it, the number a new ticket gets, expiry and clean-up of keys |
| `IdempotencyPromise` | abstract specification: what the requests with one key do and are answered, as their clients see it, without a table of keys |
| `Signage` | publish after the commit, the stream of a display, its snapshots, lost messages and connections |
| `Analytics` | when each timestamp is taken and written, and the figures computed from them |
| `OperatorScreen` | the operator's cards, the requests in flight and their answers |
| `Admin` | administrators' requests on shared rows, unique keys, and the audit log |
| `MC...` | the instances for TLC, one module per specification |
| `..._proofs` | the theorems about the specification of that name |

`AtomicTickets`, `TicketLifecycle`, `KeyedRequests`, `Signage`, `Analytics` and
`OperatorScreen` all extend `TicketFSM`, so there is one state machine, and a
change of it reaches every module. `TicketLifecycle` instantiates
`AtomicTickets` with the refinement mapping `History`, the log read as
statuses. The other modules take from that refinement that a request's change
of a ticket may be one step, and add what happens before and after it: each
keeps of a ticket only what its own properties tell apart.

### TicketLifecycle and the code

State. `db` is the committed `tickets` row (status, location, service and
assigned counter); `log` the committed `ticket_events` in commit order, each
with its type and `from_status`; `open` counts the interactions of a ticket
with `ended_at` NULL; `overdue` holds the tickets whose `called_at` lies more
than five minutes back, which is all the code ever asks of that timestamp here;
`lock` says which transaction has an uncommitted version of a row; `tx` is the
transaction of each API session; `job` the task of each worker.

A request that names a ticket is `Load`, then `Reject`, `Refuse` or `Flush`,
then `Commit`; a transfer has `Requeue` between the last two:

| Code | Action |
|---|---|
| `get_or_404` (plain SELECT) | `Load`: remembers the status as `seen` |
| `transition(current, target)` raises, 409 | `Reject` |
| `flush()` in `transition_status`: UPDATE waits for the row lock, the trigger compares with the row as it is then | `Flush`, or `Refuse` when the trigger raises |
| second UPDATE of `transfer_ticket` | `Requeue` |
| `session.commit()`; events and interactions become visible with the row | `Commit`, with `Staged` the events and `OpenAfter` the interactions |
| `create_ticket`: INSERT | `Create`, then `Commit` |
| `_CALL_NEXT_CTE`: one statement, SKIP LOCKED | `CallNext`, then `Commit` |
| `get_db`: exception or lost connection | `Rollback`, from any point |
| `auto_no_show`: SELECT; UPDATEs of the flush in primary key order; commit; exception and retry | `Scan`; `UpdateStuck`; `CommitStuck`; `RefuseStuck` |
| worker process killed | `WorkerCrash` |

`Flush` joins the UPDATE with the INSERT of the event and the refresh that
follow it in `transition_status`, because the row lock is held and nothing
uncommitted is visible to anybody. For the same reason the interactions are
counted at the commit: `start_service` and `complete_ticket` touch them only
while they hold the row lock of the ticket. Requests that fail before they
read (role, tenant, unknown ticket) change nothing and are not actions. A
Celery retry is a new `Scan`: the task starts over and keeps nothing. External,
modelled from how the code uses it: PostgreSQL releases row locks at the end of
a transaction (`Release`), and SQLAlchemy's unit of work sorts the UPDATEs of
one mapper by primary key (`IsNext`).

### KeyedRequests and the code

`rows` are the committed tickets with their number, `keys` the rows of
`idempotency_keys` per tenant and key, `req` how far each HTTP request has
come. A request is `Replay`, `Conflict` or `Miss` (`get_idempotency_key` and
the comparison of hashes, which create and the kiosk leave out: `Accepts`);
then its work, which ends in a commit: `ReadNumber` and `Insert` for a
creation, `Call` or `NothingToCall`, `Load` and `Update`; then `SaveKey` with a
commit of its own, or `KeyTaken` when `uq_idempotency_tenant_key` refuses it,
or `SaveFails` when anything else goes wrong: the header is not limited in
length (`tickets.py:33`), the column is (`String(255)`), so a longer key fails
every time, after the work has been committed. Both end in a 500; after
`SaveFails` ("unsaved") there is not even a row that would stop the next retry.
`Expire` and `Cleanup` are the 24 hours and the daily task. A crash, a lost
connection or a client that gave up is a request that takes no further step,
wherever it is, and a retry is another request with the same key. `Hash` keeps
of `_hash_body` what two bodies have in common: those of start and complete are
equal. `lapsed`, `born` and the `earlier` field are history that the properties
speak of, and no step reads them.

`IdempotencyPromise` says the same of a client's side only: a request is new,
working, done, answered, failed or unrecorded, has changed a ticket or not, and
its rivals are the other requests of its tenant with its key. The answer to a
request that did its work binds the rivals for a day: none of them begins, none
is answered for work of its own, and a replay gives that very answer. Until
there is such an answer, several may do the work, which is all the code leaves
of "safe retries"; once one is answered, the others fail. The refinement
mapping is `Phases`, `Effects` and `Answers`: lookup, number, load and the row
of the key are invisible. `Lose` is the part of the promise that the code
cannot give: a request whose save fails ends unrecorded and binds nobody.

### Signage and the code

A request that changes a ticket commits (`Create`, `Change`, `Transfer`) and
owes its location a publish, which it makes (`Publish`) or does not
(`PublishFails`: the exception is swallowed, or the request ended between the
two, for instance in `KeyTaken`). The worker publishes nothing: `Scan` is its
SELECT, and `AutoNoShow` the commit of the whole batch, or of none of it, on
whatever the rows are by then. Neither does the source of a `Transfer` to
another location.

A stream begins with `Connect`, which is the answer 200 to `EventSource`; any
other answer (404, 500, the proxy's 502) is `Refuse`, after which `EventSource`
is closed for good and `useSignage` opens no other. `Subscribe` only sends the
SUBSCRIBE, as `await pubsub.subscribe` does, and goes on to the first snapshot.
Redis takes it at some time of its own (`TakesEffect`); the confirmation is
consumed by a `get_message` of the loop, so nothing orders it before the
snapshot. Then the queries of `signage_snapshot` follow one by one
(`ReadServing`, `ReadCalled`, `CountWaiting`), `Deliver`, and `Receive` for
each message; `Drop` loses the connection with everything in it, and
`EventSource` tries again. Redis is modelled as the code meets it: a publish
reaches who is subscribed at that moment and is kept for nobody. `unheard` is
history: the displays that were not told of a change that was committed after
they began to read their last snapshot, because it was not published, or
because their subscription was not in force (`Awaiting`).

### Analytics and the code

`created_at` and `called_at` are PostgreSQL's `now()`, the beginning of the
transaction (`Begin`). The other two are the application's clock, which may be
`Skew` away from the database's in either direction. `get_or_404` reads the row
that the transition is checked on (`Load`); later the clock is asked (`Stamp`);
later still the UPDATE commits (`Write`, `Stamped`), and other requests run
between the three. `moved` and `restarted` are history: tickets transferred,
and tickets whose start was written over another one.

A summary is `BeginReport`, three `RunQuery` in the order of `kpi_summary`, and
`EndReport`. `Series` and `Rollup` are operators over the rows, the latter
written out from the SQL of the Celery task rather than from `kpi_summary`.
`Unit` is what the truncation makes of the three intervals: an hour, a day, and
for "15 minutes" a minute. An average is kept as a sum and a count.

### OperatorScreen and the code

`list` is what the cards show, `flight` each request from `Send` over `Serve`
to `Receive`. The screen polls (`Poll`), chooses filters (`Choose`), calls
(`CallNext`) and clicks (`Click`, which offers the `Buttons` of the status the
card shows and is off while the card is `Loading`). `Shown` is what
`setTickets` does with an answer. The server's handlers are single steps here,
but for what is left of their overlap: a repetition of a change is refused, or
made again, as the trigger lets it be when both were checked before
(`Accepted`);
`Elsewhere` is every other client, the kiosk and the worker. A filter that is
not set is sent as the text "undefined" by `URLSearchParams`, which the server
rejects as a service and matches with nothing as a status (`ServeList`,
`Query`).

### Admin and the code

`rows` has a row of some kind for each object. A request is `Create` or
`Update` (the unlocked read and the assignment of the body), `Flush` (the
statement, which waits for row locks and for entries of a unique index, or is
refused: `Taken`), and `Commit` (which inserts the audit entry first, as
`_audit` only adds it to the session). `Changed` is the ORM's rule that an
UPDATE sets what differs from what was read. `WaitsFor` has all that a
transaction can wait for, the foreign key from an audit entry to the actor's
tenant included: renaming a tenant takes the lock that this check conflicts
with, because names are unique. `BreakDeadlock` is PostgreSQL's.

## 3. Runs

| Run | Instance | Shows |
|---|---|---|
| `lifecycle_safety` | 2 tickets, 2 sessions, 1 worker, 2 locations with a counter each | types, the safety invariants, the inductive invariant, what no step does to final and held tickets and to places, and the refinement of `AtomicTickets` |
| `lifecycle_liveness` | 2 tickets, 1 session, 2 workers, 1 location, fairness | no set of transactions waits for each other's rows; every request ends; an overdue ticket leaves CALLED |
| `lifecycle_expiry` | as the safety run | violation of `OnlyCalledTicketsExpire` |
| `lifecycle_fromstatus` | as the safety run | violation of `FromStatusIsPrevious` |
| `lifecycle_interaction` | as the safety run | violation of `OneInteractionPerEpisode` |
| `keyed_safety` | 6 requests, 5 of them with one key, 3 tickets, 2 locations, 2 tenants | what is left of "safe retries", replays, refused saves, duplicate numbers, clean-up, and the refinement of `IdempotencyPromise` |
| `keyed_duplicate` | the same | violation of `NoDuplicateTicket` |
| `signage_display` | 2 tickets, 2 locations, 1 display, 4 changes, 1 lost connection | a display with nothing more to hear is right; displays catch up |
| `signage_torn` | 1 ticket, 5 changes, no lost connection | violation of `ShownOnce` |
| `analytics_figures` | 1 ticket, 2 requests at a time, hours of 2 minutes, clocks a minute apart | order of the stamps; the figures fit together |
| `operator_catchup` | 1 ticket, 1 service, 2 lists and 1 click in flight, 3 events | old cards do no harm; the list catches up; no deadlock |
| `admin_requests` | 2 administrators, 3 requests on 2 tenants, a user, and a location, a counter, a user and a role to be created | patches, audit, who can deadlock; every request ends |

Properties of the passing runs:

- `LogMatchesStatus`: the status column is the projection of the event log, as
  ADR 0002 promises; it would break if a transfer lost its second event, or if
  a status were written without its event.
- `LogReplaysLegally`: every history replays along the state machine, but for
  repetitions of a status. The repetitions are real: two requests with one
  target, both having read the status before it, both commit.
- `NoDoubleCall`: between two calls of one ticket lies a WAITING event.
- `ServedAtACounterOfItsLocation`: no ticket is called or served without a
  counter or at one of another location, after transfers in particular.
- `CompletedLeavesNoneOpen`: completion ends the interactions of double starts
  as well.
- `TerminalIsFinal`: no request or batch in flight reverses a final status.
- `FromStatusWasHeld`: what an event records as `from_status` may be stale
  (the finding of `lifecycle_fromstatus`), but the ticket had that status at an
  earlier event, and the step from it is in the table.
- `HeldIsOnlyCanceled`: VALID_TRANSITIONS lets a held ticket go back to
  WAITING, and a transfer or a start that was checked before the hold is still
  in flight; no handler, however late, brings the ticket back.
- `PlacesChangeByCallOrTransfer`: requests read the whole row and write it
  later, with a call or a transfer in between; location, service and counter
  are never written back.
- `TransactionsFit`: what a transaction has written is still based on the
  committed row it replaces; no update is lost.
- `ImplementsAtomicTickets`: taken together, requests and batches behave as if
  indivisible; a transfer is never half visible, a batch is all or nothing.
- `NoLockDeadlock`: requests take one row, workers take several in key order.
- `RequestsEnd`, `CalledTicketsExpire`: section 4.
- `AtMostOnceAfterAnAnswer`: a request sent after another with its key was
  answered does not repeat the work for 24 hours. Without "was answered" it is
  false, which is the finding of `keyed_duplicate`.
- `RefusedOnlyBesideARival`: a save that is refused as a duplicate, after the
  work was committed, has a rival that did work under the key, overlapping or a
  day ago. Saves that fail otherwise (`SaveFails`) need no rival.
- `DuplicateNumbersHaveACause`: two tickets of a location bear one number only
  if their numbers were read before either was committed, or after a transfer.
- `KeepsThePromise`: lookup, work and save in three transactions, with requests
  that overlap or die between them, a key in use and a key that expires, are to
  the clients what `IdempotencyPromise` describes. Among other things a replay
  never shows a tenant the ticket of another one or of another key, which the
  mutant that forgets the tenant in the SELECT does.
- `ExpiredKeysAreDeleted`: a key that no lookup finds and every save trips over
  does not stay.
- `QuietDisplayIsCurrent`: whatever falls between the queries of a snapshot, a
  display with an open stream and nothing to take is right, unless a change was
  withheld from it after the snapshot began. With commit before publish, and
  messages kept while a snapshot is read, there are two ways only to withhold
  one: it is not published, or it is published before the SUBSCRIBE that the
  stream has sent is in force. The mutant throws away what was published while
  a snapshot was read.
- `DisplaysCatchUp`: a display that is wrong, was told of every change and has
  not been closed by `EventSource` does not stay wrong, whatever connections
  are lost. The mutant lets a reconnected stream go on without a snapshot, as
  `Last-Event-ID` might suggest.
- `CompletedAtMeansTerminal`, `TimesInOrder`: overlapping requests for a ticket
  that stamp it twice leave consistent stamps, if it was never transferred, up
  to the difference of the clocks: `Skew` between the database's and an
  application's, twice that between two applications'. One overlap does not: of
  two starts the second may be stamped after a completion in between and be
  written over the first (`restarted`), and then the service time is negative.
  Each bound and the exception are exercised: without any one of them the run
  finds a violation.
- `SummaryCoversItsCompletions`: it depends on the order of the three queries;
  the mutant that counts last violates it.
- `PeriodsAddUp`: a ticket on the border of two periods is in one of them.
- `PointsMatchSummaries`: the series against the summary. An hourly or daily
  point is what the summary of that hour or day counts, so it depends on the
  width that `date_trunc` gives the bucket; the mutant truncates to the minute,
  which is what really happens to "15 minutes" (section 6).
- `RollupAgreesWithSummary`: the Celery task against the API. The one
  difference is in the property: what the summary reports as null, the rollup
  logs as 0.
- `ClicksActOnWhatTheyShow`: a card may be older than the ticket, and Start,
  Complete and Hold still act only on a ticket in the status the card showed,
  or repeat what another request has done meanwhile.
- `ScreenCatchesUp`: answers arrive in any order; the list comes to rest on the
  current filter, when a service is chosen.
- `PatchesChangeWhatTheyName`: two patches of different attributes of one row,
  read before either was committed, both survive.
- `BeforeWasHeld`: an audit entry's `before` is the row as it was committed
  when the request began. Overlapping patches may all record the same one; none
  records its own result or a row that was rolled back.
- `DeadlocksAreOfRenames`: a ring of requests each waiting for another consists
  only of renames of tenants that are not the actor's own. Creates, other
  patches, and patches that leave the name as it was, are never in one.
- `AuditTellsWhatHappened`, `EveryRequestEnds`: under creations and renames
  that wait for each other, fail or deadlock.

### Bounds

*Lifecycle.* `MaxEvents` is the only artificial bound: a ticket whose log has
reached it is loaded by no new request (`Load`), so that logs, and with them
the state space, stay finite; `Create`, `CallNext`, the worker and all that is
in flight are not bounded by it. In the safety runs `t1` may log six events and
what is then in flight: enough to be created, called, started, transferred (two
events) and called again, with a stale request racing each of them. `t2` may
log two and what follows, which gives call-next a choice between two tickets
and the worker a batch of two. Priority and creation time disagree for the two
tickets, as do creation time and primary key. Two sessions are what a race on
one row takes; a third would wait behind the second. One worker is enough for
safety, as a second one meets the same guards as the first; two are needed for
deadlock and are in the liveness run. Sessions are interchangeable, hence the
symmetry set of the safety runs; the liveness run uses none.

*KeyedRequests.* The set `Request` is the bound: each is sent at most once, and
nothing else is limited. A kiosk creation and its retry, a creation of another
tenant with the same key at another location, and call-next, start and complete
of one ticket. Kiosk, create, start and complete meet in one key in every pair,
as requests that overlap and as retries. Call-next goes without a key in the
instance: with one it looks it up, compares and saves by the actions that start
and complete share with it, and the theorems of section 5 are about it as well.
Numbers are read in pairs, before and after a transfer.

*Signage.* `MaxChanges` commits and `MaxDrops` lost connections. Four changes
create and move two tickets while one snapshot is read; the fifth in
`signage_torn` is what the torn snapshot takes. Displays do not affect one
another, so one is enough; the second location is where transfers go.

*Analytics.* `MaxTime` stops the database's clock after two minutes and an
application's, `Skew` of a minute ahead, after three; an hour is two minutes and
a day four; one transfer at most (in the guard of `Load`); `Asked` holds a
period that ends while the clock runs and one that is refused. The figures are
sums and counts over independent tickets, so one ticket shows what a set of them
would; for more of them they are proved. Two sessions overlap, and are
interchangeable.

*OperatorScreen.* `MaxEvents` bounds the filter changes, the changes made
elsewhere and the failures; polls, clicks and answers are not bounded, but at
most two lists and one click are in flight, which is enough for answers to
overtake each other. *Admin.* `MaxRequests`, and the bodies in `Patch`: one
attribute, both, both unchanged, and none.

Only `operator_catchup` checks for deadlock: there the interval always fires.
In the other instances the system rightly has nothing left to do once every
request of the bound is served and every ticket final.

## 4. Fairness

`TicketLifecycle`'s `FairSpec` assumes:

- strong fairness of a request's own steps. A request waiting for a row lock is
  enabled again each time the lock is free, and PostgreSQL grants locks in the
  order they were asked for, so it is not passed over for ever;
- weak fairness of `Scan`: beat starts the task every ten minutes
  (`celery_app.py`);
- strong fairness of a batch's steps, for the same reason as a request's;
- workers do not crash for ever. Each may die any number of times.

Nothing is assumed of clients: no request has to arrive, and `Rollback` may
end any request at any time. `Age` is not fair either, so
`CalledTicketsExpire` speaks of tickets that have become overdue. It holds
although requests can make the trigger refuse a row and abort a batch: each
abort needs a ticket that has left CALLED for a status from which there is no
way to NO_SHOW, and only a call brings a ticket back. With the bound of the
instance that happens finitely often; in a system with customers arriving for
ever, batch after batch could be aborted by a different ticket, and the run
does not exclude that.

The other modules:

- `KeyedRequests`: weak fairness of `Cleanup` alone, which beat starts every
  day and Celery retries. No request has to go on.
- `Signage`: a request that has committed publishes or fails to; a stream's
  coroutine runs on; `EventSource`, which browsers let retry by itself for as
  long as there is no answer, gets one in the end, good (`Connect`) or bad
  (`Refuse`, after which it does nothing more). All weak: none of these steps
  is disabled by another actor, except by a lost connection, which is bounded.
  Nothing is assumed of `TakesEffect`: a subscription may never come into
  force.
- `OperatorScreen`: `setInterval` fires again and again (`Poll`), the server
  answers what it was sent, and answers arrive or fail.
- `Admin`: weak fairness of `Flush`, `Commit` and `BreakDeadlock`. A request
  that waits is enabled for good once the one it waits for has ended, as there
  are finitely many; a cycle is broken after PostgreSQL's `deadlock_timeout`.
- `Analytics` has safety properties only.

## 5. What is proved

All theorems hold for any sets of tickets, sessions, workers, requests, keys,
displays and so on, under the `ConstantsAssumption` of their module and
nothing else, except for what the second table says in the statements
themselves: types of the constants, NULL is none of the other values, the set
of tickets is finite, and, in `TicketLifecycle`, primary keys are distinct and
sessions are no workers; in `KeyedRequests`, start and complete name a ticket
and two creations do not make up the same id; in `Admin`, also that the rows
there are at first are unique (`StoredAssumption`). TLC evaluates each of these
in the runs of the module. The numeric bounds are parameters, so the theorems
hold for all of them.

| Theorem | Statement |
|---|---|
| `TriggerAgreesWithTable` | the trigger accepts what `VALID_TRANSITIONS` allows and updates that keep the status |
| `TypeCorrect` | `Spec => []TypeOK` (`TicketLifecycle`) |
| `NoLostUpdate` | `Spec => []TransactionsFit` |
| `StatusIsProjection` | `Spec => []LogMatchesStatus` |
| `HistoriesAreLegal` | `Spec => []LogReplaysLegally` |
| `CalledOnce` | `Spec => []NoDoubleCall` |
| `CountersMatch` | `Spec => []ServedAtACounterOfItsLocation` |
| `CompletedIsClosed` | `Spec => []CompletedLeavesNoneOpen` |
| `TerminalStays` | `Spec => TerminalIsFinal` |
| `FromStatusIsPast` | `Spec => []FromStatusWasHeld` |
| `HeldStays` | `Spec => HeldIsOnlyCanceled` |
| `PlacesStay` | `Spec => PlacesChangeByCallOrTransfer` |
| `RowsDoNotDeadlock` | `Spec => []NoLockDeadlock` |
| `RequestsAreAtomic` | `Spec => ImplementsAtomicTickets` |
| `RequestTypes` | `Spec => []TypeOK` (`KeyedRequests`) |
| `RetriesAfterAnAnswerAreSafe` | `Spec => []AtMostOnceAfterAnAnswer` |
| `ReplaysAreOfTheKey` | `Spec => []ReplaysAnswerForTheKey` |
| `RefusalsHaveRivals` | `Spec => []RefusedOnlyBesideARival` |
| `DuplicatesHaveACause` | `Spec => []DuplicateNumbersHaveACause` |
| `KeysKeepThePromise` | `Spec => KeepsThePromise` |
| `SignageTypes` | `Spec => []TypeOK` (`Signage`) |
| `QuietDisplaysShowTheTruth` | `Spec => []QuietDisplayIsCurrent` |
| `AnalyticsTypes` | `Spec => []TypeOK` (`Analytics`) |
| `CompletedAtIsTerminal` | `Spec => []CompletedAtMeansTerminal` |
| `StampsAreInOrder` | `Spec => []TimesInOrder` |
| `SummariesCoverCompletions` | `Spec => []SummaryCoversItsCompletions` |
| `PeriodsPartition` | `Spec => []PeriodsAddUp` |
| `PointsAreSummaries` | `Spec => []PointsMatchSummaries` |
| `RollupAgrees` | `Spec => []RollupAgreesWithSummary` |
| `ScreenTypes` | `Spec => []TypeOK` (`OperatorScreen`) |
| `StaleClicksAreHarmless` | `Spec => ClicksActOnWhatTheyShow` |
| `AdminTypes` | `Spec => []TypeOK` (`Admin`) |
| `AuditIsTrue` | `Spec => []AuditTellsWhatHappened` |
| `BeforeIsOfTheTable` | `Spec => []BeforeWasHeld` |
| `DeadlocksNeedRenames` | `Spec => []DeadlocksAreOfRenames` |
| `NamesStayUnique` | `Spec => []NamesAreUnique` |
| `PatchesAreNarrow` | `Spec => PatchesChangeWhatTheyName` |
| `OnlyOnceCalledExpire` | `Spec => []ExpiryFollowsCall` |

That is every safety property of a passing run, invariants, action properties
and both refinements, and three invariants that no run lists:
`ReplaysAnswerForTheKey` says directly one thing that `KeepsThePromise`
implies, `NamesAreUnique` is what the unique constraints of the tables are for,
and `ExpiryFollowsCall` is what `auto_no_show` does guarantee.

What the documents claim and the runs refute (section 6) holds under
conditions, and these theorems say under which. The conditions are not promises
of the code: they are hypotheses about a behaviour, which some executions of
the program satisfy and others do not.

| Theorem | Statement |
|---|---|
| `FromStatusIsPreviousWhenAlone` | `Spec /\ []OneAtATime => []FromStatusIsPrevious` |
| `OnlyCalledExpireWhenAlone` | `Spec /\ []OneAtATime => []OnlyCalledTicketsExpire` |
| `HistoriesAreStrictWhenAlone` | `Spec /\ []OneAtATime => []LogReplaysStrictly` |
| `OneInteractionWhenCompleted` | `Spec /\ []OneAtATime /\ [][LeavesServiceCompleted]_vars => []OneInteractionPerEpisode` |
| `NoDuplicateForPatientClients` | `Spec /\ [](OneAtATime /\ ExpiredKeysRest /\ SavesSucceed) => []NoDuplicateTicket` (`KeyedRequests`) |
| `PatientClientsFindTheirKeysFree` | `Spec /\ [](OneAtATime /\ ExpiredKeysRest) => []NoKeyIsTaken` (`KeyedRequests`) |
| `NumbersUniqueWhenCurrent` | `Spec /\ [][NumbersAreCurrent]_vars => []NumbersAreUnique` (`KeyedRequests`) |
| `ShownOnceWithoutTransfer` | `Spec /\ [][NoTransferWithinASnapshot]_vars => []ShownOnce` (`Signage`) |

- `OneAtATime` (`TicketLifecycle_proofs`): no ticket is read while another
  transaction is engaged with it, from its own first read to its end. A
  `SELECT ... FOR UPDATE` in `get_or_404` and in the task would ensure it.
- `LeavesServiceCompleted`: no ticket is held, transferred or canceled while it
  is being served. What would ensure the conclusion without this is closing the
  interaction in those handlers, too.
- `OneAtATime` and `ExpiredKeysRest` (`KeyedRequests_proofs`): no two requests
  with one key are between the lookup and the answer, a request that died there
  included, and none works while an expired row has its key. Saving the key in
  the transaction of the work would make the first unnecessary, replacing
  expired rows the second.
- `SavesSucceed` (`KeyedRequests_proofs`): no save fails for another reason
  than the unique constraint. It would be unnecessary as well with one
  transaction; with two, a limit of 255 characters on the header removes the
  one cause that comes back with every retry.
- `NumbersAreCurrent`: no ticket of the location is committed between the
  reading of a number and its INSERT, and none is transferred to another
  location. One transaction does not ensure the former; a lock on the location
  would.
- `NoTransferWithinASnapshot`: a ticket the first query listed as served is not
  transferred before the second query. Reading the snapshot in one REPEATABLE
  READ transaction would ensure the conclusion without it.

On small instances like those of section 3, TLC finds the conclusion of each
violated as soon as one of its conditions is dropped, so none of them is idle:
a stale read or a departure from service for the interactions; an overlap, a
death, the reuse of an expired key or a failed save; a stale number or a
transfer. Nor do they exclude what matters: under `OneAtATime` tickets are
still called, held, transferred and given up, and keys are still repeated,
replayed and expire.

The arguments:

*TicketLifecycle.* None of the properties is inductive alone, because a commit
writes a row prepared several steps earlier. `TransactionsFit` says why the
preparation is still valid:

1. `WritersHoldLocks`: whoever has an uncommitted row has its lock, so the
   committed row below it does not change until the commit;
2. `WritesFitRows`, `BatchesFitRows`: at the time of the write the trigger
   accepted the step from the committed row, and by 1 it still does. The status
   the handler had read (`seen`) plays no part in it, which is exactly why
   stale reads cannot do harm to the history, and why `from_status`, which is
   taken from `seen`, can be wrong;
3. `CommittedStatus`: CREATED is never written and TRANSFERRED is overwritten
   before its commit;
4. `WaitingAfterCalls`: carries `NoDoubleCall` over the wait;
5. `DecidedOnCommittedStatus`: what a handler has seen, and so what it will
   record as `from_status`, is the status after an event that is in the log by
   then. Logs only grow (`LogsGrow`), so it stays there.

`IInv` in `TicketLifecycle_proofs` is `TypeOK`, `TransactionsFit` and the
properties; `InvInit` and `InvStep` show that it is inductive, one step per
action. `AtomicTickets_proofs` adds the step simulation: only `Commit` and
`CommitStuck` change the log, and each maps to one action of `AtomicTickets`;
everything else is a stutter. `RowsDoNotDeadlock` adds that whoever holds a
lock has written the row (`HoldersHaveWritten`) and that a batch has written
all rows with smaller keys than its next one (`RowsInOrder`); in a set of
actors that all wait, the one whose held row has the greatest key waits for a
row with a greater key still, held by another of the set. The greatest element
is `Greatest` in `TicketFSM_proofs`, for which tickets have to be finitely
many.

The three action properties follow from the invariant at the only steps that
change a row, `Commit` and `CommitStuck`: what they write is a step of the
trigger from the committed row, by 1 and 2, whose place they keep unless they
are a call or a transfer (`WritesFitRows`).

The conditional theorems rest on `ReadsAreFresh`: under `OneAtATime`, what a
transaction has seen is what the committed row still says, because whoever
commits a change of the row is engaged with the ticket (`EngagedRowStays`). By
`NewEventsBy`, every event that a step adds is CREATED or WAITING, or records
the decision of one request or batch; so its `from_status` is the status after
the last event, by `LogMatchesStatus`. `ExpiryFollowsCall` needs no such
condition, only `BatchesWereCalled`: what a batch has found CALLED has a call
in its log, and logs only grow.

*KeyedRequests.* `SavedKeysAreTrue` says that a stored key names work that the
request who saved it has committed; `AnswersAreRemembered` that who was
answered for work of its own has saved its key, and the key is still there if
it has not lapsed. So a request that looks a key up after such an answer finds
it. `NumbersGrow` says that a number that was read exceeds those of all tickets
in `born`; numbers never change, which is why a transfer cannot make two of
them equal afterwards.

For `KeysKeepThePromise` a step of a request is mapped to one of the promise's,
or to a stutter (`RequestRefines`, one case per action). Two lemmas carry it:
who finds no live key is bound by nobody (`NothingBinds`, by
`AnswersAreRemembered`), and who finds one, or trips over one, was preceded by
its owner's answer, which counts unless the key has expired (`OwnerBinds`). The
latter needs one invariant more, `LapsedKeysAreExpired`: the key of a request
whose day is over is expired or gone.

Under `OneAtATime` and `ExpiredKeysRest`, the key of a request at work is free
(`BusyKeysAreFree`), so its save is not refused. A key cannot be both free and
saved, nor saved by two requests; therefore, by `AnswersAreRemembered`, no two
requests with one key have done the work, if every save succeeds. For the
numbers: one that is read is the greatest at its location plus one, so it is
new if none was added since.

*Signage.* `ReadsAreCurrent`: as long as no publish is owed or on its way to a
display and none was withheld, what its stream has read so far is what the
queries would find now. Every commit breaks the premise for the displays it
concerns, in the same step. `ShownOnceWithoutTransfer` needs `ReadOnce`: a
ticket that the first query has listed as served is still in a status from
which only a transfer leads back to CALLED (`PastIsClosed`).

*Analytics.* `PastStamps`: nothing is stamped later than the clock it was taken
from says now. For a ticket that was never transferred, `Ordered` relates the
stamps in the row to those that requests in flight still have to write: whoever
is about to start or to complete has read a row that was called, or started,
and stamps later than that, as far as the clocks agree. Only a start that is
written over a start can spoil this for a completion in flight, which is what
`restarted` records. `ReportCovers` says of a summary's queries that completed
tickets stay completed and stay in their period (`CompletionsStay`), so later
queries are over more of them. `PointsAreSummaries` is arithmetic: truncation
to a multiple of the width gives b exactly for the times from b to b + width
(`Truncation`), so the tickets of bucket b are those of the period that begins
there (`BucketIsPeriod`), which is false for any other width. `RollupAgrees`:
both are over the same tickets, and a null stands for a sum of zero
(`ZeroForNull`).

*OperatorScreen.* `ClicksAreButtons`: a click in flight was among the buttons
of the status it was shown with; from that status and no other does the state
machine allow Start, Complete and Hold (`OneWayIn`), and what the trigger lets
through besides is a repetition.

*Admin.* `Alone`: an object being created belongs to one session, and one that
is updated exists. `KeysAreApart`: a key that was flushed and not committed is
neither that of a row nor of another session's flushed key, as the second one
waits or is refused. `RowsAreLocked`: two sessions have not both written one
row. In a ring of waits everybody is waited for and has therefore written, so
everybody waits for the foreign key of its audit entry, which only a rename of
its actor's tenant blocks; and as the lock of that row has one owner, nobody in
the ring renames its own. `RowsAreOfThePast`: what is in the table, or was read
by an open update, was stored at first or left by a request committed before.

Only model-checked: the liveness properties `RequestsEnd`,
`CalledTicketsExpire`, `ExpiredKeysAreDeleted`, `DisplaysCatchUp`,
`ScreenCatchesUp` and `EveryRequestEnds` (fairness and ENABLED are out of the
prover's reach).

## 6. What the runs found

- *A waiting ticket is given up* (`lifecycle_expiry`,
  `workers/tasks.py:145`). `auto_no_show` updates by id what it found CALLED
  some time before. A ticket that is started and transferred in between waits
  in its new queue when the UPDATE arrives, and the trigger allows
  WAITING -> NO_SHOW. The docstring (`tasks.py:127`) speaks of tickets stuck
  in CALLED. The customer was called at least once (`OnlyOnceCalledExpire`),
  and a stale read is the only cause (`OnlyCalledExpireWhenAlone`).
- *from_status is not the previous status* (`lifecycle_fromstatus`,
  `ticket_repo.py:142`), when another commit came between the read and the
  UPDATE; migration 0002 says it is. Nothing else causes it
  (`FromStatusIsPreviousWhenAlone`), nor the repetitions that
  `LogReplaysLegally` allows (`HistoriesAreStrictWhenAlone`).
- *Interactions are left open* (`lifecycle_interaction`,
  `ticket_service.py:112`): hold, cancel and transfer take a ticket out of
  service and do not end the interaction that `start_service` opened; when a
  transferred ticket is completed elsewhere, both of its interactions end as
  completed. Two concurrent starts, which both commit, violate the same
  property by opening two for one episode. There is no third cause
  (`OneInteractionWhenCompleted`).
- *A retry creates a second ticket* (`keyed_duplicate`,
  `ticket_service.py:88`). The ticket is committed before its key is saved, so
  a retry between the two, or after a crash between them, finds no key; nor
  does any retry of a request whose save fails, as it always does for a key of
  more than 255 characters. `docs/security.md:70` says the header prevents
  duplicate ticket creation. It does for clients that wait for an answer before
  they repeat a key, and leave an expired one alone until it is deleted
  (`NoDuplicateForPatientClients`).
- *A snapshot is not a point in time* (`signage_torn`, `ticket_repo.py:256`):
  between its queries a ticket can be transferred back to the location and
  called, and is then shown as being served and as being called.
  `README.md:227` calls the endpoint a point-in-time snapshot. Nothing but such
  a transfer has this effect (`ShownOnceWithoutTransfer`).

Noticed while modelling, without a run of their own:

- *Keys and numbers.* A key that was used for another body is answered with
  409, where `docs/security.md:71` says 422. `docs/data-model.md:197` calls the
  numbering safe under concurrent inserts, which it is not
  (`NumbersUniqueWhenCurrent` says when it is), and
  `docs/architecture.md:49-55` shows the key's INSERT in the transaction of the
  ticket, in which it is not. `counters.py:46` and `VERSIONING.md:39` promise
  safe retries; what holds is `AtMostOnceAfterAnAnswer`. Start and complete
  hash equal bodies, so one key serves both, and the second is answered as a
  replay of the first; create and the kiosk compare no hash.
- *Keys.* A key of more than 255 characters fails in its save, after the commit
  (`tickets.py:33`, `counters.py:42`, `kiosk.py:39` do not limit the header):
  the client gets a 500, nothing is published, and every retry does the work
  again.
- *Displays.* A change that is published after a stream's first query and
  before its SUBSCRIBE is in force is shown only with the next change of the
  location, although the docstring of `sse_stream` says that it "re-sends the
  snapshot on every update" (`signage_service.py:60`). An answer other than 200
  closes `EventSource` for good; `useSignage.ts:45-46` says "Retrying…" and
  "EventSource auto-reconnects". Nobody tells a display of a ticket that
  `auto_no_show` gave up, or that left its location by transfer.
- *Analytics.* A cancellation checked before a service began and written after
  it leaves `completed_at` before `service_started_at`; so can transferred
  tickets, which keep their stamps, and a second start that was checked before
  the first was committed and stamped after the completion. Such service times
  are negative, and in the averages. `now()` is the start of the transaction,
  so a ticket may be called before it was created, by the clock. The average
  service time includes tickets canceled while being served. An average of zero
  is `null` in the summary and zero in the rollup's log. "15 minutes" becomes
  buckets of a minute. `kpi_rollup` looks only at tickets created within the
  last hour.
- *call-next.* `_CALL_NEXT_CTE` writes `:service_id::uuid` inside `text()`
  (`ticket_repo.py:35`), which SQLAlchemy may not take for a bound parameter.
  The models take the statement as it is meant.
- *Administration.* `create_location` always fails, at its commit, since a UUID
  goes into a JSON column (`admin_service.py:129`), and `update_location`
  writes no audit entry, though `docs/security.md:106-109` lists both as
  audited. `before_json` is what an unlocked read found. A PATCH cannot set a
  field to null. Two administrators who rename each other's tenant wait for
  each other until PostgreSQL ends one of them.
- *Web client.* Without a service the list request is refused, and with status
  "All" it finds nothing, because `URLSearchParams` sends "undefined". A card
  that leaves the list and comes back has forgotten that a request is running.
  The button "Call" of a card calls whoever is next. An old card's "No Show"
  can hit a ticket that was transferred and waits again, its "Cancel" any
  ticket that has not ended. `Kiosk.tsx:51` calls `ticketApi.kioskCreate`,
  which `client.ts` does not define.

## 7. Not modelled

- *Connection pool*: what happens at its limit is SQLAlchemy's queue; the code
  sets sizes. A stream keeps the connection of its last snapshot for as long as
  its display is connected (`api/v1/signage.py:55`), so the pool bounds the
  number of displays. That is a matter of configuration rather than of order.
- *AI suggestions and wait prediction*: stateless, sequential, reads only.
- *Authentication, roles, row-level security*: checks before a handler, without
  state that interacts with tickets; a request that fails them changes nothing.
- *Rate limits, logging, tracing, configuration*: library middleware and
  settings.
- *Log-in, kiosk form and analytics pages of the web client*: forms around one
  request each, which `KeyedRequests` and `Analytics` have on the server's
  side.

Within the modules: columns no property is about (`priority` after creation,
`notes`, the actor and payload of events); the deletion of tickets, which no
endpoint offers; the failure of PostgreSQL itself, which to a transaction is a
`Rollback`; heartbeats, sequence numbers, names and the average wait of
snapshots; the 95th percentile and throughput per hour of the analytics; slugs,
role checks and the lists of administration. `CounterLocation` is a constant of
`TicketLifecycle` because `CounterUpdate` has no location.

## 8. What is left

All modules of the plan are written: state machine, lifecycle and its
refinement; keys and numbers (one module, as they meet in the same handlers);
signage; the timestamps and figures; and, beyond it, administration and the
operator's screen. The connection pool was dropped for the reason above.

Worth doing next:

1. `Signage` against a display that shows some past state of its queue, should
   the snapshot be read in one transaction with a snapshot of its own.
2. `IdempotencyPromise` without the case of several requests at work, should
   the key be saved in the transaction of the work.
3. The lifetime of a connection under many streams, if the pool's size is to be
   justified rather than chosen.

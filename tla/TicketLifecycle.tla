-------------------------- MODULE TicketLifecycle --------------------------
(***************************************************************************)
(* The life of tickets in the database: every API request that changes a   *)
(* ticket's status, and the auto_no_show worker, as transactions that       *)
(* interleave under PostgreSQL's READ COMMITTED isolation.                 *)
(*                                                                         *)
(* A handler reads the ticket without a lock, checks the state machine on  *)
(* the status it read, and only then writes.  The write takes the row lock *)
(* (waiting for it if another transaction has it), and the trigger of      *)
(* migration 0003 sees the row as the last commit left it.  Between the    *)
(* two any other request or worker may run; a transaction may also die at  *)
(* any point, which rolls it back.                                         *)
(*                                                                         *)
(* Ticket numbers, idempotency keys and the signage publish that follows   *)
(* the commit do not influence any of this and are not in this module.     *)
(***************************************************************************)
EXTENDS TicketFSM, Naturals, Sequences, FiniteSets

CONSTANTS
  Ticket, Session, Worker,      \* rows; API database sessions; Celery workers
  Location, Service, Counter,
  None,                         \* SQL NULL, and Python's None
  CounterLocation,              \* Counter.location_id
  Origin,                       \* per ticket: the location and service it is created for
  Priority, CreatedAt, Pk,      \* per ticket: priority, created_at, order of the ids
  MaxEvents                     \* bound: a ticket with as many events is read by no new request

ASSUME ConstantsAssumption ==
  /\ CounterLocation \in [Counter -> Location]
  /\ Origin \in [Ticket -> [location : Location, service : Service \cup {None}]]
  /\ Priority \in [Ticket -> Nat] /\ CreatedAt \in [Ticket -> Nat]
  /\ IsFiniteSet(Ticket) /\ Pk \in [Ticket -> Nat]
  /\ \A t, u \in Ticket : Pk[t] = Pk[u] => t = u
  /\ Session \cap Worker = {}
  /\ None \notin Session \cup Worker \cup Counter \cup Ticket
  /\ None \notin Status /\ MaxEvents \in [Ticket -> Nat]

VARIABLES
  db,       \* tickets: the committed rows
  log,      \* ticket_events: the committed events of a ticket, in commit order
  open,     \* interactions: how many of a ticket's have ended_at NULL
  overdue,  \* tickets whose called_at is more than five minutes ago
  lock,     \* the transaction that has written a row and not yet ended
  tx,       \* the request each API session is serving
  job       \* auto_no_show in each worker: tickets to update, tickets updated

vars == <<db, log, open, overdue, lock, tx, job>>

----------------------------------------------------------------------------
\* Rows, events and transactions

Absent == "ABSENT"    \* the status of a row that is not there

AbsentRow ==
  [status |-> Absent, location |-> None, service |-> None, counter |-> None]

Row == [status : Status, location : Location, service : Service \cup {None},
        counter : Counter \cup {None}]

Event == [type : EventType, from : Status \cup {None}]

\* The handlers that read the ticket first, by the status each asks for:
\* start_service, complete, hold, cancel, no_show and transfer
Target == {"IN_SERVICE", "COMPLETED", "HOLD", "CANCELED", "NO_SHOW", "TRANSFERRED"}

\* What a session holds: the status it is moving the ticket to (WAITING is a
\* new ticket, CALLED is call-next), ticket.status as it read it (seen), and
\* the row version it has written but not committed (row).
Idle == [pc |-> "idle", to |-> None, ticket |-> None, seen |-> None,
         row |-> AbsentRow]

Transaction ==
  {Idle} \cup
  [pc : {"loaded", "requeue", "flushed"}, to : Target \cup {"WAITING", "CALLED"},
   ticket : Ticket, seen : Status \cup {None}, row : Row \cup {AbsentRow}]

NoJob == [todo |-> {}, done |-> {}]

EventOf(type, from) == [type |-> type, from |-> from]

\* Mutant: from_status is ticket.status after the assignment, not before it
BugFrom(x) ==
  IF x.to = "WAITING" THEN <<EventOf("CREATED", None)>>
  ELSE IF x.to = "TRANSFERRED"
  THEN <<EventOf(EventTypeFor(x.seen, x.to), x.to), EventOf("WAITING", None)>>
  ELSE <<EventOf(EventTypeFor(x.seen, x.to), x.to)>>

\* Mutant: the transfer logs that the ticket left, and not where it went
BugStaged(x) ==
  IF x.to = "WAITING" THEN <<EventOf("CREATED", None)>>
  ELSE <<EventOf(EventTypeFor(x.seen, x.to), x.seen)>>

\* The INSERTs into ticket_events of the transaction x
Staged(x) ==
  IF x.to = "WAITING" THEN <<EventOf("CREATED", None)>>
  ELSE IF x.to = "TRANSFERRED"
  THEN <<EventOf(EventTypeFor(x.seen, x.to), x.seen), EventOf("WAITING", None)>>
  ELSE <<EventOf(EventTypeFor(x.seen, x.to), x.seen)>>

Init ==
  /\ db = [t \in Ticket |-> AbsentRow]
  /\ log = [t \in Ticket |-> <<>>]
  /\ open = [t \in Ticket |-> 0]
  /\ overdue = {}
  /\ lock = [t \in Ticket |-> None]
  /\ tx = [s \in Session |-> Idle]
  /\ job = [w \in Worker |-> NoJob]

----------------------------------------------------------------------------
\* Requests

\* create_ticket and kiosk_create_ticket: INSERT INTO tickets.  The new row
\* is locked by its transaction and no other sees it.
Create(s, t) ==
  /\ tx[s] = Idle /\ db[t] = AbsentRow /\ lock[t] = None
  /\ lock' = [lock EXCEPT ![t] = s]
  /\ tx' = [tx EXCEPT ![s] =
       [pc |-> "flushed", to |-> "WAITING", ticket |-> t, seen |-> None,
        row |-> [status |-> "WAITING", location |-> Origin[t].location,
                 service |-> Origin[t].service, counter |-> None]]]
  /\ UNCHANGED <<db, log, open, overdue, job>>

\* ORDER BY priority ASC, created_at ASC
Before(t, u) ==
  \/ Priority[t] < Priority[u]
  \/ Priority[t] = Priority[u] /\ CreatedAt[t] < CreatedAt[u]

\* Mutant: a plain SELECT, without FOR UPDATE SKIP LOCKED
BugCallable(c, filter) ==
  {t \in Ticket : /\ db[t].status = "WAITING"
                  /\ db[t].location = CounterLocation[c]
                  /\ filter = None \/ db[t].service = filter}

\* The rows the SELECT of call-next may lock: SKIP LOCKED leaves out every
\* row another transaction has written.  The filter None asks for any service.
Callable(c, filter) ==
  {t \in Ticket : /\ db[t].status = "WAITING"
                  /\ db[t].location = CounterLocation[c]
                  /\ filter = None \/ db[t].service = filter
                  /\ lock[t] = None}

\* _CALL_NEXT_CTE: select, update and insert are one statement.
CallNext(s, c, filter) ==
  /\ tx[s] = Idle
  /\ \E t \in Callable(c, filter) :
       /\ \A u \in Callable(c, filter) : ~Before(u, t)
       /\ lock' = [lock EXCEPT ![t] = s]
       /\ tx' = [tx EXCEPT ![s] =
            [pc |-> "flushed", to |-> "CALLED", ticket |-> t, seen |-> "WAITING",
             row |-> [db[t] EXCEPT !.status = "CALLED", !.counter = c]]]
  /\ UNCHANGED <<db, log, open, overdue, job>>

\* get_or_404: a SELECT, which takes no lock and waits for none
Load(s, to, t) ==
  /\ tx[s] = Idle /\ db[t] # AbsentRow
  /\ Len(log[t]) < MaxEvents[t]
  /\ tx' = [tx EXCEPT ![s] =
       [pc |-> "loaded", to |-> to, ticket |-> t, seen |-> db[t].status,
        row |-> AbsentRow]]
  /\ UNCHANGED <<db, log, open, overdue, lock, job>>

\* transition() raises on the status that was read: 409, nothing written
Reject(s) ==
  /\ tx[s].pc = "loaded"
  /\ ~TransitionAllowed(tx[s].seen, tx[s].to)
  /\ tx' = [tx EXCEPT ![s] = Idle]
  /\ UNCHANGED <<db, log, open, overdue, lock, job>>

\* Mutant: an UPDATE that does not wait for the row lock
BugFlush(s) ==
  LET t == tx[s].ticket
      target == tx[s].to
  IN /\ tx[s].pc = "loaded"
     /\ TransitionAllowed(tx[s].seen, target)
     /\ TriggerAccepts(db[t].status, target)
     /\ lock' = [lock EXCEPT ![t] = s]
     /\ tx' = [tx EXCEPT
          ![s].pc = IF target = "TRANSFERRED" THEN "requeue" ELSE "flushed",
          ![s].row = [db[t] EXCEPT !.status = target]]
     /\ UNCHANGED <<db, log, open, overdue, job>>

\* flush(): UPDATE tickets SET status = ... WHERE id = ..., once no other
\* transaction has the row.  The trigger compares with the committed row.
Flush(s) ==
  LET t == tx[s].ticket
      target == tx[s].to
  IN /\ tx[s].pc = "loaded"
     /\ TransitionAllowed(tx[s].seen, target)
     /\ lock[t] = None
     /\ TriggerAccepts(db[t].status, target)
     /\ lock' = [lock EXCEPT ![t] = s]
     /\ tx' = [tx EXCEPT
          ![s].pc = IF target = "TRANSFERRED" THEN "requeue" ELSE "flushed",
          ![s].row = [db[t] EXCEPT !.status = target]]
     /\ UNCHANGED <<db, log, open, overdue, job>>

\* The trigger raises: the transaction is rolled back and the request fails
Refuse(s) ==
  LET t == tx[s].ticket
      target == tx[s].to
  IN /\ tx[s].pc = "loaded"
     /\ TransitionAllowed(tx[s].seen, target)
     /\ lock[t] = None
     /\ ~TriggerAccepts(db[t].status, target)
     /\ tx' = [tx EXCEPT ![s] = Idle]
     /\ UNCHANGED <<db, log, open, overdue, lock, job>>

\* Mutant: the transfer leaves assigned_counter_id alone
BugRequeue(s, l, v) ==
  /\ tx[s].pc = "requeue"
  /\ TriggerAccepts(tx[s].row.status, "WAITING")
  /\ tx' = [tx EXCEPT
       ![s].pc = "flushed",
       ![s].row = [@ EXCEPT !.status = "WAITING", !.location = l, !.service = v]]
  /\ UNCHANGED <<db, log, open, overdue, lock, job>>

\* transfer_ticket's second UPDATE, of the row it has just written
Requeue(s, l, v) ==
  /\ tx[s].pc = "requeue"
  /\ TriggerAccepts(tx[s].row.status, "WAITING")
  /\ tx' = [tx EXCEPT
       ![s].pc = "flushed",
       ![s].row = [status |-> "WAITING", location |-> l, service |-> v,
                   counter |-> None]]
  /\ UNCHANGED <<db, log, open, overdue, lock, job>>

\* Mutant: complete_ticket ends one interaction, not every open one
BugOpenAfter(x) ==
  IF x.to = "IN_SERVICE" THEN open[x.ticket] + 1
  ELSE IF x.to = "COMPLETED" THEN open[x.ticket] - 1
  ELSE open[x.ticket]

\* How many interactions are open once x commits: start_service adds one,
\* complete_ticket ends every open one of the ticket.
OpenAfter(x) ==
  IF x.to = "IN_SERVICE" THEN open[x.ticket] + 1
  ELSE IF x.to = "COMPLETED" THEN 0
  ELSE open[x.ticket]

Commit(s) ==
  LET x == tx[s]
  IN /\ x.pc = "flushed"
     /\ db' = [db EXCEPT ![x.ticket] = x.row]
     /\ log' = [log EXCEPT ![x.ticket] = @ \o Staged(x)]
     /\ open' = [open EXCEPT ![x.ticket] = OpenAfter(x)]
     /\ overdue' = IF x.to = "CALLED" THEN overdue \ {x.ticket} ELSE overdue
     /\ lock' = [lock EXCEPT ![x.ticket] = None]
     /\ tx' = [tx EXCEPT ![s] = Idle]
     /\ UNCHANGED job

\* The transactions of p end without a commit: its row locks are released
Release(p) == [t \in Ticket |-> IF lock[t] = p THEN None ELSE lock[t]]

\* get_db: an exception, or a lost connection, rolls the session back
Rollback(s) ==
  /\ tx[s] # Idle
  /\ lock' = Release(s)
  /\ tx' = [tx EXCEPT ![s] = Idle]
  /\ UNCHANGED <<db, log, open, overdue, job>>

----------------------------------------------------------------------------
\* auto_no_show_called_tickets

\* Five minutes pass since called_at
Age(t) ==
  /\ db[t].status = "CALLED" /\ t \notin overdue
  /\ overdue' = overdue \cup {t}
  /\ UNCHANGED <<db, log, open, lock, tx, job>>

\* The SELECT of the stuck tickets, which takes no lock
Scan(w) ==
  LET stuck == {t \in Ticket : db[t].status = "CALLED" /\ t \in overdue}
  IN /\ job[w] = NoJob
     /\ stuck # {}
     /\ job' = [job EXCEPT ![w].todo = stuck]
     /\ UNCHANGED <<db, log, open, overdue, lock, tx>>

\* Mutant: the rows are updated in any order
BugIsNext(w, t) == t \in job[w].todo

\* The unit of work of the final flush updates the rows in primary key order
IsNext(w, t) ==
  t \in job[w].todo /\ \A u \in job[w].todo : Pk[t] <= Pk[u]

UpdateStuck(w, t) ==
  /\ IsNext(w, t) /\ lock[t] = None
  /\ TriggerAccepts(db[t].status, "NO_SHOW")
  /\ lock' = [lock EXCEPT ![t] = w]
  /\ job' = [job EXCEPT ![w].todo = @ \ {t}, ![w].done = @ \cup {t}]
  /\ UNCHANGED <<db, log, open, overdue, tx>>

\* Mutant: the failed batch keeps its locks
BugRefuseStuck(w, t) ==
  /\ IsNext(w, t) /\ lock[t] = None
  /\ ~TriggerAccepts(db[t].status, "NO_SHOW")
  /\ job' = [job EXCEPT ![w] = NoJob]
  /\ UNCHANGED <<db, log, open, overdue, lock, tx>>

\* Mutant: the task is retried with the tickets it found the first time
BugRetryStuck(w, t) ==
  /\ IsNext(w, t) /\ lock[t] = None
  /\ ~TriggerAccepts(db[t].status, "NO_SHOW")
  /\ lock' = Release(w)
  /\ job' = [job EXCEPT ![w] = [todo |-> @.todo \cup @.done, done |-> {}]]
  /\ UNCHANGED <<db, log, open, overdue, tx>>

\* One row the trigger refuses takes the whole batch with it; Celery retries,
\* and beat starts the task again, which is a new Scan.
RefuseStuck(w, t) ==
  /\ IsNext(w, t) /\ lock[t] = None
  /\ ~TriggerAccepts(db[t].status, "NO_SHOW")
  /\ lock' = Release(w)
  /\ job' = [job EXCEPT ![w] = NoJob]
  /\ UNCHANGED <<db, log, open, overdue, tx>>

CommitStuck(w) ==
  LET done == job[w].done
  IN /\ job[w].todo = {} /\ done # {}
     /\ db' = [t \in Ticket |-> IF t \in done THEN [db[t] EXCEPT !.status = "NO_SHOW"]
                                              ELSE db[t]]
     /\ log' = [t \in Ticket |->
                 IF t \in done THEN Append(log[t], EventOf("NO_SHOW", None))
                               ELSE log[t]]
     /\ lock' = Release(w)
     /\ job' = [job EXCEPT ![w] = NoJob]
     /\ UNCHANGED <<open, overdue, tx>>

WorkerCrash(w) ==
  /\ job[w] # NoJob
  /\ lock' = Release(w)
  /\ job' = [job EXCEPT ![w] = NoJob]
  /\ UNCHANGED <<db, log, open, overdue, tx>>

----------------------------------------------------------------------------
RequestStep(s) ==
  \/ Reject(s) \/ Flush(s) \/ Refuse(s) \/ Commit(s)
  \/ \E l \in Location, v \in Service : Requeue(s, l, v)

JobStep(w) ==
  \/ \E t \in Ticket : UpdateStuck(w, t) \/ RefuseStuck(w, t)
  \/ CommitStuck(w)

Next ==
  \/ \E s \in Session :
       \/ \E t \in Ticket : Create(s, t)
       \/ \E c \in Counter, filter \in Service \cup {None} : CallNext(s, c, filter)
       \/ \E to \in Target, t \in Ticket : Load(s, to, t)
       \/ RequestStep(s)
       \/ Rollback(s)
  \/ \E t \in Ticket : Age(t)
  \/ \E w \in Worker : Scan(w) \/ JobStep(w) \/ WorkerCrash(w)

Spec == Init /\ [][Next]_vars

\* A server goes on with the requests it has accepted, and PostgreSQL grants a
\* row lock in the order it was asked for, so a transaction that waits gets it
\* although others take it again and again.  Beat starts the task every ten
\* minutes.  Workers may die at any point, but not for ever.
Fairness ==
  /\ \A s \in Session : SF_vars(RequestStep(s))
  /\ \A w \in Worker : WF_vars(Scan(w)) /\ SF_vars(JobStep(w))
  /\ <>[][\A w \in Worker : ~WorkerCrash(w)]_vars

FairSpec == Spec /\ Fairness

----------------------------------------------------------------------------
\* Properties

\* The type of every variable.
TypeOK ==
  /\ db \in [Ticket -> Row \cup {AbsentRow}]
  /\ log \in [Ticket -> Seq(Event)]
  /\ open \in [Ticket -> Nat]
  /\ overdue \subseteq Ticket
  /\ lock \in [Ticket -> Session \cup Worker \cup {None}]
  /\ tx \in [Session -> Transaction]
  /\ job \in [Worker -> [todo : SUBSET Ticket, done : SUBSET Ticket]]

\* The status column is the projection of the event log (ADR 0002): the last
\* event committed for a ticket names the status the row has, and a row is
\* there exactly when its log is not empty.
LogMatchesStatus ==
  \A t \in Ticket :
    IF log[t] = <<>> THEN db[t] = AbsentRow
    ELSE db[t].status = StatusAfter(log[t][Len(log[t])].type)

\* The history of a ticket is legal: it begins with CREATED, and each event
\* follows its predecessor by a transition the state machine has, or repeats
\* its status, although handlers decide on a status they read before the lock.
LogReplaysLegally ==
  \A t \in Ticket : \A i \in 1..Len(log[t]) :
    IF i = 1 THEN log[t][1].type = "CREATED"
    ELSE LET old == StatusAfter(log[t][i-1].type)
             new == log[t][i].type
         IN new \in ValidTransitions(old) \cup {old}

\* Call-next never calls the same customer twice: between two CALLED events
\* of a ticket a transfer has put it back into a queue.
NoDoubleCall ==
  \A t \in Ticket : \A i, j \in 1..Len(log[t]) :
    i < j /\ log[t][i].type = "CALLED" /\ log[t][j].type = "CALLED"
      => \E k \in i..j : log[t][k].type = "WAITING"

\* An event's from_status is a status the ticket did have, some events earlier,
\* and one from which the handler was right to go on; that it was the last one
\* before the event is more than the code achieves (see FromStatusIsPrevious).
FromStatusWasHeld ==
  \A t \in Ticket : \A i \in 1..Len(log[t]) :
    log[t][i].from # None =>
      /\ TransitionAllowed(log[t][i].from, log[t][i].type)
      /\ \E j \in 1..(i-1) : StatusAfter(log[t][j].type) = log[t][i].from

\* A ticket that is called or served has a counter, one of its own location,
\* and a ticket in the queue has none: a transfer must forget the counter it
\* came from, and no stale request may bring a ticket into service without one.
ServedAtACounterOfItsLocation ==
  \A t \in Ticket :
    /\ db[t].status \in {"CALLED", "IN_SERVICE"} => db[t].counter # None
    /\ db[t].status = "WAITING" => db[t].counter = None
    /\ db[t].counter # None => CounterLocation[db[t].counter] = db[t].location

\* Completing a ticket ends every interaction it has, those included that a
\* second start_service commits while complete_ticket waits for the row.
CompletedLeavesNoneOpen ==
  \A t \in Ticket : db[t].status = "COMPLETED" => open[t] = 0

\* p waits for a row lock that q holds
WaitsFor(p, q) ==
  \E t \in Ticket :
    /\ lock[t] = q /\ q # p
    /\ \/ p \in Session /\ tx[p].pc = "loaded" /\ tx[p].ticket = t
             /\ TransitionAllowed(tx[p].seen, tx[p].to)
       \/ p \in Worker /\ IsNext(p, t)

\* No set of transactions waits for row locks of each other: workers that
\* update several rows take them in one order.
NoLockDeadlock ==
  \A P \in SUBSET (Session \cup Worker) :
    P # {} => \E p \in P : \A q \in P : ~WaitsFor(p, q)

\* A terminal status is final whatever was in flight when it was committed.
TerminalIsFinal ==
  [][\A t \in Ticket : db[t].status \in Terminal => db'[t].status = db[t].status]_vars

\* A ticket on hold comes back for nobody: whatever requests had read while it
\* was still in service, the only step out of HOLD is a cancellation
\* (VALID_TRANSITIONS has HOLD -> WAITING, but no handler takes it).
HeldIsOnlyCanceled ==
  [][\A t \in Ticket : db[t].status = "HOLD" => db'[t].status \in {"HOLD", "CANCELED"}]_vars

\* Where a ticket belongs changes only with a call, which gives it a counter,
\* and with a transfer, which takes it from service to another queue: a handler
\* that wrote a row it had read before either would undo it.
PlacesChangeByCallOrTransfer ==
  [][\A t \in Ticket : db[t] # AbsentRow =>
       \/ /\ db'[t].location = db[t].location /\ db'[t].service = db[t].service
          /\ \/ db'[t].counter = db[t].counter
             \/ db[t].status = "WAITING" /\ db'[t].status = "CALLED"
       \/ db[t].status = "IN_SERVICE" /\ db'[t].status = "WAITING"]_vars

\* Every request is answered: no row lock is left behind that a handler
\* would wait for without end.
RequestsEnd == \A s \in Session : (tx[s] # Idle) ~> (tx[s] = Idle)

\* auto_no_show gets every ticket out of CALLED that is there for too long,
\* although requests keep aborting its batches and workers die in them.
CalledTicketsExpire ==
  \A t \in Ticket : (db[t].status = "CALLED" /\ t \in overdue)
                      ~> (db[t].status # "CALLED")

----------------------------------------------------------------------------
\* The requests and batches are indivisible: the log, read as the statuses it
\* records, evolves by steps of AtomicTickets.
History ==
  [t \in Ticket |-> [i \in DOMAIN log[t] |-> StatusAfter(log[t][i].type)]]

Atomic == INSTANCE AtomicTickets WITH history <- History

ImplementsAtomicTickets == Atomic!Spec

----------------------------------------------------------------------------
\* The inductive invariant

\* A row is written by one transaction at a time, which has its lock.
WritersHoldLocks ==
  /\ \A s \in Session :
       tx[s].pc \in {"requeue", "flushed"} => lock[tx[s].ticket] = s
  /\ \A w \in Worker : \A t \in job[w].done : lock[t] = w

\* The committed row old is one that the transaction x may go on from
WriteFits(x, old) ==
  /\ x.to \in Target => x.seen \in Status /\ old # AbsentRow
  /\ x.pc = "loaded" => x.to \in Target
  /\ x.pc = "requeue" =>
       x.to = "TRANSFERRED" /\ old.status = "IN_SERVICE" /\ x.row.status = x.to
  /\ x.pc = "flushed" =>
       /\ x.to = "WAITING" =>
            old = AbsentRow /\ x.row.status = "WAITING" /\ x.row.counter = None
       /\ x.to = "CALLED" =>
            /\ old.status = "WAITING" /\ x.seen = "WAITING"
            /\ x.row.status = "CALLED" /\ x.row.counter \in Counter
            /\ CounterLocation[x.row.counter] = x.row.location
            /\ x.row.location = old.location /\ x.row.service = old.service
       /\ x.to = "TRANSFERRED" =>
            /\ old.status = "IN_SERVICE"
            /\ x.row.status = "WAITING" /\ x.row.counter = None
       /\ x.to \in Target \ {"TRANSFERRED"} =>
            /\ TriggerAccepts(old.status, x.to)
            /\ x.row = [old EXCEPT !.status = x.to]

\* What a session has written fits the committed row it will replace, which
\* no other transaction can have changed since.
WritesFitRows ==
  \A s \in Session : tx[s] # Idle => WriteFits(tx[s], db[tx[s].ticket])

\* The same for the rows a worker has updated and has still to update.
BatchesFitRows ==
  \A w \in Worker :
    /\ \A t \in job[w].todo : db[t] # AbsentRow
    /\ \A t \in job[w].done :
         db[t] # AbsentRow /\ TriggerAccepts(db[t].status, "NO_SHOW")

\* The statuses a committed row can have: CREATED is never written, and
\* TRANSFERRED is overwritten before the transfer commits.
CommittedStatus ==
  \A t \in Ticket : db[t].status \notin {"CREATED", "TRANSFERRED"}

\* A ticket that waits has been put back after every call it had.
WaitingAfterCalls ==
  \A t \in Ticket : db[t].status = "WAITING" =>
    \A i \in 1..Len(log[t]) : log[t][i].type = "CALLED" =>
      \E k \in i..Len(log[t]) : log[t][k].type = "WAITING"

\* What a handler has read stays in the log when the ticket moves on, and it
\* has written nothing that the state machine forbids from there.
DecidedOnCommittedStatus ==
  \A s \in Session : tx[s].seen # None =>
    /\ \E j \in 1..Len(log[tx[s].ticket]) :
         StatusAfter(log[tx[s].ticket][j].type) = tx[s].seen
    /\ tx[s].pc \in {"requeue", "flushed"} => TransitionAllowed(tx[s].seen, tx[s].to)

\* What strengthens the properties above into an inductive invariant: no
\* transaction in flight is built on a row, or a log, that has moved on.
TransactionsFit ==
  /\ WritersHoldLocks /\ WritesFitRows /\ BatchesFitRows
  /\ CommittedStatus /\ WaitingAfterCalls /\ DecidedOnCommittedStatus

----------------------------------------------------------------------------
\* What the documents say and the code does not do

\* tasks.py:127: auto_no_show gives up "tickets stuck in CALLED state".  Its
\* events are the NO_SHOW events without a from_status; each follows a call,
\* or repeats a no-show that was faster.
OnlyCalledTicketsExpire ==
  \A t \in Ticket : \A i \in 2..Len(log[t]) :
    log[t][i] = EventOf("NO_SHOW", None)
      => StatusAfter(log[t][i-1].type) \in {"CALLED", "NO_SHOW"}

\* Migration 0002: from_status "stores the previous status alongside every
\* event".  Events without a from_status are left out here.
FromStatusIsPrevious ==
  \A t \in Ticket : \A i \in 2..Len(log[t]) :
    log[t][i].from # None => log[t][i].from = StatusAfter(log[t][i-1].type)

\* models/interaction.py: an interaction is "a single service episode at a
\* counter" and ends with an outcome such as "transferred", so a ticket has
\* one that is open while it is served and none otherwise.
OneInteractionPerEpisode ==
  \A t \in Ticket : open[t] = IF db[t].status = "IN_SERVICE" THEN 1 ELSE 0
=============================================================================

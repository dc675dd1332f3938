----------------------- MODULE TicketLifecycle_proofs -----------------------
(***************************************************************************)
(* Proofs about TicketLifecycle: its types, then the inductive invariant   *)
(* that row locks, stale reads and the trigger maintain together, and the  *)
(* properties that follow from it.                                         *)
(***************************************************************************)
EXTENDS TicketLifecycle, TicketFSM_proofs

LEMMA InitType == Init => TypeOK
BY ConstantsAssumption DEF Init, TypeOK, Transaction, NoJob

LEMMA StagedType ==
  ASSUME NEW x \in Transaction, x.pc = "flushed"
  PROVE  Staged(x) \in Seq(Event)
<1>1. x.to \in Status /\ x.seen \in Status \cup {None}
  BY DEF Transaction, Idle, Target, Status
<1>2. EventTypeFor(x.seen, x.to) \in EventType
  BY <1>1, EventTypeForType
<1>3. \A type \in EventType, from \in Status \cup {None} : EventOf(type, from) \in Event
  BY DEF EventOf, Event
<1>4. "CREATED" \in EventType /\ "WAITING" \in EventType
  BY DEF EventType, Status
<1> QED BY <1>1, <1>2, <1>3, <1>4 DEF Staged

\* A request that has written is a transaction, whatever it was before
LEMMA WriterType ==
  ASSUME NEW x \in Transaction, x # Idle, NEW pc \in {"requeue", "flushed"}, NEW row \in Row
  PROVE  [pc |-> pc, to |-> x.to, ticket |-> x.ticket, seen |-> x.seen, row |-> row]
           \in Transaction
BY DEF Transaction

\* The types alone are not inductive: the rows a worker commits are rows of
\* the table only because BatchesFitRows holds.
LEMMA TypeStep ==
  ASSUME TypeOK, BatchesFitRows, [Next]_vars
  PROVE  TypeOK'
<1>1. ASSUME NEW s \in Session, NEW t \in Ticket, Create(s, t)
      PROVE  TypeOK'
  <2>1. [status |-> "WAITING", location |-> Origin[t].location,
         service |-> Origin[t].service, counter |-> None] \in Row
    BY ConstantsAssumption DEF Row, Status
  <2> QED BY <1>1, <2>1 DEF Create, TypeOK, Transaction, Status
<1>2. ASSUME NEW s \in Session, NEW c \in Counter,
             NEW filter \in Service \cup {None}, CallNext(s, c, filter)
      PROVE  TypeOK'
  <2>1. PICK t \in Callable(c, filter) :
          /\ lock' = [lock EXCEPT ![t] = s]
          /\ tx' = [tx EXCEPT ![s] =
               [pc |-> "flushed", to |-> "CALLED", ticket |-> t, seen |-> "WAITING",
                row |-> [db[t] EXCEPT !.status = "CALLED", !.counter = c]]]
    BY <1>2 DEF CallNext
  <2>2. t \in Ticket /\ db[t] \in Row
    BY <2>1 DEF Callable, TypeOK, AbsentRow, Absent
  <2>3. [db[t] EXCEPT !.status = "CALLED", !.counter = c] \in Row
    BY <2>2 DEF Row, Status
  <2> QED BY <1>2, <2>1, <2>2, <2>3 DEF CallNext, TypeOK, Transaction, Status
<1>3. ASSUME NEW s \in Session, NEW to \in Target, NEW t \in Ticket, Load(s, to, t)
      PROVE  TypeOK'
  BY <1>3 DEF Load, TypeOK, Transaction, Row
<1>4. ASSUME NEW s \in Session, Reject(s) \/ Refuse(s)
      PROVE  TypeOK'
  BY <1>4 DEF Reject, Refuse, TypeOK, Transaction
<1>5. ASSUME NEW s \in Session, Flush(s)
      PROVE  TypeOK'
  <2> DEFINE t == tx[s].ticket
  <2>1. tx[s] # Idle
    BY <1>5 DEF Flush, Idle
  <2>2. t \in Ticket /\ tx[s].to \in Status
    BY <1>5, <2>1 DEF Flush, TypeOK, Transaction, Target, Status
  <2>3. TriggerAccepts(db[t].status, tx[s].to)
    BY <1>5 DEF Flush
  <2>4. db[t] \in Row
    BY <2>2, <2>3 DEF TypeOK, TriggerAccepts, AbsentRow, Absent, Status
  <2>5. [db[t] EXCEPT !.status = tx[s].to] \in Row
    BY <2>2, <2>4 DEF Row
  <2>6. PICK pc \in {"requeue", "flushed"} :
          tx' = [tx EXCEPT ![s].pc = pc, ![s].row = [db[t] EXCEPT !.status = tx[s].to]]
    BY <1>5 DEF Flush
  <2>7. tx'[s] \in Transaction
    <3> DEFINE row == [db[t] EXCEPT !.status = tx[s].to]
    <3>1. tx[s] \in Transaction /\ row \in Row
      BY <2>5 DEF TypeOK
    <3>2. tx'[s] = [tx[s] EXCEPT !.pc = pc, !.row = row]
      BY <2>6 DEF TypeOK
    <3> HIDE DEF row
    <3>3. tx'[s] = [pc |-> pc, to |-> tx[s].to, ticket |-> tx[s].ticket,
                    seen |-> tx[s].seen, row |-> row]
      BY <2>1, <3>1, <3>2 DEF Transaction
    <3>4. pc \in {"requeue", "flushed"}
      OBVIOUS
    <3> QED BY <2>1, <3>1, <3>3, <3>4, WriterType
  <2>8. tx' \in [Session -> Transaction]
    BY <2>6, <2>7 DEF TypeOK
  <2> QED BY <1>5, <2>2, <2>8 DEF Flush, TypeOK
<1>6. ASSUME NEW s \in Session, NEW l \in Location, NEW v \in Service, Requeue(s, l, v)
      PROVE  TypeOK'
  <2>1. [status |-> "WAITING", location |-> l, service |-> v, counter |-> None] \in Row
    BY DEF Row, Status
  <2>2. tx[s] # Idle
    BY <1>6 DEF Requeue, Idle
  <2> DEFINE row == [status |-> "WAITING", location |-> l, service |-> v, counter |-> None]
  <2>3. tx' = [tx EXCEPT ![s].pc = "flushed", ![s].row = row]
    BY <1>6 DEF Requeue
  <2> HIDE DEF row
  <2>4. tx'[s] \in Transaction
    <3>1. tx[s] \in Transaction /\ row \in Row
      BY <2>1 DEF TypeOK, row
    <3>2. tx'[s] = [tx[s] EXCEPT !.pc = "flushed", !.row = row]
      BY <2>3 DEF TypeOK
    <3>3. tx'[s] = [pc |-> "flushed", to |-> tx[s].to, ticket |-> tx[s].ticket,
                    seen |-> tx[s].seen, row |-> row]
      BY <2>2, <3>1, <3>2 DEF Transaction
    <3> QED BY <2>2, <3>1, <3>3, WriterType
  <2>5. tx' \in [Session -> Transaction]
    BY <2>3, <2>4 DEF TypeOK
  <2> QED BY <1>6, <2>5 DEF Requeue, TypeOK
<1>7. ASSUME NEW s \in Session, Commit(s)
      PROVE  TypeOK'
  <2> DEFINE x == tx[s]
  <2>1. x \in Transaction /\ x # Idle /\ x.pc = "flushed"
    BY <1>7 DEF Commit, TypeOK, Idle
  <2>2. x.ticket \in Ticket /\ x.row \in Row \cup {AbsentRow}
    BY <2>1 DEF Transaction
  <2>3. log[x.ticket] \o Staged(x) \in Seq(Event)
    BY <2>1, <2>2, StagedType DEF TypeOK
  <2>4. OpenAfter(x) \in Nat
    BY <2>2 DEF OpenAfter, TypeOK
  <2> HIDE DEF x
  <2>5. db' \in [Ticket -> Row \cup {AbsentRow}]
    BY <1>7, <2>2 DEF Commit, TypeOK, x
  <2>6. log' \in [Ticket -> Seq(Event)] /\ open' \in [Ticket -> Nat]
    BY <1>7, <2>2, <2>3, <2>4 DEF Commit, TypeOK, x
  <2> QED BY <1>7, <2>5, <2>6 DEF Commit, TypeOK, Transaction
<1>8. ASSUME NEW s \in Session, Rollback(s)
      PROVE  TypeOK'
  BY <1>8 DEF Rollback, Release, TypeOK, Transaction
<1>9. ASSUME NEW t \in Ticket, Age(t)
      PROVE  TypeOK'
  BY <1>9 DEF Age, TypeOK
<1>10. ASSUME NEW w \in Worker, Scan(w)
       PROVE  TypeOK'
  BY <1>10 DEF Scan, TypeOK, NoJob
<1>11. ASSUME NEW w \in Worker, NEW t \in Ticket, UpdateStuck(w, t)
       PROVE  TypeOK'
  <2>1. job' = [job EXCEPT ![w].todo = @ \ {t}, ![w].done = @ \cup {t}]
    BY <1>11 DEF UpdateStuck
  <2>2. job'[w] = [todo |-> job[w].todo \ {t}, done |-> job[w].done \cup {t}]
    BY <2>1 DEF TypeOK
  <2>3. /\ \A v \in Worker \ {w} : job'[v] = job[v]
        /\ job' = [v \in Worker |-> job'[v]]
    BY <2>1 DEF TypeOK
  <2> DEFINE Job == [todo : SUBSET Ticket, done : SUBSET Ticket]
  <2>4. \A v \in Worker : job[v] \in Job /\ job'[v] \in Job
    <3>1. \A v \in Worker : job[v] \in Job
      BY DEF TypeOK
    <3>2. job[w].todo \ {t} \subseteq Ticket /\ job[w].done \cup {t} \subseteq Ticket
      BY <3>1
    <3>3. job'[w] \in Job
      BY <2>2, <3>2
    <3> HIDE DEF Job
    <3> QED BY <2>3, <3>1, <3>3
  <2> HIDE DEF Job
  <2>5. job' \in [Worker -> Job]
    BY <2>3, <2>4
  <2> QED BY <1>11, <2>5 DEF UpdateStuck, TypeOK, Job
<1>12. ASSUME NEW w \in Worker, NEW t \in Ticket, RefuseStuck(w, t)
       PROVE  TypeOK'
  BY <1>12 DEF RefuseStuck, Release, TypeOK, NoJob
<1>13. ASSUME NEW w \in Worker, CommitStuck(w)
       PROVE  TypeOK'
  <2> DEFINE done == job[w].done
  <2>1. \A t \in done : t \in Ticket /\ db[t] \in Row
    BY DEF TypeOK, BatchesFitRows
  <2>2. \A t \in done : [db[t] EXCEPT !.status = "NO_SHOW"] \in Row
    BY <2>1 DEF Row, Status
  <2>3. EventOf("NO_SHOW", None) \in Event
    BY DEF EventOf, Event, EventType, Status
  <2>4. db' \in [Ticket -> Row \cup {AbsentRow}]
    BY <1>13, <2>2 DEF CommitStuck, TypeOK
  <2>5. log' \in [Ticket -> Seq(Event)]
    BY <1>13, <2>3 DEF CommitStuck, TypeOK
  <2> QED BY <1>13, <2>4, <2>5 DEF CommitStuck, Release, TypeOK, NoJob
<1>14. ASSUME NEW w \in Worker, WorkerCrash(w)
       PROVE  TypeOK'
  BY <1>14 DEF WorkerCrash, Release, TypeOK, NoJob
<1>15. CASE UNCHANGED vars
  BY <1>15 DEF vars, TypeOK
<1> QED BY <1>1, <1>2, <1>3, <1>4, <1>5, <1>6, <1>7, <1>8, <1>9, <1>10, <1>11,
           <1>12, <1>13, <1>14, <1>15 DEF Next, RequestStep, JobStep

----------------------------------------------------------------------------
\* Row locks

\* Whoever has written a row and not ended holds its lock, so no two
\* transactions have written the same row.
LEMMA LocksStep ==
  ASSUME TypeOK, WritersHoldLocks, [Next]_vars
  PROVE  WritersHoldLocks'
<1> USE DEF WritersHoldLocks, TypeOK
<1>1. ASSUME NEW s \in Session, NEW t \in Ticket, Create(s, t)
      PROVE  WritersHoldLocks'
  BY <1>1, ConstantsAssumption DEF Create
<1>2. ASSUME NEW s \in Session, NEW c \in Counter,
             NEW filter \in Service \cup {None}, CallNext(s, c, filter)
      PROVE  WritersHoldLocks'
  BY <1>2, ConstantsAssumption DEF CallNext, Callable
<1>3. ASSUME NEW s \in Session, NEW to \in Target, NEW t \in Ticket, Load(s, to, t)
      PROVE  WritersHoldLocks'
  BY <1>3 DEF Load
<1>4. ASSUME NEW s \in Session, Reject(s) \/ Refuse(s)
      PROVE  WritersHoldLocks'
  <2>1. tx' = [tx EXCEPT ![s] = Idle] /\ lock' = lock /\ job' = job
    BY <1>4 DEF Reject, Refuse
  <2> QED BY <2>1 DEF Idle
<1>5. ASSUME NEW s \in Session, Flush(s)
      PROVE  WritersHoldLocks'
  <2>1. tx[s].ticket \in Ticket /\ lock[tx[s].ticket] = None
    BY <1>5 DEF Flush, Transaction, Idle
  <2>2. /\ lock' = [lock EXCEPT ![tx[s].ticket] = s]
        /\ tx'[s].ticket = tx[s].ticket
        /\ \A r \in Session \ {s} : tx'[r] = tx[r]
        /\ job' = job
    BY <1>5 DEF Flush
  <2>3. None \notin Session \cup Worker
    BY ConstantsAssumption
  <2>4. \A r \in Session :
          tx'[r].pc \in {"requeue", "flushed"} => lock'[tx'[r].ticket] = r
    <3> SUFFICES ASSUME NEW r \in Session, tx'[r].pc \in {"requeue", "flushed"}
                 PROVE  lock'[tx'[r].ticket] = r
      OBVIOUS
    <3>1. CASE r = s
      BY <3>1, <2>1, <2>2
    <3>2. CASE r # s
      BY <3>2, <2>1, <2>2, <2>3
    <3> QED BY <3>1, <3>2
  <2>5. \A w \in Worker : \A t \in job'[w].done : lock'[t] = w
    BY <2>1, <2>2, <2>3
  <2> QED BY <2>4, <2>5
<1>6. ASSUME NEW s \in Session, NEW l \in Location, NEW v \in Service, Requeue(s, l, v)
      PROVE  WritersHoldLocks'
  BY <1>6 DEF Requeue
<1>7. ASSUME NEW s \in Session, Commit(s)
      PROVE  WritersHoldLocks'
  BY <1>7, ConstantsAssumption DEF Commit, Idle
<1>8. ASSUME NEW s \in Session, Rollback(s)
      PROVE  WritersHoldLocks'
  <2>1. \A t \in Ticket : lock[t] # s => lock'[t] = lock[t]
    BY <1>8 DEF Rollback, Release
  <2>2. tx'[s].pc = "idle" /\ (\A r \in Session \ {s} : tx'[r] = tx[r]) /\ job' = job
    BY <1>8 DEF Rollback, Idle
  <2>3. \A r \in Session : tx[r].pc \in {"requeue", "flushed"} => tx[r].ticket \in Ticket
    BY DEF Transaction, Idle
  <2>4. \A r \in Session : tx'[r].pc \in {"requeue", "flushed"} =>
           r # s /\ tx'[r] = tx[r] /\ tx[r].ticket \in Ticket
    BY <2>2, <2>3
  <2>5. \A r \in Session :
          tx'[r].pc \in {"requeue", "flushed"} => lock'[tx'[r].ticket] = r
    BY <2>1, <2>4
  <2>6. \A v \in Worker : \A t \in job'[v].done : lock'[t] = v
    BY <2>1, <2>2, ConstantsAssumption
  <2> QED BY <2>5, <2>6
<1>9. ASSUME NEW w \in Worker, NEW t \in Ticket, UpdateStuck(w, t)
      PROVE  WritersHoldLocks'
  BY <1>9, ConstantsAssumption DEF UpdateStuck
<1>10. ASSUME NEW w \in Worker,
              (\E t \in Ticket : RefuseStuck(w, t)) \/ CommitStuck(w) \/ WorkerCrash(w)
       PROVE  WritersHoldLocks'
  <2>1. \A t \in Ticket : lock[t] # w => lock'[t] = lock[t]
    BY <1>10 DEF RefuseStuck, CommitStuck, WorkerCrash, Release
  <2>2. tx' = tx /\ job'[w].done = {} /\ (\A v \in Worker \ {w} : job'[v] = job[v])
    BY <1>10 DEF RefuseStuck, CommitStuck, WorkerCrash, NoJob
  <2>3. \A r \in Session : tx[r].pc \in {"requeue", "flushed"} => tx[r].ticket \in Ticket
    BY DEF Transaction, Idle
  <2>4. \A r \in Session :
          tx'[r].pc \in {"requeue", "flushed"} => lock'[tx'[r].ticket] = r
    BY <2>1, <2>2, <2>3, ConstantsAssumption
  <2>5. \A v \in Worker : \A t \in job'[v].done : lock'[t] = v
    BY <2>1, <2>2
  <2> QED BY <2>4, <2>5
<1>11. ASSUME NEW w \in Worker, Scan(w)
       PROVE  WritersHoldLocks'
  BY <1>11 DEF Scan, NoJob
<1>12. ASSUME NEW t \in Ticket, Age(t)
       PROVE  WritersHoldLocks'
  BY <1>12 DEF Age
<1>13. CASE UNCHANGED vars
  BY <1>13 DEF vars
<1> QED BY <1>1, <1>2, <1>3, <1>4, <1>5, <1>6, <1>7, <1>8, <1>9, <1>10, <1>11,
           <1>12, <1>13 DEF Next, RequestStep, JobStep

\* Only the holder of a row's lock commits a new version of the row.
LEMMA OnlyHolderCommits ==
  ASSUME TypeOK, WritersHoldLocks, [Next]_vars, NEW t \in Ticket,
         db'[t] # db[t] \/ log'[t] # log[t] \/ open'[t] # open[t]
  PROVE  \/ \E s \in Session : Commit(s) /\ tx[s].ticket = t /\ lock[t] = s
         \/ \E w \in Worker : CommitStuck(w) /\ t \in job[w].done /\ lock[t] = w
<1> USE DEF TypeOK
<1>1. ASSUME NEW s \in Session, Commit(s)
      PROVE  tx[s].ticket = t /\ lock[t] = s
  BY <1>1 DEF Commit, WritersHoldLocks
<1>2. ASSUME NEW w \in Worker, CommitStuck(w)
      PROVE  t \in job[w].done /\ lock[t] = w
  BY <1>2 DEF CommitStuck, WritersHoldLocks
<1>3. ~ \E s \in Session, u \in Ticket : Create(s, u)
  BY DEF Create
<1>4. ~ \E s \in Session, c \in Counter, filter \in Service \cup {None} :
          CallNext(s, c, filter)
  BY DEF CallNext
<1>5. ~ \E s \in Session, to \in Target, u \in Ticket : Load(s, to, u)
  BY DEF Load
<1>6. ~ \E s \in Session : Reject(s) \/ Flush(s) \/ Refuse(s) \/ Rollback(s)
  BY DEF Reject, Flush, Refuse, Rollback
<1>7. ~ \E s \in Session, l \in Location, v \in Service : Requeue(s, l, v)
  BY DEF Requeue
<1>8. ~ \E u \in Ticket : Age(u)
  BY DEF Age
<1>9. ~ \E w \in Worker : Scan(w) \/ WorkerCrash(w)
  BY DEF Scan, WorkerCrash
<1>10. ~ \E w \in Worker, u \in Ticket : UpdateStuck(w, u) \/ RefuseStuck(w, u)
  BY DEF UpdateStuck, RefuseStuck
<1>11. ~ UNCHANGED vars
  BY DEF vars
<1> QED BY <1>1, <1>2, <1>3, <1>4, <1>5, <1>6, <1>7, <1>8, <1>9, <1>10, <1>11
        DEF Next, RequestStep, JobStep

----------------------------------------------------------------------------
\* What transactions have written fits the rows it replaces

\* A session that is not idle serves a ticket.
LEMMA BusySession ==
  ASSUME TypeOK, NEW s \in Session, tx[s] # Idle
  PROVE  /\ tx[s].ticket \in Ticket /\ tx[s].pc \in {"loaded", "requeue", "flushed"}
         /\ tx[s].to \in Target \cup {"WAITING", "CALLED"}
         /\ tx[s].row \in Row \cup {AbsentRow}
BY DEF TypeOK, Transaction

\* Once committed, a row is never deleted.
LEMMA RowsStay ==
  ASSUME TypeOK, WritersHoldLocks, WritesFitRows, [Next]_vars,
         NEW t \in Ticket, db[t] # AbsentRow
  PROVE  db'[t] # AbsentRow
<1>1. CASE db'[t] = db[t]
  BY <1>1
<1>2. ASSUME NEW s \in Session, Commit(s), tx[s].ticket = t
      PROVE  db'[t] # AbsentRow
  <2>1. tx[s].pc = "flushed" /\ tx[s] # Idle /\ db'[t] = tx[s].row
    BY <1>2 DEF Commit, Idle, TypeOK
  <2>2. WriteFits(tx[s], db[t])
    BY <1>2, <2>1 DEF WritesFitRows
  <2>3. tx[s].row.status # Absent
    BY <2>1, <2>2, BusySession DEF WriteFits, Target, Absent, TypeOK, Row
  <2> QED BY <2>1, <2>3 DEF AbsentRow
<1>3. ASSUME NEW w \in Worker, CommitStuck(w), t \in job[w].done
      PROVE  db'[t] # AbsentRow
  <2>1. db'[t] = [db[t] EXCEPT !.status = "NO_SHOW"]
    BY <1>3 DEF CommitStuck
  <2>2. db'[t].status = "NO_SHOW"
    BY <2>1 DEF TypeOK, Row, AbsentRow
  <2> QED BY <2>2 DEF AbsentRow, Absent
<1> QED BY <1>1, <1>2, <1>3, OnlyHolderCommits

\* A transaction that does not take the step finds its row as it left it.
LEMMA BystandersFit ==
  ASSUME TypeOK, WritersHoldLocks, WritesFitRows, [Next]_vars,
         NEW r \in Session, tx[r] # Idle, tx'[r] = tx[r]
  PROVE  WriteFits(tx'[r], db'[tx'[r].ticket])
<1> DEFINE t == tx[r].ticket
<1>1. t \in Ticket /\ WriteFits(tx[r], db[t])
  BY BusySession DEF WritesFitRows
<1>2. CASE tx[r].pc = "loaded"
  <2>1. db[t] # AbsentRow
    BY <1>1, <1>2 DEF WriteFits
  <2>2. db'[t] # AbsentRow
    BY <1>1, <2>1, RowsStay
  <2> QED BY <1>1, <1>2, <2>2 DEF WriteFits
<1>3. CASE tx[r].pc \in {"requeue", "flushed"}
  <2>1. lock[t] = r
    BY <1>3 DEF WritersHoldLocks
  <2>2. ~ Commit(r)
    BY DEF Commit, TypeOK
  <2>3. db'[t] = db[t]
    BY <1>1, <2>1, <2>2, OnlyHolderCommits, ConstantsAssumption
  <2> QED BY <1>1, <2>3
<1> QED BY <1>2, <1>3, BusySession

\* Each step of a session leaves it with a write that fits, or with none.
LEMMA WritesStep ==
  ASSUME TypeOK, WritersHoldLocks, WritesFitRows, CommittedStatus, [Next]_vars
  PROVE  WritesFitRows'
<1> DEFINE Fit(r) == tx'[r] = tx[r] \/ tx'[r] = Idle \/ WriteFits(tx'[r], db'[tx'[r].ticket])
<1>1. ASSUME NEW s \in Session, NEW t \in Ticket, Create(s, t)
      PROVE  \A r \in Session : Fit(r)
  BY <1>1 DEF Create, TypeOK, WriteFits, Target
<1>2. ASSUME NEW s \in Session, NEW c \in Counter,
             NEW filter \in Service \cup {None}, CallNext(s, c, filter)
      PROVE  \A r \in Session : Fit(r)
  <2>1. PICK t \in Callable(c, filter) :
          tx' = [tx EXCEPT ![s] =
            [pc |-> "flushed", to |-> "CALLED", ticket |-> t, seen |-> "WAITING",
             row |-> [db[t] EXCEPT !.status = "CALLED", !.counter = c]]]
    BY <1>2 DEF CallNext
  <2>2. /\ t \in Ticket /\ db[t].status = "WAITING"
        /\ db[t].location = CounterLocation[c] /\ db[t] \in Row
    BY <2>1 DEF Callable, TypeOK, AbsentRow, Absent
  <2>3. db' = db
    BY <1>2 DEF CallNext
  <2>4. \A r \in Session \ {s} : tx'[r] = tx[r]
    BY <2>1 DEF TypeOK
  <2>5. tx'[s] = [pc |-> "flushed", to |-> "CALLED", ticket |-> t, seen |-> "WAITING",
                  row |-> [db[t] EXCEPT !.status = "CALLED", !.counter = c]]
    BY <2>1 DEF TypeOK
  <2>6. /\ tx'[s].ticket = t /\ tx'[s].to = "CALLED" /\ tx'[s].pc = "flushed"
        /\ tx'[s].seen = "WAITING"
    BY <2>5
  <2>7. /\ tx'[s].row.status = "CALLED" /\ tx'[s].row.counter = c
        /\ tx'[s].row.location = db[t].location /\ tx'[s].row.service = db[t].service
    <3>1. tx'[s].row = [db[t] EXCEPT !.status = "CALLED", !.counter = c]
      BY <2>5
    <3> HIDE <2>5
    <3> QED BY <2>2, <3>1 DEF Row
  <2>8. WriteFits(tx'[s], db[t])
    BY <2>2, <2>6, <2>7 DEF WriteFits, Target
  <2> QED BY <2>3, <2>4, <2>6, <2>8
<1>3. ASSUME NEW s \in Session, NEW to \in Target, NEW t \in Ticket, Load(s, to, t)
      PROVE  \A r \in Session : Fit(r)
  <2>1. db[t].status \in Status /\ db[t] # AbsentRow /\ db' = db
    BY <1>3 DEF Load, TypeOK, Row
  <2> QED BY <1>3, <2>1 DEF Load, TypeOK, WriteFits
<1>4. ASSUME NEW s \in Session, Reject(s) \/ Refuse(s) \/ Commit(s) \/ Rollback(s)
      PROVE  \A r \in Session : Fit(r)
  BY <1>4 DEF Reject, Refuse, Commit, Rollback, TypeOK
<1>5. ASSUME NEW s \in Session, Flush(s)
      PROVE  \A r \in Session : Fit(r)
  <2> DEFINE t == tx[s].ticket
             to == tx[s].to
  <2>1. tx[s] # Idle /\ tx[s].pc = "loaded" /\ db' = db
    BY <1>5 DEF Flush, Idle
  <2>2. t \in Ticket /\ to \in Target /\ tx[s].seen \in Status /\ db[t] \in Row
    BY <2>1, BusySession DEF WritesFitRows, WriteFits, TypeOK
  <2>3. TriggerAccepts(db[t].status, to)
    BY <1>5 DEF Flush
  <2>4. /\ tx'[s].ticket = t /\ tx'[s].to = to /\ tx'[s].seen = tx[s].seen
        /\ tx'[s].pc = IF to = "TRANSFERRED" THEN "requeue" ELSE "flushed"
        /\ tx'[s].row = [db[t] EXCEPT !.status = to]
        /\ \A r \in Session \ {s} : tx'[r] = tx[r]
    BY <1>5, <2>1 DEF Flush, TypeOK, Transaction
  <2>5. db[t].status = "IN_SERVICE" \/ to # "TRANSFERRED"
    BY <2>2, <2>3 DEF TriggerAccepts, CommittedStatus
  <2> HIDE DEF t, to
  <2>6. CASE to = "TRANSFERRED" /\ db[t].status = "IN_SERVICE"
    BY <2>1, <2>2, <2>4, <2>6 DEF WriteFits, Row, AbsentRow, Absent
  <2>7. CASE to # "TRANSFERRED"
    <3>1. db[t] # AbsentRow
      BY <2>2 DEF Row, Status, AbsentRow, Absent
    <3>2. tx'[s].pc = "flushed" /\ to \notin {"WAITING", "CALLED", "TRANSFERRED"}
      BY <2>2, <2>4, <2>7 DEF Target
    <3>3. WriteFits(tx'[s], db[t])
      BY <2>2, <2>3, <2>4, <3>1, <3>2 DEF WriteFits
    <3> QED BY <2>1, <2>4, <3>3
  <2> QED BY <2>5, <2>6, <2>7
<1>6. ASSUME NEW s \in Session, NEW l \in Location, NEW v \in Service, Requeue(s, l, v)
      PROVE  \A r \in Session : Fit(r)
  <2>1. tx[s] # Idle /\ tx[s].pc = "requeue" /\ db' = db
    BY <1>6 DEF Requeue, Idle
  <2>2. WriteFits(tx[s], db[tx[s].ticket])
    BY <2>1 DEF WritesFitRows
  <2>3. /\ tx'[s].ticket = tx[s].ticket /\ tx'[s].to = tx[s].to
        /\ tx'[s].seen = tx[s].seen /\ tx'[s].pc = "flushed"
        /\ tx'[s].row = [status |-> "WAITING", location |-> l, service |-> v,
                         counter |-> None]
        /\ \A r \in Session \ {s} : tx'[r] = tx[r]
    BY <1>6, <2>1 DEF Requeue, TypeOK, Transaction
  <2> QED BY <2>1, <2>2, <2>3 DEF WriteFits, Target
<1>7. ASSUME UNCHANGED tx
      PROVE  \A r \in Session : Fit(r)
  BY <1>7
<1>8. \A r \in Session : Fit(r)
  BY <1>1, <1>2, <1>3, <1>4, <1>5, <1>6, <1>7
  DEF Next, RequestStep, JobStep, vars, Age, Scan, UpdateStuck, RefuseStuck,
      CommitStuck, WorkerCrash
<1>9. \A r \in Session : tx'[r] # Idle => WriteFits(tx'[r], db'[tx'[r].ticket])
  BY <1>8, BystandersFit
<1> QED BY <1>9 DEF WritesFitRows

\* What a step may be for the batch of one worker
LEMMA JobSteps ==
  ASSUME TypeOK, [Next]_vars, NEW w \in Worker
  PROVE  \/ job'[w] = job[w] \/ job'[w] = NoJob
         \/ Scan(w) \/ \E t \in Ticket : UpdateStuck(w, t)
<1>1. ASSUME NEW v \in Worker, JobStep(v)
      PROVE  \/ job'[w] = job[w] \/ job'[w] = NoJob
             \/ \E t \in Ticket : UpdateStuck(w, t)
  <2>1. CASE v # w
    <3>1. \A u \in Worker \ {v} : job'[u] = job[u]
      BY <1>1 DEF JobStep, UpdateStuck, RefuseStuck, CommitStuck, TypeOK
    <3> QED BY <2>1, <3>1
  <2>2. CASE v = w
    BY <1>1, <2>2 DEF JobStep, RefuseStuck, CommitStuck, TypeOK
  <2> QED BY <2>1, <2>2
<1>2. ASSUME NEW s \in Session, RequestStep(s)
      PROVE  job' = job
  BY <1>2 DEF RequestStep, Reject, Flush, Refuse, Requeue, Commit
<1>3. ASSUME NEW v \in Worker, Scan(v) \/ WorkerCrash(v)
      PROVE  job'[w] = job[w] \/ job'[w] = NoJob \/ Scan(w)
  BY <1>3 DEF Scan, WorkerCrash, TypeOK
<1>4. (\A v \in Worker : ~(Scan(v) \/ JobStep(v) \/ WorkerCrash(v))) => job' = job
  BY <1>2 DEF Next, Create, CallNext, Load, Rollback, Age, vars
<1> QED BY <1>1, <1>3, <1>4

\* The rows of a batch are there and may become NO_SHOW until it commits.
LEMMA BatchesStep ==
  ASSUME TypeOK, WritersHoldLocks, WritesFitRows, BatchesFitRows, [Next]_vars
  PROVE  BatchesFitRows'
<1> SUFFICES ASSUME NEW w \in Worker
             PROVE  /\ \A t \in job'[w].todo : db'[t] # AbsentRow
                    /\ \A t \in job'[w].done :
                         db'[t] # AbsentRow /\ TriggerAccepts(db'[t].status, "NO_SHOW")
  BY DEF BatchesFitRows
<1>1. CASE job'[w] = job[w]
  <2>1. ~ CommitStuck(w)
    BY <1>1 DEF CommitStuck, TypeOK, NoJob
  <2>2. \A t \in job[w].todo \cup job[w].done : t \in Ticket /\ db[t] # AbsentRow
    BY DEF BatchesFitRows, TypeOK
  <2>3. \A t \in job[w].done : db'[t] = db[t]
    BY <2>1, <2>2, OnlyHolderCommits, ConstantsAssumption DEF WritersHoldLocks
  <2>4. \A t \in job[w].todo : db'[t] # AbsentRow
    BY <2>2, RowsStay
  <2> QED BY <1>1, <2>2, <2>3, <2>4 DEF BatchesFitRows
<1>2. CASE job'[w] = NoJob
  BY <1>2 DEF NoJob
<1>3. ASSUME NEW t \in Ticket, UpdateStuck(w, t)
      PROVE  /\ \A u \in job'[w].todo : db'[u] # AbsentRow
             /\ \A u \in job'[w].done :
                  db'[u] # AbsentRow /\ TriggerAccepts(db'[u].status, "NO_SHOW")
  BY <1>3 DEF UpdateStuck, IsNext, BatchesFitRows, TypeOK
<1>4. ASSUME Scan(w)
      PROVE  /\ \A u \in job'[w].todo : db'[u] # AbsentRow
             /\ \A u \in job'[w].done :
                  db'[u] # AbsentRow /\ TriggerAccepts(db'[u].status, "NO_SHOW")
  BY <1>4 DEF Scan, NoJob, TypeOK, AbsentRow, Absent
<1> QED BY <1>1, <1>2, <1>3, <1>4, JobSteps

----------------------------------------------------------------------------
\* What a commit does to one row

\* The ways the row, log and interactions of a ticket change, each with what
\* is known of the row it replaces.
Issued(t) ==
  /\ db[t] = AbsentRow
  /\ db'[t].status = "WAITING" /\ db'[t].counter = None
  /\ log'[t] = log[t] \o <<EventOf("CREATED", None)>>
  /\ open'[t] = open[t]

Called(t) ==
  /\ db[t].status = "WAITING" /\ db'[t].status = "CALLED"
  /\ db'[t].counter \in Counter /\ CounterLocation[db'[t].counter] = db'[t].location
  /\ db'[t].location = db[t].location /\ db'[t].service = db[t].service
  /\ \E e \in Event : e.type = "CALLED" /\ log'[t] = log[t] \o <<e>>
  /\ open'[t] = open[t]

Transferred(t) ==
  /\ db[t].status = "IN_SERVICE"
  /\ db'[t].status = "WAITING" /\ db'[t].counter = None
  /\ \E e \in Event : /\ e.type = "TRANSFERRED"
                      /\ log'[t] = log[t] \o <<e, EventOf("WAITING", None)>>
  /\ open'[t] = open[t]

Moved(t, to) ==
  /\ db[t] \in Row /\ TriggerAccepts(db[t].status, to)
  /\ db'[t] = [db[t] EXCEPT !.status = to]
  /\ \E e \in Event : e.type = to /\ log'[t] = log[t] \o <<e>>
  /\ open'[t] = IF to = "IN_SERVICE" THEN open[t] + 1
                ELSE IF to = "COMPLETED" THEN 0 ELSE open[t]

\* Every step leaves a ticket alone or is one of these for it, whatever the
\* other transactions were doing meanwhile.
LEMMA RowSteps ==
  ASSUME TypeOK, WritersHoldLocks, WritesFitRows, BatchesFitRows, [Next]_vars,
         NEW t \in Ticket
  PROVE  \/ db'[t] = db[t] /\ log'[t] = log[t] /\ open'[t] = open[t]
         \/ Issued(t) \/ Called(t) \/ Transferred(t)
         \/ \E to \in Target \ {"TRANSFERRED"} : Moved(t, to)
<1> DEFINE Step == \/ Issued(t) \/ Called(t) \/ Transferred(t)
                   \/ \E to \in Target \ {"TRANSFERRED"} : Moved(t, to)
<1>1. ASSUME NEW s \in Session, Commit(s), tx[s].ticket = t
      PROVE  Step
  <2> DEFINE x == tx[s]
  <2>1. x.pc = "flushed" /\ x # Idle
    BY <1>1 DEF Commit, Idle
  <2>2. /\ db'[t] = x.row /\ log'[t] = log[t] \o Staged(x)
        /\ open'[t] = OpenAfter(x)
    BY <1>1 DEF Commit, TypeOK
  <2>3. WriteFits(x, db[t]) /\ x.to \in Target \cup {"WAITING", "CALLED"}
    BY <1>1, <2>1, BusySession DEF WritesFitRows
  <2>4. x.to # "WAITING" => x.seen \in Status /\ x.to \in Status
    BY <2>1, <2>3 DEF WriteFits, Target, Status
  <2>5. x.to # "WAITING" => EventTypeFor(x.seen, x.to) = x.to
    BY <2>4, EventTypeIsTarget
  <2> DEFINE e == EventOf(x.to, x.seen)
  <2>6. x.to # "WAITING" => e \in Event /\ e.type = x.to
    BY <2>4 DEF EventOf, Event, EventType
  <2> HIDE DEF x, e
  <2>7. CASE x.to = "WAITING"
    <3>1. Staged(x) = <<EventOf("CREATED", None)>> /\ OpenAfter(x) = open[t]
      BY <1>1, <2>7 DEF Staged, OpenAfter, x
    <3> QED BY <2>1, <2>2, <2>3, <2>7, <3>1 DEF WriteFits, Issued
  <2>8. CASE x.to = "CALLED"
    <3>1. Staged(x) = <<e>> /\ OpenAfter(x) = open[t]
      BY <1>1, <2>5, <2>8 DEF Staged, OpenAfter, x, e
    <3>2. Called(t)
      BY <2>1, <2>2, <2>3, <2>6, <2>8, <3>1 DEF WriteFits, Called
    <3> QED BY <3>2
  <2>9. CASE x.to = "TRANSFERRED"
    <3>1. Staged(x) = <<e, EventOf("WAITING", None)>> /\ OpenAfter(x) = open[t]
      BY <1>1, <2>5, <2>9 DEF Staged, OpenAfter, x, e
    <3>2. Transferred(t)
      BY <2>1, <2>2, <2>3, <2>6, <2>9, <3>1 DEF WriteFits, Transferred
    <3> QED BY <3>2
  <2>10. CASE x.to \in Target \ {"TRANSFERRED"}
    <3>1. Staged(x) = <<e>>
      BY <2>5, <2>10 DEF Staged, e, Target
    <3>2. OpenAfter(x) = IF x.to = "IN_SERVICE" THEN open[t] + 1
                         ELSE IF x.to = "COMPLETED" THEN 0 ELSE open[t]
      BY <1>1 DEF OpenAfter, x
    <3>3. db[t] \in Row
      BY <2>3, <2>10 DEF WriteFits, TypeOK
    <3>4. TriggerAccepts(db[t].status, x.to) /\ db'[t] = [db[t] EXCEPT !.status = x.to]
      BY <2>1, <2>2, <2>3, <2>10 DEF WriteFits
    <3>5. Moved(t, x.to)
      BY <2>2, <2>6, <2>10, <3>1, <3>2, <3>3, <3>4 DEF Moved, Target
    <3> QED BY <2>10, <3>5
  <2> QED BY <2>3, <2>7, <2>8, <2>9, <2>10
<1>2. ASSUME NEW w \in Worker, CommitStuck(w), t \in job[w].done
      PROVE  Step
  <2> DEFINE e == EventOf("NO_SHOW", None)
  <2>1. e \in Event /\ e.type = "NO_SHOW"
    BY DEF EventOf, Event, EventType, Status
  <2>2. db[t] \in Row /\ TriggerAccepts(db[t].status, "NO_SHOW")
    BY <1>2 DEF BatchesFitRows, TypeOK
  <2>3. /\ db'[t] = [db[t] EXCEPT !.status = "NO_SHOW"]
        /\ log'[t] = Append(log[t], e) /\ open'[t] = open[t]
    BY <1>2 DEF CommitStuck
  <2> HIDE DEF e
  <2>4. Append(log[t], e) = log[t] \o <<e>>
    BY <2>1 DEF TypeOK
  <2>5. Moved(t, "NO_SHOW")
    BY <2>1, <2>2, <2>3, <2>4 DEF Moved
  <2> QED BY <2>5 DEF Target
<1> QED BY <1>1, <1>2, OnlyHolderCommits

----------------------------------------------------------------------------
\* The properties of the committed rows

LEMMA CommittedStatusStep ==
  ASSUME TypeOK, WritersHoldLocks, WritesFitRows, BatchesFitRows, CommittedStatus,
         [Next]_vars
  PROVE  CommittedStatus'
<1> SUFFICES ASSUME NEW t \in Ticket
             PROVE  db'[t].status \notin {"CREATED", "TRANSFERRED"}
  BY DEF CommittedStatus
<1>1. ASSUME NEW to \in Target \ {"TRANSFERRED"}, Moved(t, to)
      PROVE  db'[t].status \notin {"CREATED", "TRANSFERRED"}
  BY <1>1 DEF Moved, Target, Row
<1> QED BY <1>1, RowSteps DEF CommittedStatus, Issued, Called, Transferred

LEMMA ServedStep ==
  ASSUME TypeOK, WritersHoldLocks, WritesFitRows, BatchesFitRows,
         ServedAtACounterOfItsLocation, [Next]_vars
  PROVE  ServedAtACounterOfItsLocation'
<1> DEFINE Served(row) == /\ row.status \in {"CALLED", "IN_SERVICE"} => row.counter # None
                          /\ row.status = "WAITING" => row.counter = None
                          /\ row.counter # None => CounterLocation[row.counter] = row.location
<1> SUFFICES ASSUME NEW t \in Ticket
             PROVE  Served(db'[t])
  BY DEF ServedAtACounterOfItsLocation
<1>1. Served(db[t])
  BY DEF ServedAtACounterOfItsLocation
<1>2. ASSUME Called(t)
      PROVE  Served(db'[t])
  BY <1>2, ConstantsAssumption DEF Called
<1>3. ASSUME Issued(t) \/ Transferred(t)
      PROVE  Served(db'[t])
  BY <1>3 DEF Issued, Transferred
<1>4. ASSUME NEW to \in Target \ {"TRANSFERRED"}, Moved(t, to)
      PROVE  Served(db'[t])
  <2>1. /\ db'[t].status = to /\ db'[t].counter = db[t].counter
        /\ db'[t].location = db[t].location
    BY <1>4 DEF Moved, Row
  <2>2. to = "IN_SERVICE" => db[t].status \in {"CALLED", "IN_SERVICE"}
    BY <1>4 DEF Moved, TriggerAccepts
  <2> QED BY <1>1, <2>1, <2>2 DEF Target
<1> QED BY <1>1, <1>2, <1>3, <1>4, RowSteps

LEMMA CompletedStep ==
  ASSUME TypeOK, WritersHoldLocks, WritesFitRows, BatchesFitRows,
         CompletedLeavesNoneOpen, [Next]_vars
  PROVE  CompletedLeavesNoneOpen'
<1> SUFFICES ASSUME NEW t \in Ticket, db'[t].status = "COMPLETED"
             PROVE  open'[t] = 0
  BY DEF CompletedLeavesNoneOpen
<1>1. ASSUME NEW to \in Target \ {"TRANSFERRED"}, Moved(t, to)
      PROVE  open'[t] = 0
  BY <1>1 DEF Moved, Row
<1> QED BY <1>1, RowSteps DEF CompletedLeavesNoneOpen, Issued, Called, Transferred

LEMMA TerminalStep ==
  ASSUME TypeOK, WritersHoldLocks, WritesFitRows, BatchesFitRows, [Next]_vars,
         NEW t \in Ticket, db[t].status \in Terminal
  PROVE  db'[t].status = db[t].status
<1>1. ASSUME NEW to \in Target \ {"TRANSFERRED"}, Moved(t, to)
      PROVE  db'[t].status = db[t].status
  BY <1>1 DEF Moved, TriggerAccepts, Terminal, Row
<1> QED BY <1>1, RowSteps DEF Issued, Called, Transferred, Terminal, AbsentRow, Absent

LEMMA HeldStep ==
  ASSUME TypeOK, WritersHoldLocks, WritesFitRows, BatchesFitRows, [Next]_vars,
         NEW t \in Ticket, db[t].status = "HOLD"
  PROVE  db'[t].status \in {"HOLD", "CANCELED"}
<1>1. ASSUME NEW to \in Target \ {"TRANSFERRED"}, Moved(t, to)
      PROVE  db'[t].status \in {"HOLD", "CANCELED"}
  <2>1. db'[t].status = to
    BY <1>1 DEF Moved, Row
  <2> QED BY <1>1, <2>1 DEF Moved, TriggerAccepts, Target
<1> QED BY <1>1, RowSteps DEF Issued, Called, Transferred, AbsentRow, Absent

LEMMA PlacesStep ==
  ASSUME TypeOK, WritersHoldLocks, WritesFitRows, BatchesFitRows, [Next]_vars,
         NEW t \in Ticket, db[t] # AbsentRow
  PROVE  \/ /\ db'[t].location = db[t].location /\ db'[t].service = db[t].service
            /\ \/ db'[t].counter = db[t].counter
               \/ db[t].status = "WAITING" /\ db'[t].status = "CALLED"
         \/ db[t].status = "IN_SERVICE" /\ db'[t].status = "WAITING"
<1>1. ASSUME NEW to \in Target \ {"TRANSFERRED"}, Moved(t, to)
      PROVE  /\ db'[t].location = db[t].location /\ db'[t].service = db[t].service
             /\ db'[t].counter = db[t].counter
  BY <1>1 DEF Moved, Row
<1> QED BY <1>1, RowSteps DEF Issued, Called, Transferred

----------------------------------------------------------------------------
\* The properties of the event log

\* What a sequence is after one or two elements are added to it.
LEMMA ExtendByOne ==
  ASSUME NEW S, NEW q \in Seq(S), NEW e \in S
  PROVE  /\ q \o <<e>> \in Seq(S) /\ Len(q \o <<e>>) = Len(q) + 1
         /\ \A i \in 1..Len(q) : (q \o <<e>>)[i] = q[i]
         /\ (q \o <<e>>)[Len(q) + 1] = e
  OBVIOUS

LEMMA ExtendByTwo ==
  ASSUME NEW S, NEW q \in Seq(S), NEW d \in S, NEW e \in S
  PROVE  /\ q \o <<d, e>> \in Seq(S) /\ Len(q \o <<d, e>>) = Len(q) + 2
         /\ \A i \in 1..Len(q) : (q \o <<d, e>>)[i] = q[i]
         /\ (q \o <<d, e>>)[Len(q) + 1] = d /\ (q \o <<d, e>>)[Len(q) + 2] = e
  OBVIOUS

\* How a log grows: by one event, or by the two of a transfer.
GrowsTo(t, type) ==
  /\ Len(log'[t]) = Len(log[t]) + 1
  /\ \A i \in 1..Len(log[t]) : log'[t][i] = log[t][i]
  /\ log'[t][Len(log[t]) + 1].type = type

GrowsByTransfer(t) ==
  /\ Len(log'[t]) = Len(log[t]) + 2
  /\ \A i \in 1..Len(log[t]) : log'[t][i] = log[t][i]
  /\ log'[t][Len(log[t]) + 1].type = "TRANSFERRED"
  /\ log'[t][Len(log[t]) + 2].type = "WAITING"

LEMMA LogSteps ==
  ASSUME TypeOK, WritersHoldLocks, WritesFitRows, BatchesFitRows, [Next]_vars,
         NEW t \in Ticket
  PROVE  \/ db'[t] = db[t] /\ log'[t] = log[t]
         \/ db[t] = AbsentRow /\ db'[t].status = "WAITING" /\ GrowsTo(t, "CREATED")
         \/ db[t].status = "WAITING" /\ db'[t].status = "CALLED" /\ GrowsTo(t, "CALLED")
         \/ db[t].status = "IN_SERVICE" /\ db'[t].status = "WAITING" /\ GrowsByTransfer(t)
         \/ \E to \in Target \ {"TRANSFERRED"} :
              /\ db[t] \in Row /\ TriggerAccepts(db[t].status, to)
              /\ db'[t].status = to /\ GrowsTo(t, to)
<1>0. log[t] \in Seq(Event)
  BY DEF TypeOK
<1>1. ASSUME Issued(t)
      PROVE  GrowsTo(t, "CREATED")
  <2>1. EventOf("CREATED", None) \in Event /\ EventOf("CREATED", None).type = "CREATED"
    BY DEF EventOf, Event, EventType, Status
  <2> QED BY <1>0, <1>1, <2>1, ExtendByOne DEF Issued, GrowsTo
<1>2. ASSUME Called(t)
      PROVE  GrowsTo(t, "CALLED")
  BY <1>0, <1>2, ExtendByOne DEF Called, GrowsTo
<1>3. ASSUME Transferred(t)
      PROVE  GrowsByTransfer(t)
  <2>1. EventOf("WAITING", None) \in Event /\ EventOf("WAITING", None).type = "WAITING"
    BY DEF EventOf, Event, EventType, Status
  <2> QED BY <1>0, <1>3, <2>1, ExtendByTwo DEF Transferred, GrowsByTransfer
<1>4. ASSUME NEW to \in Target \ {"TRANSFERRED"}, Moved(t, to)
      PROVE  db'[t].status = to /\ GrowsTo(t, to)
  <2>1. db'[t].status = to
    BY <1>4 DEF Moved, Row
  <2>2. GrowsTo(t, to)
    BY <1>0, <1>4, ExtendByOne DEF Moved, GrowsTo
  <2> QED BY <2>1, <2>2
<1> QED BY <1>1, <1>2, <1>3, <1>4, RowSteps DEF Issued, Called, Transferred, Moved

\* The log of a ticket is empty exactly while it has no row.
LEMMA EmptyLog ==
  ASSUME TypeOK, LogMatchesStatus, NEW t \in Ticket
  PROVE  /\ log[t] = <<>> <=> db[t] = AbsentRow
         /\ Len(log[t]) \in Nat /\ (log[t] = <<>> <=> Len(log[t]) = 0)
<1>1. log[t] \in Seq(Event)
  BY DEF TypeOK
<1>2. Len(log[t]) \in Nat /\ (log[t] = <<>> <=> Len(log[t]) = 0)
  BY <1>1
<1>3. log[t] = <<>> => db[t] = AbsentRow
  BY DEF LogMatchesStatus
<1>4. ASSUME log[t] # <<>>
      PROVE  db[t] # AbsentRow
  <2>1. log[t][Len(log[t])] \in Event
    BY <1>1, <1>2, <1>4
  <2>2. db[t].status = StatusAfter(log[t][Len(log[t])].type)
    BY <1>4 DEF LogMatchesStatus
  <2>3. db[t].status \in EventType
    BY <2>1, <2>2 DEF Event, StatusAfter, EventType, Status
  <2> QED BY <2>3 DEF EventType, Status, AbsentRow, Absent
<1> QED BY <1>2, <1>3, <1>4

LEMMA LogMatchesStep ==
  ASSUME TypeOK, WritersHoldLocks, WritesFitRows, BatchesFitRows, LogMatchesStatus,
         [Next]_vars
  PROVE  LogMatchesStatus'
<1> SUFFICES ASSUME NEW t \in Ticket
             PROVE  IF log'[t] = <<>> THEN db'[t] = AbsentRow
                    ELSE db'[t].status = StatusAfter(log'[t][Len(log'[t])].type)
  BY DEF LogMatchesStatus
<1>1. Len(log[t]) \in Nat
  BY EmptyLog
<1>2. ASSUME NEW type, GrowsTo(t, type), db'[t].status = StatusAfter(type)
      PROVE  log'[t] # <<>> /\ db'[t].status = StatusAfter(log'[t][Len(log'[t])].type)
  BY <1>1, <1>2 DEF GrowsTo
<1>3. CASE db'[t] = db[t] /\ log'[t] = log[t]
  BY <1>3 DEF LogMatchesStatus
<1>4. CASE db'[t].status = "WAITING" /\ GrowsTo(t, "CREATED")
  BY <1>2, <1>4 DEF StatusAfter
<1>5. CASE db'[t].status = "CALLED" /\ GrowsTo(t, "CALLED")
  BY <1>2, <1>5 DEF StatusAfter
<1>6. CASE db'[t].status = "WAITING" /\ GrowsByTransfer(t)
  BY <1>1, <1>6 DEF GrowsByTransfer, StatusAfter
<1>7. ASSUME NEW to \in Target \ {"TRANSFERRED"}, db'[t].status = to, GrowsTo(t, to)
      PROVE  db'[t].status = StatusAfter(to)
  BY <1>7 DEF Target, StatusAfter
<1> QED BY <1>2, <1>3, <1>4, <1>5, <1>6, <1>7, LogSteps

\* What the trigger lets through from a committed row is a transition of the
\* application's table, or repeats the status.
LEMMA TriggerIsLegal ==
  ASSUME NEW old \in Status, NEW new \in Status, TriggerAccepts(old, new)
  PROVE  new \in ValidTransitions(old) \cup {old}
BY TriggerAgreesWithTable DEF TransitionAllowed

\* One event of a log is legal after the one before it
LegalAfter(t, i) ==
  IF i = 1 THEN log[t][1].type = "CREATED"
  ELSE log[t][i].type \in ValidTransitions(StatusAfter(log[t][i-1].type))
                          \cup {StatusAfter(log[t][i-1].type)}

LEMMA ReplaysStep ==
  ASSUME TypeOK, WritersHoldLocks, WritesFitRows, BatchesFitRows, LogMatchesStatus,
         LogReplaysLegally, [Next]_vars
  PROVE  LogReplaysLegally'
<1> SUFFICES ASSUME NEW t \in Ticket, NEW i \in 1..Len(log'[t])
             PROVE  LegalAfter(t, i)'
  BY DEF LogReplaysLegally, LegalAfter
<1> DEFINE n == Len(log[t])
<1>1. n \in Nat /\ (n = 0 <=> db[t] = AbsentRow) /\ (n = 0 <=> log[t] = <<>>)
  BY EmptyLog
<1>2. n # 0 => db[t].status = StatusAfter(log[t][n].type)
  BY <1>1 DEF LogMatchesStatus
<1>3. \A k \in 1..n : LegalAfter(t, k)
  BY DEF LogReplaysLegally, LegalAfter
<1>4. ASSUME \A k \in 1..n : log'[t][k] = log[t][k], i \in 1..n
      PROVE  LegalAfter(t, i)'
  <2>1. LegalAfter(t, i) /\ log'[t][i] = log[t][i]
    BY <1>3, <1>4
  <2>2. i # 1 => log'[t][i - 1] = log[t][i - 1]
    BY <1>1, <1>4
  <2> QED BY <2>1, <2>2 DEF LegalAfter
<1>5. ASSUME NEW type, n # 0, type \in ValidTransitions(db[t].status) \cup {db[t].status},
             \A k \in 1..n : log'[t][k] = log[t][k], log'[t][n + 1].type = type, i = n + 1
      PROVE  LegalAfter(t, i)'
  <2>1. log'[t][i - 1] = log[t][n] /\ i # 1
    BY <1>1, <1>5
  <2> QED BY <1>2, <1>5, <2>1 DEF LegalAfter
<1> HIDE DEF n
<1>6. CASE log'[t] = log[t]
  BY <1>4, <1>6 DEF n
<1>7. CASE db[t] = AbsentRow /\ GrowsTo(t, "CREATED")
  BY <1>1, <1>7 DEF GrowsTo, LegalAfter, n
<1>8. CASE db[t].status = "WAITING" /\ GrowsTo(t, "CALLED")
  <2>1. n # 0
    BY <1>1, <1>8 DEF AbsentRow, Absent
  <2>2. "CALLED" \in ValidTransitions("WAITING")
    BY DEF ValidTransitions, ValidTransition, Status
  <2> QED BY <1>1, <1>4, <1>5, <1>8, <2>1, <2>2 DEF GrowsTo, n
<1>9. CASE db[t].status = "IN_SERVICE" /\ GrowsByTransfer(t)
  <2>1. n # 0
    BY <1>1, <1>9 DEF AbsentRow, Absent
  <2>2. /\ "TRANSFERRED" \in ValidTransitions("IN_SERVICE")
        /\ "WAITING" \in ValidTransitions("TRANSFERRED")
    BY DEF ValidTransitions, ValidTransition, Status
  <2>3. CASE i = n + 2
    <3>1. i # 1 /\ i - 1 = n + 1
      BY <1>1, <2>3
    <3>2. log'[t][i - 1].type = "TRANSFERRED" /\ log'[t][i].type = "WAITING"
      BY <1>9, <2>3, <3>1 DEF GrowsByTransfer, n
    <3> QED BY <2>2, <3>1, <3>2 DEF LegalAfter, StatusAfter
  <2>4. CASE i = n + 1
    BY <1>1, <1>5, <1>9, <2>1, <2>2, <2>4 DEF GrowsByTransfer, n
  <2>5. CASE i \in 1..n
    BY <1>4, <1>9, <2>5 DEF GrowsByTransfer, n
  <2>6. Len(log'[t]) = n + 2
    BY <1>9 DEF GrowsByTransfer, n
  <2> QED BY <1>1, <2>3, <2>4, <2>5, <2>6
<1>10. ASSUME NEW to \in Target \ {"TRANSFERRED"}, db[t] \in Row,
              TriggerAccepts(db[t].status, to), GrowsTo(t, to)
       PROVE  LegalAfter(t, i)'
  <2>1. db[t].status \in Status /\ to \in Status
    BY <1>10 DEF Row, Target, Status
  <2>2. to \in ValidTransitions(db[t].status) \cup {db[t].status}
    BY <1>10, <2>1, TriggerIsLegal
  <2>3. n # 0
    BY <1>1, <2>1 DEF AbsentRow, Absent, Status
  <2> QED BY <1>1, <1>4, <1>5, <1>10, <2>2, <2>3 DEF GrowsTo, n
<1> QED BY <1>6, <1>7, <1>8, <1>9, <1>10, LogSteps

LEMMA CallsStep ==
  ASSUME TypeOK, WritersHoldLocks, WritesFitRows, BatchesFitRows, LogMatchesStatus,
         WaitingAfterCalls, NoDoubleCall, [Next]_vars
  PROVE  WaitingAfterCalls' /\ NoDoubleCall'
<1> SUFFICES ASSUME NEW t \in Ticket
             PROVE  /\ db'[t].status = "WAITING" =>
                         \A i \in 1..Len(log'[t]) : log'[t][i].type = "CALLED" =>
                           \E k \in i..Len(log'[t]) : log'[t][k].type = "WAITING"
                    /\ \A i, j \in 1..Len(log'[t]) :
                         i < j /\ log'[t][i].type = "CALLED" /\ log'[t][j].type = "CALLED"
                           => \E k \in i..j : log'[t][k].type = "WAITING"
  BY DEF WaitingAfterCalls, NoDoubleCall
<1> DEFINE n == Len(log[t])
<1>1. n \in Nat /\ (n = 0 <=> db[t] = AbsentRow)
  BY EmptyLog
<1>2. db[t].status = "WAITING" =>
        \A i \in 1..n : log[t][i].type = "CALLED" =>
          \E k \in i..n : log[t][k].type = "WAITING"
  BY DEF WaitingAfterCalls
<1>3. \A i, j \in 1..n :
        i < j /\ log[t][i].type = "CALLED" /\ log[t][j].type = "CALLED"
          => \E k \in i..j : log[t][k].type = "WAITING"
  BY DEF NoDoubleCall
<1> HIDE DEF n
<1>4. ASSUME \A k \in 1..n : log'[t][k] = log[t][k]
      PROVE  \A i, j \in 1..n :
               i < j /\ log'[t][i].type = "CALLED" /\ log'[t][j].type = "CALLED"
                 => \E k \in i..j : log'[t][k].type = "WAITING"
  BY <1>1, <1>3, <1>4
<1>5. CASE db'[t] = db[t] /\ log'[t] = log[t]
  BY <1>2, <1>3, <1>5 DEF n
<1>6. CASE db[t] = AbsentRow /\ GrowsTo(t, "CREATED")
  <2>1. n = 0 /\ Len(log'[t]) = 1 /\ log'[t][1].type = "CREATED"
    BY <1>1, <1>6 DEF GrowsTo, n
  <2> QED BY <2>1
<1>7. CASE db[t].status = "WAITING" /\ db'[t].status = "CALLED" /\ GrowsTo(t, "CALLED")
  <2>1. Len(log'[t]) = n + 1 /\ \A k \in 1..n : log'[t][k] = log[t][k]
    BY <1>7 DEF GrowsTo, n
  <2>2. \A i \in 1..n : log'[t][i].type = "CALLED" =>
          \E k \in i..n : log'[t][k].type = "WAITING"
    <3> SUFFICES ASSUME NEW i \in 1..n, log'[t][i].type = "CALLED"
                 PROVE  \E k \in i..n : log'[t][k].type = "WAITING"
      OBVIOUS
    <3>1. log[t][i].type = "CALLED"
      BY <2>1
    <3>2. PICK k \in i..n : log[t][k].type = "WAITING"
      BY <1>2, <1>7, <3>1
    <3>3. log'[t][k] = log[t][k]
      BY <1>1, <2>1, <3>2
    <3> QED BY <3>2, <3>3
  <2> SUFFICES ASSUME NEW i \in 1..(n + 1), NEW j \in 1..(n + 1), i < j,
                      log'[t][i].type = "CALLED", log'[t][j].type = "CALLED"
               PROVE  \E k \in i..j : log'[t][k].type = "WAITING"
    BY <1>7, <2>1
  <2>3. CASE j = n + 1
    <3>1. PICK k \in i..n : log'[t][k].type = "WAITING"
      BY <1>1, <2>2, <2>3
    <3> QED BY <1>1, <2>3, <3>1
  <2>4. CASE j \in 1..n
    BY <1>1, <1>4, <2>1, <2>4
  <2> QED BY <1>1, <2>3, <2>4
<1>8. CASE db'[t].status = "WAITING" /\ GrowsByTransfer(t)
  <2>1. /\ Len(log'[t]) = n + 2 /\ \A k \in 1..n : log'[t][k] = log[t][k]
        /\ log'[t][n + 1].type = "TRANSFERRED" /\ log'[t][n + 2].type = "WAITING"
    BY <1>8 DEF GrowsByTransfer, n
  <2>2. \A i \in 1..(n + 2) : log'[t][i].type = "CALLED" => i \in 1..n
    BY <1>1, <2>1
  <2>3. ASSUME NEW i \in 1..(n + 2), log'[t][i].type = "CALLED"
        PROVE  \E k \in i..(n + 2) : log'[t][k].type = "WAITING"
    <3>1. n + 2 \in i..(n + 2)
      BY <1>1
    <3> QED BY <2>1, <3>1
  <2>4. ASSUME NEW i \in 1..(n + 2), NEW j \in 1..(n + 2), i < j,
               log'[t][i].type = "CALLED", log'[t][j].type = "CALLED"
        PROVE  \E k \in i..j : log'[t][k].type = "WAITING"
    <3>1. i \in 1..n /\ j \in 1..n
      BY <2>2, <2>4
    <3>2. \A k \in 1..n : log'[t][k] = log[t][k]
      BY <2>1
    <3> QED BY <1>4, <2>4, <3>1, <3>2
  <2>5. Len(log'[t]) = n + 2
    BY <2>1
  <2> QED BY <2>3, <2>4, <2>5
<1>9. ASSUME NEW to \in Target \ {"TRANSFERRED"}, db'[t].status = to, GrowsTo(t, to)
      PROVE  /\ db'[t].status # "WAITING"
             /\ \A i, j \in 1..Len(log'[t]) :
                  i < j /\ log'[t][i].type = "CALLED" /\ log'[t][j].type = "CALLED"
                    => \E k \in i..j : log'[t][k].type = "WAITING"
  <2>1. Len(log'[t]) = n + 1 /\ \A k \in 1..n : log'[t][k] = log[t][k]
    BY <1>9 DEF GrowsTo, n
  <2>2. log'[t][n + 1].type # "CALLED"
    BY <1>9 DEF GrowsTo, Target, n
  <2>3. to # "WAITING"
    BY <1>9 DEF Target
  <2>4. ASSUME NEW i \in 1..(n + 1), NEW j \in 1..(n + 1), i < j,
               log'[t][i].type = "CALLED", log'[t][j].type = "CALLED"
        PROVE  \E k \in i..j : log'[t][k].type = "WAITING"
    <3>1. i \in 1..n /\ j \in 1..n
      BY <1>1, <2>2, <2>4
    <3> QED BY <1>4, <2>1, <2>4, <3>1
  <2> QED BY <1>9, <2>1, <2>3, <2>4
<1> QED BY <1>5, <1>6, <1>7, <1>8, <1>9, LogSteps

----------------------------------------------------------------------------
\* What handlers have read, and what they log of it

\* The log of a ticket is only added to.
LEMMA LogsGrow ==
  ASSUME TypeOK, WritersHoldLocks, WritesFitRows, BatchesFitRows, [Next]_vars,
         NEW t \in Ticket
  PROVE  /\ Len(log[t]) \in Nat /\ Len(log'[t]) \in Nat /\ Len(log[t]) <= Len(log'[t])
         /\ \A i \in 1..Len(log[t]) : log'[t][i] = log[t][i]
<1>1. Len(log[t]) \in Nat
  BY DEF TypeOK
<1>2. CASE log'[t] = log[t]
  BY <1>1, <1>2
<1>3. ASSUME NEW type, GrowsTo(t, type)
      PROVE  /\ Len(log'[t]) = Len(log[t]) + 1
             /\ \A i \in 1..Len(log[t]) : log'[t][i] = log[t][i]
  BY <1>3 DEF GrowsTo
<1>4. ASSUME GrowsByTransfer(t)
      PROVE  /\ Len(log'[t]) = Len(log[t]) + 2
             /\ \A i \in 1..Len(log[t]) : log'[t][i] = log[t][i]
  BY <1>4 DEF GrowsByTransfer
<1> QED BY <1>1, <1>2, <1>3, <1>4, LogSteps

\* The log of t says that the ticket had the status held, at some time.
Logged(t, held) == \E j \in 1..Len(log[t]) : StatusAfter(log[t][j].type) = held

\* It will say so after this step.
WillBeLogged(t, held) == \E j \in 1..Len(log'[t]) : StatusAfter(log'[t][j].type) = held

LEMMA LoggedStays ==
  ASSUME TypeOK, WritersHoldLocks, WritesFitRows, BatchesFitRows, [Next]_vars,
         NEW t \in Ticket, NEW held, Logged(t, held)
  PROVE  WillBeLogged(t, held)
<1>1. PICK j \in 1..Len(log[t]) : StatusAfter(log[t][j].type) = held
  BY DEF Logged
<1>2. j \in 1..Len(log'[t]) /\ log'[t][j] = log[t][j]
  BY LogsGrow
<1> QED BY <1>1, <1>2 DEF WillBeLogged

LEMMA CurrentIsLogged ==
  ASSUME TypeOK, LogMatchesStatus, NEW t \in Ticket, db[t] # AbsentRow
  PROVE  Logged(t, db[t].status)
BY EmptyLog DEF LogMatchesStatus, Logged

\* What a step may be for one session
LEMMA SessionSteps ==
  ASSUME TypeOK, [Next]_vars, NEW r \in Session
  PROVE  \/ tx'[r] = tx[r] \/ tx'[r] = Idle \/ Flush(r)
         \/ \E t \in Ticket : Create(r, t)
         \/ \E c \in Counter, filter \in Service \cup {None} : CallNext(r, c, filter)
         \/ \E to \in Target, t \in Ticket : Load(r, to, t)
         \/ \E l \in Location, v \in Service : Requeue(r, l, v)
<1>1. ASSUME NEW s \in Session, NEW t \in Ticket, Create(s, t), s # r
      PROVE  tx'[r] = tx[r]
  BY <1>1 DEF Create, TypeOK
<1>2. ASSUME NEW s \in Session, NEW c \in Counter, NEW filter \in Service \cup {None},
             CallNext(s, c, filter), s # r
      PROVE  tx'[r] = tx[r]
  BY <1>2 DEF CallNext, TypeOK
<1>3. ASSUME NEW s \in Session, NEW to \in Target, NEW t \in Ticket, Load(s, to, t), s # r
      PROVE  tx'[r] = tx[r]
  BY <1>3 DEF Load, TypeOK
<1>4. ASSUME NEW s \in Session, Flush(s), s # r
      PROVE  tx'[r] = tx[r]
  BY <1>4 DEF Flush, TypeOK
<1>5. ASSUME NEW s \in Session, NEW l \in Location, NEW v \in Service, Requeue(s, l, v), s # r
      PROVE  tx'[r] = tx[r]
  BY <1>5 DEF Requeue, TypeOK
<1>6. ASSUME NEW s \in Session, Reject(s) \/ Refuse(s) \/ Commit(s) \/ Rollback(s)
      PROVE  tx'[r] = tx[r] \/ tx'[r] = Idle
  BY <1>6 DEF Reject, Refuse, Commit, Rollback, TypeOK
<1>7. ASSUME UNCHANGED tx
      PROVE  tx'[r] = tx[r]
  BY <1>7
<1>8. ASSUME NEW w \in Worker, Scan(w) \/ JobStep(w) \/ WorkerCrash(w)
      PROVE  UNCHANGED tx
  BY <1>8 DEF Scan, JobStep, UpdateStuck, RefuseStuck, CommitStuck, WorkerCrash
<1>9. ASSUME NEW t \in Ticket, Age(t)
      PROVE  UNCHANGED tx
  BY <1>9 DEF Age
<1> QED BY <1>1, <1>2, <1>3, <1>4, <1>5, <1>6, <1>7, <1>8, <1>9
        DEF Next, RequestStep, vars

LEMMA DecisionsStep ==
  ASSUME TypeOK, WritersHoldLocks, WritesFitRows, BatchesFitRows, LogMatchesStatus,
         DecidedOnCommittedStatus, [Next]_vars
  PROVE  DecidedOnCommittedStatus'
<1> DEFINE Decided(r) ==
      tx'[r].seen # None =>
        /\ WillBeLogged(tx'[r].ticket, tx'[r].seen)
        /\ tx'[r].pc \in {"requeue", "flushed"} => TransitionAllowed(tx'[r].seen, tx'[r].to)
<1> SUFFICES ASSUME NEW r \in Session
             PROVE  Decided(r)
  BY DEF DecidedOnCommittedStatus, WillBeLogged
<1>1. tx[r].seen # None =>
        /\ Logged(tx[r].ticket, tx[r].seen)
        /\ tx[r].pc \in {"requeue", "flushed"} => TransitionAllowed(tx[r].seen, tx[r].to)
  BY DEF DecidedOnCommittedStatus, Logged
<1>2. CASE tx'[r] = tx[r]
  <2>1. tx[r].seen # None => tx[r].ticket \in Ticket
    BY BusySession DEF Idle
  <2>2. tx[r].seen # None => WillBeLogged(tx[r].ticket, tx[r].seen)
    BY <1>1, <2>1, LoggedStays
  <2> QED BY <1>1, <1>2, <2>2
<1>3. CASE tx'[r] = Idle
  BY <1>3 DEF Idle
<1>4. ASSUME NEW t \in Ticket, Create(r, t)
      PROVE  Decided(r)
  <2>1. tx'[r].seen = None
    BY <1>4 DEF Create, TypeOK
  <2> QED BY <2>1
<1>5. ASSUME NEW c \in Counter, NEW filter \in Service \cup {None}, CallNext(r, c, filter)
      PROVE  Decided(r)
  <2>1. PICK t \in Callable(c, filter) :
          tx' = [tx EXCEPT ![r] =
            [pc |-> "flushed", to |-> "CALLED", ticket |-> t, seen |-> "WAITING",
             row |-> [db[t] EXCEPT !.status = "CALLED", !.counter = c]]]
    BY <1>5 DEF CallNext
  <2>2. t \in Ticket /\ db[t].status = "WAITING" /\ db[t] # AbsentRow
    BY <2>1 DEF Callable, AbsentRow, Absent
  <2>3. tx'[r].ticket = t /\ tx'[r].seen = "WAITING" /\ tx'[r].to = "CALLED"
    BY <2>1 DEF TypeOK
  <2>4. WillBeLogged(t, "WAITING")
    BY <2>2, CurrentIsLogged, LoggedStays
  <2>5. TransitionAllowed("WAITING", "CALLED")
    BY DEF TransitionAllowed, ValidTransitions, ValidTransition, Status
  <2> QED BY <2>3, <2>4, <2>5
<1>6. ASSUME NEW to \in Target, NEW t \in Ticket, Load(r, to, t)
      PROVE  Decided(r)
  <2>1. /\ tx'[r].ticket = t /\ tx'[r].seen = db[t].status /\ tx'[r].pc = "loaded"
        /\ db[t] # AbsentRow
    BY <1>6 DEF Load, TypeOK
  <2>2. WillBeLogged(t, db[t].status)
    BY <2>1, CurrentIsLogged, LoggedStays
  <2> QED BY <2>1, <2>2
<1>7. ASSUME Flush(r)
      PROVE  Decided(r)
  <2>1. TransitionAllowed(tx[r].seen, tx[r].to) /\ tx[r] # Idle
    BY <1>7 DEF Flush, Idle
  <2>2. tx'[r].ticket = tx[r].ticket /\ tx'[r].seen = tx[r].seen /\ tx'[r].to = tx[r].to
    BY <1>7, <2>1 DEF Flush, TypeOK, Transaction
  <2>3. tx[r].seen # None => WillBeLogged(tx[r].ticket, tx[r].seen)
    BY <1>1, <2>1, BusySession, LoggedStays
  <2> QED BY <2>1, <2>2, <2>3
<1>8. ASSUME NEW l \in Location, NEW v \in Service, Requeue(r, l, v)
      PROVE  Decided(r)
  <2>1. tx[r].pc = "requeue" /\ tx[r] # Idle
    BY <1>8 DEF Requeue, Idle
  <2>2. tx'[r].ticket = tx[r].ticket /\ tx'[r].seen = tx[r].seen /\ tx'[r].to = tx[r].to
    BY <1>8, <2>1 DEF Requeue, TypeOK, Transaction
  <2>3. tx[r].seen # None => WillBeLogged(tx[r].ticket, tx[r].seen)
    BY <1>1, <2>1, BusySession, LoggedStays
  <2> QED BY <1>1, <2>1, <2>2, <2>3
<1> QED BY <1>2, <1>3, <1>4, <1>5, <1>6, <1>7, <1>8, SessionSteps

\* Where an event that a step adds to a log comes from: a request, with what it
\* had read, the second event of a transfer, a new ticket, or auto_no_show.
RequestAdds(t, s, e) ==
  /\ Commit(s) /\ tx[s] # Idle /\ tx[s].ticket = t
  /\ tx[s].to \in Target \cup {"CALLED"} /\ tx[s].seen \in Status
  /\ e = EventOf(tx[s].to, tx[s].seen)

JobAdds(t, w, e) ==
  CommitStuck(w) /\ t \in job[w].done /\ e = EventOf("NO_SHOW", None)

LEMMA NewEventsBy ==
  ASSUME TypeOK, WritersHoldLocks, WritesFitRows, BatchesFitRows, [Next]_vars,
         NEW t \in Ticket, NEW i \in (Len(log[t]) + 1)..Len(log'[t])
  PROVE  \/ log'[t][i] \in {EventOf("CREATED", None), EventOf("WAITING", None)}
         \/ /\ i = Len(log[t]) + 1
            /\ \/ \E s \in Session : RequestAdds(t, s, log'[t][i])
               \/ \E w \in Worker : JobAdds(t, w, log'[t][i])
<1> DEFINE n == Len(log[t])
           a == EventOf("WAITING", None)
           c == EventOf("CREATED", None)
<1>1. n \in Nat /\ log[t] \in Seq(Event) /\ log'[t] # log[t]
  BY DEF TypeOK
<1>2. ASSUME NEW s \in Session, Commit(s), tx[s].ticket = t
      PROVE  \/ log'[t][i] \in {c, a}
             \/ i = n + 1 /\ RequestAdds(t, s, log'[t][i])
  <2> DEFINE x == tx[s]
             e == EventOf(x.to, x.seen)
  <2>1. x.pc = "flushed" /\ x # Idle /\ x \in Transaction
    BY <1>2 DEF Commit, Idle, TypeOK
  <2>2. log'[t] = log[t] \o Staged(x)
    BY <1>2 DEF Commit, TypeOK
  <2>3. WriteFits(x, db[t]) /\ x.to \in Target \cup {"WAITING", "CALLED"}
    BY <1>2, <2>1, BusySession DEF WritesFitRows
  <2>4. x.to # "WAITING" => x.seen \in Status /\ x.to \in Status
    BY <2>1, <2>3 DEF WriteFits, Target, Status
  <2>5. x.to # "WAITING" => RequestAdds(t, s, e)
    BY <1>2, <2>1, <2>3, <2>4 DEF RequestAdds
  <2>6. x.to # "WAITING" => EventTypeFor(x.seen, x.to) = x.to
    BY <2>4, EventTypeIsTarget
  <2>7. a \in Event /\ c \in Event
    BY DEF EventOf, Event, EventType, Status
  <2>8. x.to # "WAITING" => e \in Event
    BY <2>4 DEF EventOf, Event, EventType
  <2>9. Staged(x) = IF x.to = "WAITING" THEN <<c>>
                    ELSE IF x.to = "TRANSFERRED" THEN <<e, a>> ELSE <<e>>
    BY <2>6 DEF Staged
  <2> HIDE DEF x, e, a, c, n
  <2>10. CASE x.to = "WAITING"
    <3>1. log'[t] = log[t] \o <<c>>
      BY <2>2, <2>9, <2>10
    <3>2. i = n + 1 /\ log'[t][n + 1] = c
      BY <1>1, <2>7, <3>1, ExtendByOne DEF n
    <3> QED BY <3>2
  <2>11. CASE x.to = "TRANSFERRED"
    <3>1. log'[t] = log[t] \o <<e, a>>
      BY <2>2, <2>9, <2>11
    <3>2. e \in Event /\ RequestAdds(t, s, e)
      BY <2>5, <2>8, <2>11
    <3>3. /\ log'[t][n + 1] = e /\ log'[t][n + 2] = a
          /\ (n + 1)..Len(log'[t]) = {n + 1, n + 2}
      BY <1>1, <2>7, <3>1, <3>2, ExtendByTwo DEF n
    <3>4. CASE i = n + 1
      BY <3>2, <3>3, <3>4
    <3>5. CASE i = n + 2
      BY <3>3, <3>5
    <3> QED BY <3>3, <3>4, <3>5 DEF n
  <2>12. CASE x.to \notin {"WAITING", "TRANSFERRED"}
    <3>1. log'[t] = log[t] \o <<e>>
      BY <2>2, <2>9, <2>12
    <3>2. e \in Event /\ RequestAdds(t, s, e)
      BY <2>5, <2>8, <2>12
    <3>3. i = n + 1 /\ log'[t][n + 1] = e
      BY <1>1, <3>1, <3>2, ExtendByOne DEF n
    <3>4. log'[t][i] = e
      BY <3>3
    <3> QED BY <3>2, <3>3, <3>4
  <2> QED BY <2>10, <2>11, <2>12
<1>3. ASSUME NEW w \in Worker, CommitStuck(w), t \in job[w].done
      PROVE  i = n + 1 /\ JobAdds(t, w, log'[t][i])
  <2> DEFINE e == EventOf("NO_SHOW", None)
  <2>1. e \in Event
    BY DEF EventOf, Event, EventType, Status
  <2>2. log'[t] = Append(log[t], e)
    BY <1>3 DEF CommitStuck
  <2>3. JobAdds(t, w, e)
    BY <1>3 DEF JobAdds
  <2> HIDE DEF e
  <2>4. log'[t] = log[t] \o <<e>>
    BY <2>1, <2>2 DEF TypeOK
  <2>5. i = n + 1 /\ log'[t][n + 1] = e
    BY <1>1, <2>1, <2>4, ExtendByOne
  <2> QED BY <2>3, <2>5
<1> QED BY <1>1, <1>2, <1>3, OnlyHolderCommits

\* Every event that a step adds to a log carries a status read before.
LEMMA NewEvents ==
  ASSUME TypeOK, WritersHoldLocks, WritesFitRows, BatchesFitRows,
         DecidedOnCommittedStatus, [Next]_vars, NEW t \in Ticket,
         NEW i \in (Len(log[t]) + 1)..Len(log'[t]), log'[t][i].from # None
  PROVE  /\ TransitionAllowed(log'[t][i].from, log'[t][i].type)
         /\ Logged(t, log'[t][i].from)
<1>1. ASSUME NEW s \in Session, RequestAdds(t, s, log'[t][i])
      PROVE  /\ TransitionAllowed(log'[t][i].from, log'[t][i].type)
             /\ Logged(t, log'[t][i].from)
  <2>1. tx[s].pc = "flushed" /\ tx[s].ticket = t /\ tx[s].seen # None
    BY <1>1, ConstantsAssumption DEF RequestAdds, Commit
  <2>2. log'[t][i].type = tx[s].to /\ log'[t][i].from = tx[s].seen
    BY <1>1 DEF RequestAdds, EventOf
  <2> QED BY <2>1, <2>2 DEF DecidedOnCommittedStatus, Logged
<1>2. \A type, w : log'[t][i] # EventOf(type, None) /\ ~JobAdds(t, w, log'[t][i])
  BY DEF EventOf, JobAdds
<1> QED BY <1>1, <1>2, NewEventsBy

LEMMA FromStatusStep ==
  ASSUME TypeOK, WritersHoldLocks, WritesFitRows, BatchesFitRows,
         DecidedOnCommittedStatus, FromStatusWasHeld, [Next]_vars
  PROVE  FromStatusWasHeld'
<1> SUFFICES ASSUME NEW t \in Ticket, NEW i \in 1..Len(log'[t]), log'[t][i].from # None
             PROVE  /\ TransitionAllowed(log'[t][i].from, log'[t][i].type)
                    /\ \E j \in 1..(i-1) : StatusAfter(log'[t][j].type) = log'[t][i].from
  BY DEF FromStatusWasHeld
<1> DEFINE n == Len(log[t])
<1>1. /\ n \in Nat /\ Len(log'[t]) \in Nat
      /\ \A k \in 1..n : log'[t][k] = log[t][k]
  BY LogsGrow
<1>2. CASE i \in 1..n
  <2>1. PICK j \in 1..(i-1) : StatusAfter(log[t][j].type) = log[t][i].from
    BY <1>1, <1>2 DEF FromStatusWasHeld
  <2>2. TransitionAllowed(log[t][i].from, log[t][i].type)
    BY <1>1, <1>2 DEF FromStatusWasHeld
  <2>3. log'[t][i] = log[t][i] /\ log'[t][j] = log[t][j]
    BY <1>1, <1>2, <2>1
  <2> QED BY <2>1, <2>2, <2>3
<1>3. CASE i \in (n + 1)..Len(log'[t])
  <2>1. /\ TransitionAllowed(log'[t][i].from, log'[t][i].type)
        /\ Logged(t, log'[t][i].from)
    BY <1>3, NewEvents
  <2>2. PICK j \in 1..n : StatusAfter(log[t][j].type) = log'[t][i].from
    BY <2>1 DEF Logged
  <2>3. j \in 1..(i-1) /\ log'[t][j] = log[t][j]
    BY <1>1, <1>3, <2>2
  <2> QED BY <2>1, <2>2, <2>3
<1> QED BY <1>1, <1>2, <1>3

----------------------------------------------------------------------------
\* The inductive invariant
IInv ==
  /\ TypeOK /\ TransactionsFit
  /\ ServedAtACounterOfItsLocation /\ CompletedLeavesNoneOpen
  /\ LogMatchesStatus /\ LogReplaysLegally /\ NoDoubleCall /\ FromStatusWasHeld

LEMMA InvInit == Init => IInv
<1> SUFFICES ASSUME Init
             PROVE  IInv
  OBVIOUS
<1>1. TypeOK
  BY InitType
<1>2. \A t \in Ticket : db[t] = AbsentRow /\ log[t] = <<>> /\ open[t] = 0 /\ Len(log[t]) = 0
  BY DEF Init
<1>3. (\A s \in Session : tx[s] = Idle) /\ (\A w \in Worker : job[w] = NoJob)
  BY DEF Init
<1>4. /\ WritersHoldLocks /\ WritesFitRows /\ BatchesFitRows
      /\ DecidedOnCommittedStatus
  BY <1>3 DEF WritersHoldLocks, WritesFitRows, BatchesFitRows,
              DecidedOnCommittedStatus, Idle, NoJob
<1>5. CommittedStatus /\ WaitingAfterCalls
  BY <1>2 DEF CommittedStatus, WaitingAfterCalls, AbsentRow, Absent
<1>6. ServedAtACounterOfItsLocation /\ CompletedLeavesNoneOpen
  BY <1>2 DEF ServedAtACounterOfItsLocation, CompletedLeavesNoneOpen, AbsentRow, Absent
<1>7. LogMatchesStatus /\ LogReplaysLegally /\ NoDoubleCall /\ FromStatusWasHeld
  BY <1>2 DEF LogMatchesStatus, LogReplaysLegally, NoDoubleCall, FromStatusWasHeld
<1> QED BY <1>1, <1>4, <1>5, <1>6, <1>7 DEF IInv, TransactionsFit

LEMMA InvStep == IInv /\ [Next]_vars => IInv'
<1> SUFFICES ASSUME IInv, [Next]_vars
             PROVE  IInv'
  OBVIOUS
<1> USE DEF IInv, TransactionsFit
<1>1. TypeOK'
  BY TypeStep
<1>2. WritersHoldLocks' /\ WritesFitRows' /\ BatchesFitRows'
  BY LocksStep, WritesStep, BatchesStep
<1>3. CommittedStatus' /\ ServedAtACounterOfItsLocation' /\ CompletedLeavesNoneOpen'
  BY CommittedStatusStep, ServedStep, CompletedStep
<1>4. LogMatchesStatus' /\ LogReplaysLegally'
  BY LogMatchesStep, ReplaysStep
<1>5. WaitingAfterCalls' /\ NoDoubleCall'
  BY CallsStep
<1>6. DecidedOnCommittedStatus' /\ FromStatusWasHeld'
  BY DecisionsStep, FromStatusStep
<1> QED BY <1>1, <1>2, <1>3, <1>4, <1>5, <1>6

LEMMA Invariance == Spec => []IInv
BY InvInit, InvStep, PTL DEF Spec

----------------------------------------------------------------------------
\* Every variable has its type in every reachable state.
THEOREM TypeCorrect == Spec => []TypeOK
<1>1. IInv => TypeOK
  BY DEF IInv
<1> QED BY <1>1, Invariance, PTL

\* No transaction in flight, of a request or of auto_no_show, is ever built on
\* a row that another one has replaced since: the row lock, taken before the
\* trigger compares, protects handlers that decide on an unlocked read.
THEOREM NoLostUpdate == Spec => []TransactionsFit
<1>1. IInv => TransactionsFit
  BY DEF IInv
<1> QED BY <1>1, Invariance, PTL

\* The status column always is the projection of the event log.
THEOREM StatusIsProjection == Spec => []LogMatchesStatus
<1>1. IInv => LogMatchesStatus
  BY DEF IInv
<1> QED BY <1>1, Invariance, PTL

\* The log of every ticket replays along VALID_TRANSITIONS, up to repetition.
THEOREM HistoriesAreLegal == Spec => []LogReplaysLegally
<1>1. IInv => LogReplaysLegally
  BY DEF IInv
<1> QED BY <1>1, Invariance, PTL

\* However many counters call at once, a ticket is called again only after a
\* transfer has put it back into a queue.
THEOREM CalledOnce == Spec => []NoDoubleCall
<1>1. IInv => NoDoubleCall
  BY DEF IInv
<1> QED BY <1>1, Invariance, PTL

\* The from_status of every event is a status that the ticket had had, and from
\* which the state machine has a transition to the event's.
THEOREM FromStatusIsPast == Spec => []FromStatusWasHeld
<1>1. IInv => FromStatusWasHeld
  BY DEF IInv
<1> QED BY <1>1, Invariance, PTL

\* Called and served tickets are at a counter of their own location, and
\* waiting tickets at none.
THEOREM CountersMatch == Spec => []ServedAtACounterOfItsLocation
<1>1. IInv => ServedAtACounterOfItsLocation
  BY DEF IInv
<1> QED BY <1>1, Invariance, PTL

\* A completed ticket has no open interaction.
THEOREM CompletedIsClosed == Spec => []CompletedLeavesNoneOpen
<1>1. IInv => CompletedLeavesNoneOpen
  BY DEF IInv
<1> QED BY <1>1, Invariance, PTL

\* No step of any request or worker changes a status that is terminal.
THEOREM TerminalStays == Spec => TerminalIsFinal
<1>1. IInv /\ [Next]_vars
        => [\A t \in Ticket : db[t].status \in Terminal => db'[t].status = db[t].status]_vars
  <2> SUFFICES ASSUME IInv, [Next]_vars, NEW t \in Ticket, db[t].status \in Terminal
               PROVE  db'[t].status = db[t].status
    OBVIOUS
  <2> QED BY TerminalStep DEF IInv, TransactionsFit
<1> QED BY <1>1, Invariance, PTL DEF Spec, TerminalIsFinal

\* No step of any request or worker takes a ticket out of HOLD but to cancel it.
THEOREM HeldStays == Spec => HeldIsOnlyCanceled
<1>1. IInv /\ [Next]_vars
        => [\A t \in Ticket :
              db[t].status = "HOLD" => db'[t].status \in {"HOLD", "CANCELED"}]_vars
  BY HeldStep DEF IInv, TransactionsFit
<1> QED BY <1>1, Invariance, PTL DEF Spec, HeldIsOnlyCanceled

\* Queue and counter of a ticket change in no step but a call or a transfer.
THEOREM PlacesStay == Spec => PlacesChangeByCallOrTransfer
<1>1. IInv /\ [Next]_vars
        => [\A t \in Ticket : db[t] # AbsentRow =>
              \/ /\ db'[t].location = db[t].location /\ db'[t].service = db[t].service
                 /\ \/ db'[t].counter = db[t].counter
                    \/ db[t].status = "WAITING" /\ db'[t].status = "CALLED"
              \/ db[t].status = "IN_SERVICE" /\ db'[t].status = "WAITING"]_vars
  <2> SUFFICES ASSUME IInv, [Next]_vars, NEW t \in Ticket, db[t] # AbsentRow
               PROVE  \/ /\ db'[t].location = db[t].location /\ db'[t].service = db[t].service
                         /\ \/ db'[t].counter = db[t].counter
                            \/ db[t].status = "WAITING" /\ db'[t].status = "CALLED"
                      \/ db[t].status = "IN_SERVICE" /\ db'[t].status = "WAITING"
    OBVIOUS
  <2> QED BY PlacesStep DEF IInv, TransactionsFit
<1> QED BY <1>1, Invariance, PTL DEF Spec, PlacesChangeByCallOrTransfer

----------------------------------------------------------------------------
\* Deadlock

\* Whoever holds a row lock has written the row; a request has no other
HoldersHaveWritten ==
  \A t \in Ticket :
    /\ lock[t] \in Session
         => tx[lock[t]].pc \in {"requeue", "flushed"} /\ tx[lock[t]].ticket = t
    /\ lock[t] \in Worker => t \in job[lock[t]].done

\* A batch has updated rows of smaller keys than those it still has to update
RowsInOrder ==
  \A w \in Worker : \A t \in job[w].done, u \in job[w].todo : Pk[t] < Pk[u]

LEMMA HoldersStep ==
  ASSUME TypeOK, WritersHoldLocks, HoldersHaveWritten, [Next]_vars
  PROVE  HoldersHaveWritten'
<1> USE DEF HoldersHaveWritten
<1>1. ASSUME NEW s \in Session, NEW t \in Ticket, NEW x, tx[s] = Idle,
             lock' = [lock EXCEPT ![t] = s], tx' = [tx EXCEPT ![s] = x],
             x.pc = "flushed", x.ticket = t, job' = job
      PROVE  HoldersHaveWritten'
  BY <1>1, ConstantsAssumption DEF TypeOK, Idle
<1>2. ASSUME NEW s \in Session, NEW t \in Ticket, Create(s, t)
      PROVE  HoldersHaveWritten'
  <2> DEFINE x == [pc |-> "flushed", to |-> "WAITING", ticket |-> t, seen |-> None,
                   row |-> [status |-> "WAITING", location |-> Origin[t].location,
                            service |-> Origin[t].service, counter |-> None]]
  <2>1. /\ tx[s] = Idle /\ lock' = [lock EXCEPT ![t] = s] /\ tx' = [tx EXCEPT ![s] = x]
        /\ job' = job
    BY <1>2 DEF Create
  <2>2. x.pc = "flushed" /\ x.ticket = t
    OBVIOUS
  <2> HIDE DEF x
  <2> QED BY <1>1, <2>1, <2>2
<1>3. ASSUME NEW s \in Session, NEW c \in Counter,
             NEW filter \in Service \cup {None}, CallNext(s, c, filter)
      PROVE  HoldersHaveWritten'
  <2>1. PICK t \in Callable(c, filter) :
          /\ lock' = [lock EXCEPT ![t] = s]
          /\ tx' = [tx EXCEPT ![s] =
               [pc |-> "flushed", to |-> "CALLED", ticket |-> t, seen |-> "WAITING",
                row |-> [db[t] EXCEPT !.status = "CALLED", !.counter = c]]]
    BY <1>3 DEF CallNext
  <2>2. t \in Ticket /\ tx[s] = Idle /\ job' = job
    BY <1>3 DEF CallNext, Callable
  <2> DEFINE x == [pc |-> "flushed", to |-> "CALLED", ticket |-> t, seen |-> "WAITING",
                   row |-> [db[t] EXCEPT !.status = "CALLED", !.counter = c]]
  <2>3. x.pc = "flushed" /\ x.ticket = t /\ tx' = [tx EXCEPT ![s] = x]
    BY <2>1
  <2> HIDE DEF x
  <2> QED BY <1>1, <2>1, <2>2, <2>3
<1>4. ASSUME NEW s \in Session, tx[s].pc \in {"idle", "loaded"}, NEW x,
             lock' = lock, tx' = [tx EXCEPT ![s] = x], job' = job
      PROVE  HoldersHaveWritten'
  BY <1>4, ConstantsAssumption DEF TypeOK
<1>5. ASSUME NEW s \in Session, Reject(s) \/ Refuse(s)
      PROVE  HoldersHaveWritten'
  BY <1>4, <1>5 DEF Reject, Refuse
<1>6. ASSUME NEW s \in Session, NEW to \in Target, NEW t \in Ticket, Load(s, to, t)
      PROVE  HoldersHaveWritten'
  BY <1>4, <1>6 DEF Load, Idle
<1>7. ASSUME NEW s \in Session, Flush(s)
      PROVE  HoldersHaveWritten'
  <2>1. tx[s].ticket \in Ticket
    BY <1>7 DEF Flush, TypeOK, Transaction, Idle
  <2>2. /\ lock' = [lock EXCEPT ![tx[s].ticket] = s] /\ job' = job
        /\ tx'[s].pc \in {"requeue", "flushed"} /\ tx'[s].ticket = tx[s].ticket
        /\ \A r \in Session \ {s} : tx'[r] = tx[r]
        /\ tx[s].pc = "loaded"
    <3>1. tx[s] # Idle /\ tx[s] \in Transaction /\ tx \in [Session -> Transaction]
      BY <1>7 DEF Flush, Idle, TypeOK
    <3> DEFINE row == [db[tx[s].ticket] EXCEPT !.status = tx[s].to]
    <3>2. PICK pc \in {"requeue", "flushed"} : tx' = [tx EXCEPT ![s].pc = pc, ![s].row = row]
      BY <1>7 DEF Flush
    <3> HIDE DEF row
    <3>3. tx'[s] = [tx[s] EXCEPT !.pc = pc, !.row = row] /\ \A r \in Session \ {s} : tx'[r] = tx[r]
      BY <3>1, <3>2
    <3>4. tx'[s].ticket = tx[s].ticket /\ tx'[s].pc = pc
      BY <3>1, <3>3 DEF Transaction
    <3> QED BY <1>7, <3>1, <3>3, <3>4 DEF Flush
  <2>3. ASSUME NEW t \in Ticket
        PROVE  /\ lock'[t] \in Session =>
                    tx'[lock'[t]].pc \in {"requeue", "flushed"} /\ tx'[lock'[t]].ticket = t
               /\ lock'[t] \in Worker => t \in job'[lock'[t]].done
    <3>1. CASE t = tx[s].ticket
      <4>1. lock'[t] = s
        BY <2>2, <3>1 DEF TypeOK
      <4> QED BY <2>2, <3>1, <4>1, ConstantsAssumption
    <3>2. CASE t # tx[s].ticket
      <4>1. lock'[t] = lock[t]
        BY <2>2, <3>2
      <4>2. lock[t] # s
        BY <2>2
      <4> QED BY <2>2, <4>1, <4>2
    <3> QED BY <3>1, <3>2
  <2> QED BY <2>3
<1>8. ASSUME NEW s \in Session, NEW l \in Location, NEW v \in Service, Requeue(s, l, v)
      PROVE  HoldersHaveWritten'
  <2>1. /\ lock' = lock /\ job' = job
        /\ tx'[s].pc = "flushed" /\ tx'[s].ticket = tx[s].ticket
        /\ \A r \in Session \ {s} : tx'[r] = tx[r]
    BY <1>8 DEF Requeue, TypeOK, Transaction, Idle
  <2> QED BY <2>1, ConstantsAssumption DEF TypeOK
<1>9. ASSUME NEW s \in Session, Commit(s) \/ Rollback(s)
      PROVE  HoldersHaveWritten'
  <2>1. \A t \in Ticket : lock'[t] = IF lock[t] = s THEN None ELSE lock[t]
    <3>1. CASE Commit(s)
      <4>1. tx[s].ticket \in Ticket
        BY <3>1 DEF Commit, TypeOK, Transaction, Idle
      <4>2. lock' = [lock EXCEPT ![tx[s].ticket] = None]
        BY <3>1 DEF Commit
      <4>3. \A t \in Ticket : lock[t] = s => t = tx[s].ticket
        BY DEF TypeOK
      <4>4. lock[tx[s].ticket] = s
        BY <3>1 DEF Commit, WritersHoldLocks
      <4> QED BY <4>1, <4>2, <4>3, <4>4 DEF TypeOK
    <3>2. CASE Rollback(s)
      BY <3>2 DEF Rollback, Release
    <3> QED BY <1>9, <3>1, <3>2
  <2>2. job' = job /\ \A r \in Session \ {s} : tx'[r] = tx[r]
    BY <1>9 DEF Commit, Rollback, TypeOK
  <2> QED BY <2>1, <2>2, ConstantsAssumption
<1>10. ASSUME NEW w \in Worker, NEW t \in Ticket, UpdateStuck(w, t)
       PROVE  HoldersHaveWritten'
  <2>1. /\ lock' = [lock EXCEPT ![t] = w] /\ tx' = tx
        /\ job'[w].done = job[w].done \cup {t}
        /\ \A v \in Worker \ {w} : job'[v] = job[v]
    BY <1>10 DEF UpdateStuck, TypeOK
  <2> QED BY <2>1, ConstantsAssumption DEF TypeOK
<1>11. ASSUME NEW w \in Worker,
              (\E t \in Ticket : RefuseStuck(w, t)) \/ CommitStuck(w) \/ WorkerCrash(w)
       PROVE  HoldersHaveWritten'
  <2>1. \A t \in Ticket : lock'[t] = IF lock[t] = w THEN None ELSE lock[t]
    BY <1>11 DEF RefuseStuck, CommitStuck, WorkerCrash, Release
  <2>2. tx' = tx /\ \A v \in Worker \ {w} : job'[v] = job[v]
    BY <1>11 DEF RefuseStuck, CommitStuck, WorkerCrash, TypeOK
  <2> QED BY <2>1, <2>2, ConstantsAssumption
<1>12. ASSUME NEW w \in Worker, Scan(w)
       PROVE  HoldersHaveWritten'
  <2>1. lock' = lock /\ tx' = tx /\ \A v \in Worker : job'[v].done = job[v].done
    BY <1>12 DEF Scan, TypeOK
  <2> QED BY <2>1
<1>13. ASSUME NEW t \in Ticket, Age(t)
       PROVE  HoldersHaveWritten'
  BY <1>13 DEF Age
<1>14. CASE UNCHANGED vars
  BY <1>14 DEF vars
<1> QED BY <1>2, <1>3, <1>5, <1>6, <1>7, <1>8, <1>9, <1>10, <1>11, <1>12, <1>13, <1>14
        DEF Next, RequestStep, JobStep

LEMMA OrderStep ==
  ASSUME TypeOK, RowsInOrder, [Next]_vars
  PROVE  RowsInOrder'
<1> USE DEF RowsInOrder
<1>1. ASSUME NEW w \in Worker, NEW t \in Ticket, UpdateStuck(w, t)
      PROVE  RowsInOrder'
  <2>1. /\ job'[w].done = job[w].done \cup {t} /\ job'[w].todo = job[w].todo \ {t}
        /\ \A v \in Worker \ {w} : job'[v] = job[v]
    BY <1>1 DEF UpdateStuck, TypeOK
  <2>2. job[w].todo \subseteq Ticket
    BY DEF TypeOK
  <2>3. ASSUME NEW u \in job[w].todo \ {t}
        PROVE  Pk[t] < Pk[u]
    <3>1. Pk[t] <= Pk[u]
      BY <1>1 DEF UpdateStuck, IsNext
    <3>2. Pk[t] \in Nat /\ Pk[u] \in Nat /\ Pk[t] # Pk[u]
      BY <2>2, ConstantsAssumption
    <3> QED BY <3>1, <3>2
  <2> QED BY <2>1, <2>3
<1>2. ASSUME NEW w \in Worker, Scan(w)
      PROVE  RowsInOrder'
  <2>1. job'[w].done = {} /\ \A v \in Worker \ {w} : job'[v] = job[v]
    BY <1>2 DEF Scan, TypeOK, NoJob
  <2> QED BY <2>1
<1>3. ASSUME NEW w \in Worker,
             (\E t \in Ticket : RefuseStuck(w, t)) \/ CommitStuck(w) \/ WorkerCrash(w)
      PROVE  RowsInOrder'
  <2>1. job'[w].done = {} /\ \A v \in Worker \ {w} : job'[v] = job[v]
    BY <1>3 DEF RefuseStuck, CommitStuck, WorkerCrash, TypeOK, NoJob
  <2> QED BY <2>1
<1>4. CASE job' = job
  BY <1>4
<1> QED BY <1>1, <1>2, <1>3, <1>4
        DEF Next, RequestStep, JobStep, Create, CallNext, Load, Reject, Flush, Refuse, Commit,
            Requeue, Rollback, Age, vars

\* Among transactions that wait for each other only workers hold what others
\* wait for; of their next rows, that of the greatest key is held by a worker
\* whose own next row has a greater one.
LEMMA NoCycle ==
  ASSUME TypeOK, HoldersHaveWritten, RowsInOrder
  PROVE  NoLockDeadlock
<1> SUFFICES ASSUME NEW P \in SUBSET (Session \cup Worker), P # {},
                    \A p \in P : \E q \in P : WaitsFor(p, q)
             PROVE  FALSE
  BY DEF NoLockDeadlock
<1>1. ASSUME NEW p \in P, NEW q \in P, WaitsFor(p, q)
      PROVE  q \in Worker
  <2>1. PICK t \in Ticket : lock[t] = q
    BY <1>1 DEF WaitsFor
  <2>2. CASE q \in Session
    <3>1. tx[q].pc # "loaded" /\ q \notin Worker
      BY <2>1, <2>2, ConstantsAssumption DEF HoldersHaveWritten
    <3>2. \A r : ~WaitsFor(q, r)
      BY <3>1 DEF WaitsFor
    <3> QED BY <3>2
  <2> QED BY <2>2
<1>2. ASSUME NEW w \in P \cap Worker
      PROVE  \E q \in P \cap Worker, t \in Ticket : IsNext(w, t) /\ t \in job[q].done
  <2>1. PICK q \in P : WaitsFor(w, q)
    OBVIOUS
  <2>2. q \in Worker
    BY <1>1, <2>1
  <2>3. w \notin Session
    BY ConstantsAssumption
  <2> QED BY <2>1, <2>2, <2>3 DEF WaitsFor, HoldersHaveWritten
<1> DEFINE A == {t \in Ticket : \E w \in P \cap Worker : IsNext(w, t)}
<1>3. A # {}
  <2>1. PICK q \in P : q \in Worker
    BY <1>1
  <2> QED BY <1>2, <2>1
<1>4. PICK m \in A : \A a \in A : Pk[a] <= Pk[m]
  <2>1. A \subseteq Ticket
    OBVIOUS
  <2> HIDE DEF A
  <2> QED BY <1>3, <2>1, Greatest, ConstantsAssumption
<1>5. PICK w \in P \cap Worker : IsNext(w, m)
  BY <1>4
<1>6. PICK q \in P \cap Worker, t \in Ticket : IsNext(w, t) /\ t \in job[q].done
  BY <1>2, <1>5
<1>7. Pk[m] <= Pk[t]
  BY <1>5, <1>6 DEF IsNext
<1>8. PICK u \in Ticket : IsNext(q, u)
  BY <1>2, <1>6
<1>9. Pk[t] < Pk[u]
  BY <1>6, <1>8 DEF RowsInOrder, IsNext
<1>10. u \in A /\ Pk[u] <= Pk[m]
  BY <1>4, <1>6, <1>8
<1>11. Pk[m] \in Nat /\ Pk[t] \in Nat /\ Pk[u] \in Nat
  BY <1>4, ConstantsAssumption
<1> QED BY <1>7, <1>9, <1>10, <1>11

\* Requests take one row, batches take theirs in one order: no set of
\* transactions waits for row locks of each other, however many there are.
THEOREM RowsDoNotDeadlock == Spec => []NoLockDeadlock
<1>1. Init => HoldersHaveWritten /\ RowsInOrder
  BY ConstantsAssumption DEF Init, HoldersHaveWritten, RowsInOrder, NoJob
<1>2. TypeOK /\ WritersHoldLocks /\ HoldersHaveWritten /\ RowsInOrder /\ [Next]_vars
        => (HoldersHaveWritten /\ RowsInOrder)'
  BY HoldersStep, OrderStep
<1>3. TypeOK /\ HoldersHaveWritten /\ RowsInOrder => NoLockDeadlock
  BY NoCycle
<1>4. IInv => TypeOK /\ WritersHoldLocks
  BY DEF IInv, TransactionsFit
<1> QED BY <1>1, <1>2, <1>3, <1>4, Invariance, PTL DEF Spec

----------------------------------------------------------------------------
\* Why the claims of the documents fail: unlocked reads, and nothing else

\* The tickets that p has read, or written, and is not yet finished with
Engaged(p) ==
  IF p \in Session THEN IF tx[p] = Idle THEN {} ELSE {tx[p].ticket}
                   ELSE job[p].todo \cup job[p].done

\* No ticket is read by a transaction while another is engaged with it, which
\* is what a SELECT ... FOR UPDATE in get_or_404 and in the task would do.
OneAtATime ==
  \A p, q \in Session \cup Worker : p # q => Engaged(p) \cap Engaged(q) = {}

\* Then what a transaction has read is what the row still says.
ReadsAreFresh ==
  /\ \A s \in Session : tx[s].seen # None => db[tx[s].ticket].status = tx[s].seen
  /\ \A w \in Worker : \A t \in job[w].todo \cup job[w].done : db[t].status = "CALLED"

\* Nobody else changes the row of a ticket that p is engaged with.
LEMMA EngagedRowStays ==
  ASSUME TypeOK, WritersHoldLocks, [Next]_vars, OneAtATime,
         NEW p \in Session \cup Worker, NEW t \in Ticket, t \in Engaged(p),
         p \in Session => tx'[p] = tx[p], p \in Worker => job'[p] = job[p]
  PROVE  db'[t] = db[t]
<1>1. ASSUME NEW s \in Session, Commit(s), tx[s].ticket = t
      PROVE  FALSE
  <2>1. tx[s] # Idle /\ tx'[s] = Idle
    BY <1>1 DEF Commit, Idle, TypeOK
  <2>2. s # p /\ t \in Engaged(s)
    BY <1>1, <2>1 DEF Engaged
  <2> QED BY <2>2 DEF OneAtATime
<1>2. ASSUME NEW w \in Worker, CommitStuck(w), t \in job[w].done
      PROVE  FALSE
  <2>1. job'[w] = NoJob /\ job[w] # NoJob
    BY <1>2 DEF CommitStuck, TypeOK, NoJob
  <2>2. w # p /\ t \in Engaged(w)
    BY <1>2, <2>1, ConstantsAssumption DEF Engaged
  <2> QED BY <2>2 DEF OneAtATime
<1> QED BY <1>1, <1>2, OnlyHolderCommits

LEMMA FreshStep ==
  ASSUME TypeOK, WritersHoldLocks, OneAtATime, ReadsAreFresh, [Next]_vars
  PROVE  ReadsAreFresh'
<1>1. ASSUME NEW r \in Session, tx'[r].seen # None
      PROVE  db'[tx'[r].ticket].status = tx'[r].seen
  <2>1. ASSUME tx[r] # Idle, tx'[r].seen = tx[r].seen, tx'[r].ticket = tx[r].ticket,
               tx'[r] = tx[r] \/ UNCHANGED db
        PROVE  db'[tx'[r].ticket].status = tx'[r].seen
    <3>1. tx[r].ticket \in Ticket /\ tx[r].ticket \in Engaged(r)
      BY <2>1, BusySession DEF Engaged
    <3>2. db'[tx[r].ticket] = db[tx[r].ticket]
      BY <2>1, <3>1, EngagedRowStays, ConstantsAssumption
    <3> QED BY <1>1, <2>1, <3>2 DEF ReadsAreFresh
  <2>2. CASE tx'[r] = tx[r]
    BY <1>1, <2>1, <2>2 DEF Idle
  <2>3. CASE tx'[r] = Idle
    BY <1>1, <2>3 DEF Idle
  <2>4. ASSUME NEW t \in Ticket, Create(r, t)
        PROVE  FALSE
    <3>1. tx'[r].seen = None
      BY <2>4 DEF Create, TypeOK
    <3> QED BY <1>1, <3>1
  <2>5. ASSUME NEW c \in Counter, NEW filter \in Service \cup {None}, CallNext(r, c, filter)
        PROVE  db'[tx'[r].ticket].status = tx'[r].seen
    <3>1. PICK t \in Callable(c, filter) :
            tx' = [tx EXCEPT ![r] =
              [pc |-> "flushed", to |-> "CALLED", ticket |-> t, seen |-> "WAITING",
               row |-> [db[t] EXCEPT !.status = "CALLED", !.counter = c]]]
      BY <2>5 DEF CallNext
    <3>2. tx'[r].ticket = t /\ tx'[r].seen = "WAITING" /\ db' = db
      BY <2>5, <3>1 DEF TypeOK, CallNext
    <3> QED BY <3>1, <3>2 DEF Callable
  <2>6. ASSUME NEW to \in Target, NEW t \in Ticket, Load(r, to, t)
        PROVE  db'[tx'[r].ticket].status = tx'[r].seen
    BY <2>6 DEF Load, TypeOK
  <2>7. ASSUME Flush(r)
        PROVE  db'[tx'[r].ticket].status = tx'[r].seen
    <3>1. tx[r] # Idle /\ db' = db
      BY <2>7 DEF Flush, Idle
    <3>2. tx'[r].ticket = tx[r].ticket /\ tx'[r].seen = tx[r].seen
      BY <2>7, <3>1 DEF Flush, TypeOK, Transaction
    <3> QED BY <2>1, <3>1, <3>2
  <2>8. ASSUME NEW l \in Location, NEW v \in Service, Requeue(r, l, v)
        PROVE  db'[tx'[r].ticket].status = tx'[r].seen
    <3>1. tx[r] # Idle /\ db' = db
      BY <2>8 DEF Requeue, Idle
    <3>2. tx'[r].ticket = tx[r].ticket /\ tx'[r].seen = tx[r].seen
      BY <2>8, <3>1 DEF Requeue, TypeOK, Transaction
    <3> QED BY <2>1, <3>1, <3>2
  <2> QED BY <2>2, <2>3, <2>4, <2>5, <2>6, <2>7, <2>8, SessionSteps
<1>2. ASSUME NEW w \in Worker, NEW t \in job'[w].todo \cup job'[w].done
      PROVE  db'[t].status = "CALLED"
  <2>1. ASSUME NEW u \in Ticket, UpdateStuck(w, u)
        PROVE  db' = db /\ t \in job[w].todo \cup job[w].done
    BY <1>2, <2>1 DEF UpdateStuck, IsNext, TypeOK
  <2>2. ASSUME Scan(w)
        PROVE  db'[t].status = "CALLED"
    BY <1>2, <2>2 DEF Scan, NoJob, TypeOK
  <2>3. CASE job'[w] = NoJob
    BY <1>2, <2>3 DEF NoJob
  <2>4. CASE job'[w] = job[w]
    <3>1. t \in Ticket /\ t \in Engaged(w) /\ w \notin Session
      BY <1>2, <2>4, ConstantsAssumption DEF Engaged, TypeOK
    <3>2. db'[t] = db[t]
      BY <2>4, <3>1, EngagedRowStays
    <3> QED BY <1>2, <2>4, <3>2 DEF ReadsAreFresh
  <2> QED BY <2>1, <2>2, <2>3, <2>4, JobSteps DEF ReadsAreFresh
<1> QED BY <1>1, <1>2 DEF ReadsAreFresh

LEMMA Freshness == Spec /\ []OneAtATime => []ReadsAreFresh
<1>1. Init => ReadsAreFresh
  BY DEF Init, ReadsAreFresh, Idle, NoJob
<1>2. IInv /\ OneAtATime /\ ReadsAreFresh /\ [Next]_vars => ReadsAreFresh'
  BY FreshStep DEF IInv, TransactionsFit
<1> QED BY <1>1, <1>2, Invariance, PTL DEF Spec

\* The history of a ticket has no repetitions: each event follows from the one
\* before it by a transition of the table.
LogReplaysStrictly ==
  \A t \in Ticket : \A i \in 2..Len(log[t]) :
    TransitionAllowed(StatusAfter(log[t][i-1].type), log[t][i].type)

\* A new event whose writer had read the current status says where it came from.
LEMMA FreshEvents ==
  ASSUME IInv, ReadsAreFresh, [Next]_vars, NEW t \in Ticket,
         NEW i \in (Len(log[t]) + 1)..Len(log'[t]), i >= 2
  PROVE  /\ TransitionAllowed(StatusAfter(log'[t][i-1].type), log'[t][i].type)
         /\ log'[t][i].from # None
              => log'[t][i].from = StatusAfter(log'[t][i-1].type)
         /\ log'[t][i] = EventOf("NO_SHOW", None)
              => StatusAfter(log'[t][i-1].type) = "CALLED"
<1> USE DEF IInv, TransactionsFit
<1> DEFINE n == Len(log[t])
           e == log'[t][i]
           last == StatusAfter(log'[t][i-1].type)
<1>1. n \in Nat /\ \A k \in 1..n : log'[t][k] = log[t][k]
  BY LogsGrow
<1>2. i = n + 1 => last = db[t].status
  <2>1. n >= 1 => db[t].status = StatusAfter(log[t][n].type)
    BY <1>1, EmptyLog DEF LogMatchesStatus
  <2> QED BY <1>1, <2>1
<1>3. ASSUME NEW s \in Session, RequestAdds(t, s, e), i = n + 1
      PROVE  TransitionAllowed(last, e.type) /\ e.from = last /\ e.from # None
  <2>1. tx[s].pc = "flushed" /\ tx[s].ticket = t /\ tx[s].seen # None
    BY <1>3, ConstantsAssumption DEF RequestAdds, Commit
  <2>2. db[t].status = tx[s].seen
    BY <2>1 DEF ReadsAreFresh
  <2>3. TransitionAllowed(tx[s].seen, tx[s].to)
    BY <2>1 DEF DecidedOnCommittedStatus
  <2>4. e.type = tx[s].to /\ e.from = tx[s].seen
    BY <1>3 DEF RequestAdds, EventOf
  <2> QED BY <1>2, <1>3, <2>1, <2>2, <2>3, <2>4
<1>4. ASSUME NEW w \in Worker, JobAdds(t, w, e), i = n + 1
      PROVE  TransitionAllowed(last, e.type) /\ e.from = None /\ last = "CALLED"
  <2>1. last = "CALLED"
    BY <1>2, <1>4 DEF JobAdds, ReadsAreFresh
  <2>2. e.type = "NO_SHOW" /\ e.from = None
    BY <1>4 DEF JobAdds, EventOf
  <2>3. TransitionAllowed("CALLED", "NO_SHOW")
    BY DEF TransitionAllowed, ValidTransitions, ValidTransition, Status
  <2> QED BY <2>1, <2>2, <2>3
<1>5. ASSUME e \in {EventOf("CREATED", None), EventOf("WAITING", None)}
      PROVE  TransitionAllowed(last, e.type) /\ e.from = None /\ e.type # "NO_SHOW"
  <2>1. e.type \in {"CREATED", "WAITING"} /\ e.from = None
    BY <1>5 DEF EventOf
  <2>2. ASSUME NEW type, GrowsTo(t, type)
        PROVE  i = n + 1 /\ e.type = type
    BY <1>1, <2>2 DEF GrowsTo
  <2>3. ~ \E to \in Target \cup {"CALLED"} : GrowsTo(t, to)
    BY <2>1, <2>2 DEF Target
  <2>4. db[t] = AbsentRow => ~GrowsTo(t, "CREATED")
    BY <2>2, EmptyLog
  <2>5. GrowsByTransfer(t)
    BY <1>1, <2>3, <2>4, LogSteps
  <2>6. last = "TRANSFERRED" /\ e.type = "WAITING"
    <3>1. i = n + 1 => e.type = "TRANSFERRED"
      BY <2>5 DEF GrowsByTransfer
    <3>2. i = n + 2 /\ i - 1 = n + 1
      BY <1>1, <2>1, <2>5, <3>1 DEF GrowsByTransfer
    <3> QED BY <2>5, <3>2 DEF GrowsByTransfer, StatusAfter
  <2>7. TransitionAllowed("TRANSFERRED", "WAITING")
    BY DEF TransitionAllowed, ValidTransitions, ValidTransition, Status
  <2> QED BY <2>1, <2>6, <2>7
<1>6. EventOf("NO_SHOW", None).type = "NO_SHOW" /\ EventOf("NO_SHOW", None).from = None
  BY DEF EventOf
<1> HIDE DEF e, last, n
<1>7. /\ TransitionAllowed(last, e.type)
      /\ e.from # None => e.from = last
      /\ e = EventOf("NO_SHOW", None) => last = "CALLED"
  BY <1>3, <1>4, <1>5, <1>6, NewEventsBy DEF e, n
<1> QED BY <1>7 DEF e, last

LEMMA FreshLogStep ==
  ASSUME IInv, ReadsAreFresh, [Next]_vars,
         FromStatusIsPrevious, OnlyCalledTicketsExpire, LogReplaysStrictly
  PROVE  FromStatusIsPrevious' /\ OnlyCalledTicketsExpire' /\ LogReplaysStrictly'
<1> SUFFICES ASSUME NEW t \in Ticket, NEW i \in 2..Len(log'[t])
             PROVE  /\ TransitionAllowed(StatusAfter(log'[t][i-1].type), log'[t][i].type)
                    /\ log'[t][i].from # None
                         => log'[t][i].from = StatusAfter(log'[t][i-1].type)
                    /\ log'[t][i] = EventOf("NO_SHOW", None)
                         => StatusAfter(log'[t][i-1].type) \in {"CALLED", "NO_SHOW"}
  BY DEF FromStatusIsPrevious, OnlyCalledTicketsExpire, LogReplaysStrictly
<1>1. /\ Len(log[t]) \in Nat /\ Len(log'[t]) \in Nat
      /\ \A k \in 1..Len(log[t]) : log'[t][k] = log[t][k]
  BY LogsGrow DEF IInv, TransactionsFit
<1>2. CASE i <= Len(log[t])
  <2>1. i \in 2..Len(log[t]) /\ log'[t][i] = log[t][i] /\ log'[t][i-1] = log[t][i-1]
    BY <1>1, <1>2
  <2> QED BY <2>1 DEF FromStatusIsPrevious, OnlyCalledTicketsExpire, LogReplaysStrictly
<1>3. CASE i > Len(log[t])
  <2>1. i \in (Len(log[t]) + 1)..Len(log'[t]) /\ i >= 2
    BY <1>1, <1>3
  <2> QED BY <2>1, FreshEvents
<1> QED BY <1>1, <1>2, <1>3

LEMMA FreshLogs ==
  Spec /\ []OneAtATime
    => [](FromStatusIsPrevious /\ OnlyCalledTicketsExpire /\ LogReplaysStrictly)
<1> DEFINE Inv == FromStatusIsPrevious /\ OnlyCalledTicketsExpire /\ LogReplaysStrictly
<1>1. Init => Inv
  <2> SUFFICES ASSUME Init
               PROVE  \A t \in Ticket : 2..Len(log[t]) = {}
    BY DEF FromStatusIsPrevious, OnlyCalledTicketsExpire, LogReplaysStrictly
  <2> QED BY DEF Init
<1>2. IInv /\ ReadsAreFresh /\ Inv /\ [Next]_vars => Inv'
  BY FreshLogStep
<1> QED BY <1>1, <1>2, Freshness, Invariance, PTL DEF Spec

\* Migration 0002 is right as long as no ticket is read while another request
\* is engaged with it: from_status then is the status just before the event.
THEOREM FromStatusIsPreviousWhenAlone ==
  Spec /\ []OneAtATime => []FromStatusIsPrevious
BY FreshLogs, PTL

\* And so is tasks.py: auto_no_show then only gives up tickets that are called.
THEOREM OnlyCalledExpireWhenAlone ==
  Spec /\ []OneAtATime => []OnlyCalledTicketsExpire
BY FreshLogs, PTL

\* Repeated events, which LogReplaysLegally must allow, come from stale reads
\* only: without them every log is a path of VALID_TRANSITIONS.
THEOREM HistoriesAreStrictWhenAlone ==
  Spec /\ []OneAtATime => []LogReplaysStrictly
BY FreshLogs, PTL

----------------------------------------------------------------------------
\* Interactions

\* A ticket leaves service only when it is completed: not by a hold, a transfer
\* or a cancellation, none of which ends an interaction in the code.
LeavesServiceCompleted ==
  \A t \in Ticket :
    db[t].status = "IN_SERVICE" => db'[t].status \in {"IN_SERVICE", "COMPLETED"}

\* Only a called ticket is taken into service by a handler that has read the
\* current status.
LEMMA FreshStart ==
  ASSUME IInv, ReadsAreFresh, [Next]_vars, NEW t \in Ticket, Moved(t, "IN_SERVICE")
  PROVE  db[t].status = "CALLED"
<1> DEFINE n == Len(log[t])
<1>1. n \in Nat /\ n >= 1 /\ db[t].status = StatusAfter(log[t][n].type)
  BY EmptyLog DEF IInv, LogMatchesStatus, Moved, Row, AbsentRow, Absent, Status
<1>2. GrowsTo(t, "IN_SERVICE")
  <2>1. log[t] \in Seq(Event)
    BY DEF IInv, TypeOK
  <2> QED BY <2>1, ExtendByOne DEF Moved, GrowsTo
<1>3. /\ log'[t][n] = log[t][n] /\ log'[t][n + 1].type = "IN_SERVICE"
      /\ n + 1 \in (n + 1)..Len(log'[t]) /\ n + 1 >= 2 /\ (n + 1) - 1 = n
  BY <1>1, <1>2 DEF GrowsTo
<1> HIDE DEF n
<1>4. TransitionAllowed(StatusAfter(log'[t][n].type), "IN_SERVICE")
  BY <1>3, FreshEvents DEF n
<1>5. TransitionAllowed(db[t].status, "IN_SERVICE")
  BY <1>1, <1>3, <1>4
<1> QED BY <1>5 DEF TransitionAllowed, ValidTransitions, ValidTransition

LEMMA InteractionsStep ==
  ASSUME IInv, ReadsAreFresh, [Next]_vars, LeavesServiceCompleted,
         OneInteractionPerEpisode
  PROVE  OneInteractionPerEpisode'
<1> SUFFICES ASSUME NEW t \in Ticket
             PROVE  open'[t] = IF db'[t].status = "IN_SERVICE" THEN 1 ELSE 0
  BY DEF OneInteractionPerEpisode
<1>1. open[t] = IF db[t].status = "IN_SERVICE" THEN 1 ELSE 0
  BY DEF OneInteractionPerEpisode
<1>2. ASSUME NEW to \in Target \ {"TRANSFERRED"}, Moved(t, to)
      PROVE  open'[t] = IF db'[t].status = "IN_SERVICE" THEN 1 ELSE 0
  <2>1. db'[t].status = to
    BY <1>2 DEF Moved, Row
  <2>2. to = "IN_SERVICE" => open[t] = 0
    BY <1>1, <1>2, FreshStart
  <2>3. open'[t] = IF to = "IN_SERVICE" THEN open[t] + 1
                   ELSE IF to = "COMPLETED" THEN 0 ELSE open[t]
    BY <1>2 DEF Moved
  <2>4. to \notin {"IN_SERVICE", "COMPLETED"} => open[t] = 0
    BY <1>1, <2>1 DEF LeavesServiceCompleted
  <2> QED BY <2>1, <2>2, <2>3, <2>4
<1>3. ASSUME Issued(t) \/ Called(t) \/ Transferred(t)
      PROVE  open'[t] = IF db'[t].status = "IN_SERVICE" THEN 1 ELSE 0
  BY <1>1, <1>3 DEF Issued, Called, Transferred, LeavesServiceCompleted, AbsentRow, Absent
<1> QED BY <1>1, <1>2, <1>3, RowSteps DEF IInv, TransactionsFit

\* The two causes of the interactions left open, and there are no others: as
\* long as no handler decides on a stale read, and every service episode ends
\* with its completion, a ticket has one open interaction while it is served
\* and none otherwise.
THEOREM OneInteractionWhenCompleted ==
  Spec /\ []OneAtATime /\ [][LeavesServiceCompleted]_vars => []OneInteractionPerEpisode
<1>1. Init => OneInteractionPerEpisode
  BY DEF Init, OneInteractionPerEpisode, AbsentRow, Absent
<1>2. UNCHANGED vars /\ OneInteractionPerEpisode => OneInteractionPerEpisode'
  BY DEF vars, OneInteractionPerEpisode
<1>3. IInv /\ ReadsAreFresh /\ OneInteractionPerEpisode
        /\ [Next]_vars /\ [LeavesServiceCompleted]_vars => OneInteractionPerEpisode'
  BY <1>2, InteractionsStep
<1> QED BY <1>1, <1>3, Freshness, Invariance, PTL DEF Spec

----------------------------------------------------------------------------
\* What auto_no_show promises without any assumption

\* A NO_SHOW event of auto_no_show, which has no from_status, comes after a call
\* of the same ticket, although not always right after it.
ExpiryFollowsCall ==
  \A t \in Ticket : \A i \in 1..Len(log[t]) :
    log[t][i] = EventOf("NO_SHOW", None) =>
      \E j \in 1..(i-1) : StatusAfter(log[t][j].type) = "CALLED"

\* The tickets of a batch were called once, whatever happened to them since.
BatchesWereCalled ==
  \A w \in Worker : \A t \in job[w].todo \cup job[w].done : Logged(t, "CALLED")

LEMMA BatchesCalledStep ==
  ASSUME IInv, BatchesWereCalled, [Next]_vars
  PROVE  BatchesWereCalled'
<1> SUFFICES ASSUME NEW w \in Worker, NEW t \in job'[w].todo \cup job'[w].done
             PROVE  WillBeLogged(t, "CALLED")
  BY DEF BatchesWereCalled, Logged, WillBeLogged
<1> USE DEF IInv, TransactionsFit
<1>1. ASSUME t \in job[w].todo \cup job[w].done
      PROVE  WillBeLogged(t, "CALLED")
  <2>1. t \in Ticket /\ Logged(t, "CALLED")
    BY <1>1 DEF BatchesWereCalled, TypeOK
  <2> QED BY <2>1, LoggedStays
<1>2. ASSUME Scan(w)
      PROVE  WillBeLogged(t, "CALLED")
  <2>1. t \in Ticket /\ db[t].status = "CALLED"
    BY <1>2 DEF Scan, NoJob, TypeOK
  <2>2. Logged(t, "CALLED")
    BY <2>1, CurrentIsLogged DEF AbsentRow, Absent
  <2> QED BY <2>1, <2>2, LoggedStays
<1>3. ASSUME NEW u \in Ticket, UpdateStuck(w, u)
      PROVE  t \in job[w].todo \cup job[w].done
  BY <1>3 DEF UpdateStuck, IsNext, TypeOK
<1> QED BY <1>1, <1>2, <1>3, JobSteps DEF NoJob

LEMMA ExpiryStep ==
  ASSUME IInv, BatchesWereCalled, ExpiryFollowsCall, [Next]_vars
  PROVE  ExpiryFollowsCall'
<1> SUFFICES ASSUME NEW t \in Ticket, NEW i \in 1..Len(log'[t]),
                    log'[t][i] = EventOf("NO_SHOW", None)
             PROVE  \E j \in 1..(i-1) : StatusAfter(log'[t][j].type) = "CALLED"
  BY DEF ExpiryFollowsCall
<1> DEFINE n == Len(log[t])
<1>1. /\ n \in Nat /\ Len(log'[t]) \in Nat
      /\ \A k \in 1..n : log'[t][k] = log[t][k]
  BY LogsGrow DEF IInv, TransactionsFit
<1>2. CASE i \in 1..n
  <2>1. PICK j \in 1..(i-1) : StatusAfter(log[t][j].type) = "CALLED"
    BY <1>1, <1>2 DEF ExpiryFollowsCall
  <2>2. j \in 1..n
    BY <1>1, <1>2, <2>1
  <2> QED BY <1>1, <2>1, <2>2
<1>3. CASE i \in (n + 1)..Len(log'[t])
  <2>1. \A type : EventOf("NO_SHOW", None) # EventOf(type, None) \/ type = "NO_SHOW"
    BY DEF EventOf
  <2>2. ASSUME NEW s \in Session, RequestAdds(t, s, log'[t][i])
        PROVE  FALSE
    <3>1. log'[t][i].from = None
      BY DEF EventOf
    <3>2. log'[t][i].from = tx[s].seen /\ tx[s].seen \in Status
      BY <2>2 DEF RequestAdds, EventOf
    <3> QED BY <3>1, <3>2, ConstantsAssumption
  <2>3. PICK w \in Worker : JobAdds(t, w, log'[t][i])
    BY <1>3, <2>1, <2>2, NewEventsBy DEF IInv, TransactionsFit
  <2>4. PICK j \in 1..n : StatusAfter(log[t][j].type) = "CALLED"
    BY <2>3 DEF JobAdds, BatchesWereCalled, Logged
  <2>5. j \in 1..(i-1) /\ log'[t][j] = log[t][j]
    BY <1>1, <1>3, <2>4
  <2> QED BY <2>4, <2>5
<1> QED BY <1>1, <1>2, <1>3

\* Whatever is read late, auto_no_show never gives up a customer whom nobody
\* has ever called.
THEOREM OnlyOnceCalledExpire == Spec => []ExpiryFollowsCall
<1>1. Init => BatchesWereCalled /\ ExpiryFollowsCall
  BY DEF Init, BatchesWereCalled, ExpiryFollowsCall, NoJob
<1>2. IInv /\ BatchesWereCalled /\ ExpiryFollowsCall /\ [Next]_vars
        => (BatchesWereCalled /\ ExpiryFollowsCall)'
  BY BatchesCalledStep, ExpiryStep
<1> QED BY <1>1, <1>2, Invariance, PTL DEF Spec
=============================================================================

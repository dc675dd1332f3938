----------------------------- MODULE Analytics -----------------------------
(***************************************************************************)
(* The four timestamps of a ticket, and the figures computed from them.    *)
(*                                                                         *)
(* Who stamps what differs: created_at and called_at are now() of the      *)
(* transaction, which is its beginning by the database's clock;            *)
(* service_started_at and completed_at are the application's clock,        *)
(* some time after the row was read and the transition checked and before  *)
(* the UPDATE.  Between the read, the stamp and the commit other requests  *)
(* run.  A summary is three queries, each of which sees what is committed  *)
(* by then.                                                                *)
(*                                                                         *)
(* now is the database's clock, and an application's may differ from it    *)
(* by Skew.  All tickets are of one location, and transfers are to another *)
(* service of it.                                                          *)
(***************************************************************************)
EXTENDS TicketFSM, Integers, Sequences, FiniteSetsExt

CONSTANTS
  Ticket, Session,
  None,      \* SQL NULL
  Hour, Day, \* in the clock's units (a minute, for date_trunc)
  Skew,      \* bound: how far an application's clock is from the database's
  MaxTime,   \* bound: no clock goes beyond it
  Asked      \* bound: the periods a summary is asked for

ASSUME ConstantsAssumption ==
  /\ Hour \in Nat \ {0} /\ Day \in Nat \ {0} /\ MaxTime \in Nat /\ Skew \in Nat
  /\ None \notin Nat \cup Ticket \cup Status /\ IsFiniteSet(Ticket)
  /\ \A w \in Asked : w \in (0..MaxTime) \X (0..MaxTime)

VARIABLES
  now,       \* the database's clock
  rows,      \* tickets: the committed rows
  tx,        \* per session: the request it serves
  report,    \* the summary being computed
  moved,     \* history: tickets that were transferred
  restarted  \* history: tickets whose service was started over a start

vars == <<now, rows, tx, report, moved, restarted>>

Time == 0..MaxTime

Row == [status : Status, created : Time, called : Time \cup {None},
        started : Time \cup {None}, completed : Time \cup {None}]

Absent == [status |-> "ABSENT", created |-> None, called |-> None,
           started |-> None, completed |-> None]

\* A request: the status it wants (WAITING creates, CALLED is call-next), the
\* ticket it works on, and its time stamp as soon as it has one
Idle == [to |-> None, ticket |-> None, at |-> None]

Window == {w \in Time \X Time : w[1] < w[2]}

----------------------------------------------------------------------------
\* The stamps

\* A transaction begins: for create with the read of MAX(number), for
\* call-next with the SELECT of the counter
Begin(s, to, t) ==
  /\ tx[s] = Idle
  /\ tx' = [tx EXCEPT ![s] = [to |-> to, ticket |-> t, at |-> now]]
  /\ UNCHANGED <<now, rows, report, moved, restarted>>

BeginCreate(s, t) ==
  /\ rows[t] = Absent /\ \A q \in Session : tx[q].ticket # t
  /\ Begin(s, "WAITING", t)

BeginCall(s) == Begin(s, "CALLED", None)

\* Mutant: created_at has no default
BugCreate(s) ==
  LET x == tx[s]
  IN /\ x.to = "WAITING"
     /\ rows' = [rows EXCEPT ![x.ticket] = [Absent EXCEPT !.status = "WAITING"]]
     /\ tx' = [tx EXCEPT ![s] = Idle]
     /\ UNCHANGED <<now, report, moved, restarted>>

\* INSERT with created_at's server_default now(), and COMMIT
Create(s) ==
  LET x == tx[s]
  IN /\ x.to = "WAITING"
     /\ rows' = [rows EXCEPT ![x.ticket] =
          [status |-> "WAITING", created |-> x.at, called |-> None, started |-> None,
           completed |-> None]]
     /\ tx' = [tx EXCEPT ![s] = Idle]
     /\ UNCHANGED <<now, report, moved, restarted>>

\* SET status = 'CALLED', called_at = now() for a waiting ticket, and COMMIT
Call(s, t) ==
  /\ tx[s].to = "CALLED" /\ rows[t].status = "WAITING"
  /\ rows' = [rows EXCEPT ![t].status = "CALLED", ![t].called = tx[s].at]
  /\ tx' = [tx EXCEPT ![s] = Idle]
  /\ UNCHANGED <<now, report, moved, restarted>>

\* get_or_404 reads the row that transition_status checks
Load(s, to, t) ==
  /\ tx[s] = Idle /\ to \notin {"WAITING", "CALLED"}
  /\ to = "TRANSFERRED" => moved = {} \* bound
  /\ TransitionAllowed(rows[t].status, to)
  /\ tx' = [tx EXCEPT ![s] = [to |-> to, ticket |-> t, at |-> None]]
  /\ UNCHANGED <<now, rows, report, moved, restarted>>

\* transition_status asks the application's clock
Stamp(s) ==
  /\ tx[s].to \notin {None, "WAITING", "CALLED"} /\ tx[s].at = None
  /\ \E c \in Time : /\ now - Skew <= c /\ c <= now + Skew
                     /\ tx' = [tx EXCEPT ![s].at = c]
  /\ UNCHANGED <<now, rows, report, moved, restarted>>

\* Mutant: only a completion is stamped
BugStamped(row, to, at) ==
  [row EXCEPT !.status = IF to = "TRANSFERRED" THEN "WAITING" ELSE to,
              !.started = IF to = "IN_SERVICE" THEN at ELSE @,
              !.completed = IF to = "COMPLETED" THEN at ELSE @]

\* Mutant: the service starts when the ticket was created
BugMisplaced(row, to, at) ==
  [row EXCEPT !.status = IF to = "TRANSFERRED" THEN "WAITING" ELSE to,
              !.started = IF to = "IN_SERVICE" THEN row.created ELSE @,
              !.completed = IF to \in Terminal THEN at ELSE @]

\* transition_status: what it sets for a status; a transfer puts the ticket
\* back into a queue with the stamps it has
Stamped(row, to, at) ==
  [row EXCEPT !.status = IF to = "TRANSFERRED" THEN "WAITING" ELSE to,
              !.started = IF to = "IN_SERVICE" THEN at ELSE @,
              !.completed = IF to \in Terminal THEN at ELSE @]

\* The UPDATE and COMMIT, or the trigger's refusal
Write(s) ==
  LET x == tx[s]
      row == rows[x.ticket]
      passes == TriggerAccepts(row.status, x.to)
  IN /\ x.to \notin {None, "WAITING", "CALLED"} /\ x.at # None
     /\ rows' = IF passes THEN [rows EXCEPT ![x.ticket] = Stamped(row, x.to, x.at)] ELSE rows
     /\ moved' = IF passes /\ x.to = "TRANSFERRED" THEN moved \cup {x.ticket} ELSE moved
     /\ restarted' = IF x.to = "IN_SERVICE" /\ row.status = "IN_SERVICE"
                     THEN restarted \cup {x.ticket} ELSE restarted
     /\ tx' = [tx EXCEPT ![s] = Idle]
     /\ UNCHANGED <<now, report>>

Tick ==
  /\ now + Skew < MaxTime \* bound
  /\ now' = now + 1
  /\ UNCHANGED <<rows, tx, report, moved, restarted>>

----------------------------------------------------------------------------
\* The figures

\* Mutant: BETWEEN, which includes the end
BugInWindow(w) == {t \in Ticket : /\ rows[t] # Absent
                                  /\ w[1] <= rows[t].created /\ rows[t].created <= w[2]}

\* base_filter: created_at >= from AND created_at < to
InWindow(w) == {t \in Ticket : /\ rows[t] # Absent
                               /\ w[1] <= rows[t].created /\ rows[t].created < w[2]}

Having(S, status) == {t \in S : rows[t].status = status}

Called(S) == {t \in S : rows[t].called # None}
Served(S) == {t \in S : rows[t].completed # None /\ rows[t].started # None}

WaitTime(t) == rows[t].called - rows[t].created
ServiceTime(t) == rows[t].completed - rows[t].started

\* AVG over a set, as a sum and how many it is over; over none it is NULL
Avg(Value(_), S) == [sum |-> MapThenSumSet(Value, S), n |-> Cardinality(S)]

\* What is answered and what is logged when there is no average, or it is zero
OrNull(avg) == IF avg.n = 0 \/ avg.sum = 0 THEN None ELSE avg
OrZero(avg) == IF OrNull(avg) = None THEN [sum |-> 0, n |-> 1] ELSE avg

Total(w) == Cardinality(InWindow(w))

\* kpi_summary's first query
Counts(w) ==
  [total |-> Total(w),
   completed |-> Cardinality(Having(InWindow(w), "COMPLETED")),
   canceled |-> Cardinality(Having(InWindow(w), "CANCELED")),
   no_show |-> Cardinality(Having(InWindow(w), "NO_SHOW"))]

AvgWait(w) == Avg(WaitTime, Called(InWindow(w)))
AvgService(w) == Avg(ServiceTime, Served(InWindow(w)))

\* Mutant: the counts are taken last
BugQueries == <<"service", "wait", "counts">>

\* kpi_summary's queries in their order
Queries == <<"counts", "wait", "service">>

\* A summary: its period, how many of its queries have run, and what they
\* found: the completions, and how many tickets each average is over
NoReport == [window |-> None, done |-> 0, completed |-> 0, waits |-> 0, services |-> 0]

\* GET /analytics/.../summary: 422 unless from < to
BeginReport(w) ==
  /\ report.window = None /\ w[1] < w[2]
  /\ report' = [NoReport EXCEPT !.window = w]
  /\ UNCHANGED <<now, rows, tx, moved, restarted>>

\* The next query of the summary runs
RunQuery ==
  LET w == report.window
      query == Queries[report.done + 1]
  IN /\ w # None /\ report.done < Len(Queries)
     /\ report' = [report EXCEPT
          !.done = @ + 1,
          !.completed = IF query = "counts" THEN Counts(w).completed ELSE @,
          !.waits = IF query = "wait" THEN AvgWait(w).n ELSE @,
          !.services = IF query = "service" THEN AvgService(w).n ELSE @]
     /\ UNCHANGED <<now, rows, tx, moved, restarted>>

\* The summary is answered
EndReport ==
  /\ report.window # None /\ report.done = Len(Queries)
  /\ report' = NoReport
  /\ UNCHANGED <<now, rows, tx, moved, restarted>>

\* Mutant: date_trunc to the minute, whatever the interval
BugUnit(interval) == 1

\* date_trunc's unit is the second word of the interval: of "15 minutes" that is
\* minutes, so its buckets are one minute wide
Unit(interval) ==
  CASE interval = "1 hour" -> Hour [] interval = "1 day" -> Day [] interval = "15 minutes" -> 1

Bucket(t, interval) == rows[t].created - (rows[t].created % Unit(interval))

\* timeseries' filter of the metrics that count
Counted(S, metric) == IF metric = "throughput" THEN Having(S, "COMPLETED") ELSE S

\* timeseries: buckets with a row, and their values, for a metric that counts
Series(w, metric, interval) ==
  LET S == Counted(InWindow(w), metric)
  IN [b \in {Bucket(t, interval) : t \in S} |->
        Cardinality({t \in S : Bucket(t, interval) = b})]

\* kpi_rollup's SELECT, which writes the figures out in SQL of its own; the
\* task logs them, and changes nothing
Rollup(at) ==
  LET S == {t \in Ticket : /\ rows[t] # Absent
                           /\ rows[t].created >= at - Hour /\ rows[t].created < at}
  IN [completed |-> Cardinality(Having(S, "COMPLETED")),
      waiting |-> Cardinality(Having(S, "WAITING")),
      wait |-> OrZero(Avg(WaitTime, {t \in S : rows[t].called # None})),
      service |-> OrZero(Avg(ServiceTime, {t \in S : /\ rows[t].completed # None
                                                     /\ rows[t].started # None}))]

----------------------------------------------------------------------------
Init ==
  /\ now = 0
  /\ rows = [t \in Ticket |-> Absent]
  /\ tx = [s \in Session |-> Idle]
  /\ report = NoReport
  /\ moved = {} /\ restarted = {}

Next ==
  \/ Tick
  \/ \E s \in Session :
       \/ BeginCall(s) \/ Create(s) \/ Stamp(s) \/ Write(s)
       \/ \E t \in Ticket : \/ BeginCreate(s, t) \/ Call(s, t)
                            \/ \E to \in Status : Load(s, to, t)
  \/ \E w \in Asked : BeginReport(w)
  \/ RunQuery \/ EndReport

Spec == Init /\ [][Next]_vars

----------------------------------------------------------------------------
TypeOK ==
  /\ now \in Time
  /\ rows \in [Ticket -> Row \cup {Absent}]
  /\ tx \in [Session -> [to : Status \cup {None}, ticket : Ticket \cup {None},
                         at : Time \cup {None}]]
  /\ report \in [window : Window \cup {None}, done : 0..Len(Queries),
                 completed : Nat, waits : Nat, services : Nat]
  /\ moved \subseteq Ticket /\ restarted \subseteq Ticket

\* A ticket has completed_at exactly when it is in a terminal status, whatever
\* requests overlapped on the way (transition_status, auto_no_show).
CompletedAtMeansTerminal ==
  \A t \in Ticket : rows[t] # Absent =>
    (rows[t].completed # None <=> rows[t].status \in Terminal)

\* Of a ticket that was never transferred, the service started after the call
\* and, if it was completed, that was after the call and after the start, as far
\* as the clocks agree and however requests for it overlap.  The one exception:
\* of two starts that overlap, the second is written over the first, and its
\* stamp may be later than that of a completion in between.  (A cancellation
\* checked before the service began may be written after it, with the earlier
\* time; so may a completion of a transferred ticket that is called and started
\* a second time meanwhile.)
TimesInOrder ==
  \A t \in Ticket \ moved :
    LET row == rows[t]
    IN /\ row.started # None => row.called # None /\ row.called <= row.started + Skew
       /\ row.status = "COMPLETED" =>
            /\ row.started # None /\ row.called <= row.completed + Skew
            /\ t \notin restarted => row.started <= row.completed + 2 * Skew

\* Every ticket a summary counts as completed is also in its average service
\* time and in its average wait, although the three are queried one after
\* another while tickets change (kpi_summary).
SummaryCoversItsCompletions ==
  report.done = Len(Queries) =>
    report.completed <= report.waits /\ report.completed <= report.services

\* A ticket on the border of two reporting periods is counted in the total of one
\* of them.
PeriodsAddUp ==
  \A u, v \in Window : u[2] = v[1] =>
    Total(<<u[1], v[2]>>) = Total(u) + Total(v)

\* Every point of a throughput series by the hour or by the day is what a summary
\* of that hour or day would count of the period, and an hour or day without a
\* point is one in which nothing was completed (timeseries and kpi_summary).
PointsMatchSummaries ==
  \A w \in Window, interval \in {"1 hour", "1 day"} :
    LET width == IF interval = "1 hour" THEN Hour ELSE Day
        completed == Having(InWindow(w), "COMPLETED")
        series == Series(w, "throughput", interval)
    IN \A b \in {c \in Time : c % width = 0} :
         Cardinality(completed \cap InWindow(<<b, b + width>>))
           = IF b \in DOMAIN series THEN series[b] ELSE 0

\* The two places where the figures are computed agree: kpi_rollup's SQL and
\* kpi_summary, asked for the same hour at the same time.  Where the rollup says
\* zero the summary says null, be it that there is no ticket to measure or that
\* the average is zero; of every other hour they say the same.
RollupAgreesWithSummary ==
  now >= Hour =>
    LET w == <<now - Hour, now>>
        rollup == Rollup(now)
        Same(logged, answered) == IF answered = None THEN logged.sum = 0 ELSE logged = answered
    IN /\ rollup.completed = Counts(w).completed
       /\ Same(rollup.wait, OrNull(AvgWait(w))) /\ Same(rollup.service, OrNull(AvgService(w)))
=============================================================================

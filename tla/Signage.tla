------------------------------ MODULE Signage ------------------------------
(***************************************************************************)
(* The displays: a request commits a change of a ticket and then publishes *)
(* "update" on the location's Redis channel; every open stream of the      *)
(* location that hears it reads a new snapshot, with one query after       *)
(* another, and sends it to its display.                                   *)
(*                                                                         *)
(* Redis keeps no message for a stream that is not subscribed, and the     *)
(* subscription that a stream asks for takes effect some time later; a     *)
(* publish may fail without anybody noticing, and some changes are not     *)
(* published at all.  A connection may be lost at any moment, after which  *)
(* the browser's EventSource tries another one: an answer other than 200   *)
(* makes it give up for good.                                              *)
(*                                                                         *)
(* The average wait, names and counters of a snapshot are left out, and so *)
(* are its LIMITs: the model has fewer tickets.                            *)
(***************************************************************************)
EXTENDS TicketFSM, Naturals, FiniteSets

CONSTANTS
  Ticket, Location, Display,
  Shows,        \* the location of each display
  None,         \* no row; no snapshot yet
  MaxChanges,   \* bound: requests that change a ticket
  MaxDrops      \* bound: connections lost

ASSUME ConstantsAssumption ==
  /\ IsFiniteSet(Ticket)
  /\ Shows \in [Display -> Location]
  /\ MaxChanges \in Nat /\ MaxDrops \in Nat

VARIABLES
  rows,      \* tickets: status and location, as committed
  due,       \* the tickets that auto_no_show has read and not yet committed
  owed,      \* per location: requests between their commit and their publish
  stream,    \* per display, the server's side: see Stream
  view,      \* per display: the snapshot it shows (useSignage's state)
  unheard,   \* history: displays with a change they were not told of since the
             \* first query of their last snapshot
  changes, drops

vars == <<rows, due, owed, stream, view, unheard, changes, drops>>

----------------------------------------------------------------------------
Absent == [status |-> "ABSENT", location |-> None]

\* SignageSnapshot: IN_SERVICE tickets, CALLED tickets, number of WAITING ones
Snapshot == [serving : SUBSET Ticket, called : SUBSET Ticket, waiting : Nat]

Blank == [serving |-> {}, called |-> {}, waiting |-> 0]

\* down: no connection; closed: EventSource has given up; open: the response has
\* begun, SUBSCRIBE is not sent yet; in_service, called, waiting: the query to be
\* run next; sending: the snapshot is yielded; listening: the loop around
\* get_message.  A stream is subscribed or not (sub), keeps the snapshot it is
\* reading (part), and has messages to take (inbox).
Pc == {"down", "closed", "open", "in_service", "called", "waiting", "sending", "listening"}

Down == [pc |-> "down", sub |-> FALSE, part |-> Blank, inbox |-> 0]

Stream == [pc : Pc, sub : BOOLEAN, part : Snapshot, inbox : Nat]

Init ==
  /\ rows = [t \in Ticket |-> Absent]
  /\ due = {}
  /\ owed = [l \in Location |-> 0]
  /\ stream = [d \in Display |-> Down]
  /\ view = [d \in Display |-> None]
  /\ unheard = {}
  /\ changes = 0 /\ drops = 0

With(l, status) == {t \in Ticket : rows[t] = [status |-> status, location |-> l]}

\* The displays of the location that have run a query of their last snapshot, and
\* have therefore to be told of what happens next
Awaiting(l) ==
  {d \in Display : /\ Shows[d] = l
                   /\ stream[d].pc \in {"called", "waiting", "sending", "listening"}}

----------------------------------------------------------------------------
\* Requests and the worker

\* A row is changed and committed; the request still has to publish to l, and
\* will publish to no other location
Commit(t, row, l) ==
  /\ changes < MaxChanges /\ changes' = changes + 1
  /\ rows' = [rows EXCEPT ![t] = row]
  /\ owed' = [owed EXCEPT ![l] = @ + 1]
  /\ UNCHANGED <<due, stream, view, drops>>

\* create_ticket and kiosk_create_ticket
Create(t, l) ==
  /\ rows[t] = Absent
  /\ Commit(t, [status |-> "WAITING", location |-> l], l)
  /\ UNCHANGED unheard

\* call_next, start_service, complete_ticket, hold_ticket, cancel_ticket, no_show
Change(t, to) ==
  /\ TransitionAllowed(rows[t].status, to) /\ to \notin {"WAITING", "TRANSFERRED"}
  /\ Commit(t, [rows[t] EXCEPT !.status = to], rows[t].location)
  /\ UNCHANGED unheard

\* transfer_ticket publishes to the ticket's location as it is afterwards
Transfer(t, l) ==
  /\ TransitionAllowed(rows[t].status, "TRANSFERRED")
  /\ Commit(t, [status |-> "WAITING", location |-> l], l)
  /\ unheard' = IF l = rows[t].location THEN unheard
                ELSE unheard \cup Awaiting(rows[t].location)

\* auto_no_show_called_tickets reads tickets that have been CALLED for long
Scan ==
  /\ due = {}
  /\ \E stuck \in SUBSET {t \in Ticket : rows[t].status = "CALLED"} :
       stuck # {} /\ due' = stuck
  /\ UNCHANGED <<rows, owed, stream, view, unheard, changes, drops>>

\* and commits NO_SHOW for all of them, whatever they are by then, or for none
\* when the trigger refuses one.  It publishes nothing.
AutoNoShow ==
  /\ due # {} /\ due' = {}
  /\ IF \A t \in due : TriggerAccepts(rows[t].status, "NO_SHOW")
     THEN /\ rows' = [t \in Ticket |-> IF t \in due
                        THEN [rows[t] EXCEPT !.status = "NO_SHOW"] ELSE rows[t]]
          /\ unheard' = unheard \cup UNION {Awaiting(rows[t].location) : t \in due}
     ELSE UNCHANGED <<rows, unheard>>
  /\ UNCHANGED <<owed, stream, view, changes, drops>>

\* _publish_signage: PUBLISH reaches the streams subscribed at this moment, and
\* no other, not even one whose SUBSCRIBE is on its way
Publish(l) ==
  /\ owed[l] > 0
  /\ owed' = [owed EXCEPT ![l] = @ - 1]
  /\ stream' = [d \in Display |->
       IF Shows[d] = l /\ stream[d].sub THEN [stream[d] EXCEPT !.inbox = @ + 1]
                                        ELSE stream[d]]
  /\ unheard' = unheard \cup {d \in Awaiting(l) : ~stream[d].sub}
  /\ UNCHANGED <<rows, due, view, changes, drops>>

\* Redis fails, which is logged and swallowed; or the request ended between
\* its commit and the publish: a crash, or its idempotency key was taken
PublishFails(l) ==
  /\ owed[l] > 0
  /\ owed' = [owed EXCEPT ![l] = @ - 1]
  /\ unheard' = unheard \cup Awaiting(l)
  /\ UNCHANGED <<rows, due, stream, view, changes, drops>>

----------------------------------------------------------------------------
\* A stream and its display

Go(d, pc) == stream' = [stream EXCEPT ![d].pc = pc]

\* EventSource connects, the first time or again, and is answered with 200; the
\* response begins
Connect(d) ==
  /\ stream[d].pc = "down"
  /\ Go(d, "open")
  /\ UNCHANGED <<rows, due, owed, view, unheard, changes, drops>>

\* The answer is another one: 404 for a location that is not there, 500 when the
\* database fails, 502 from the proxy.  EventSource closes, onerror says that it
\* retries, and nothing opens another one.
Refuse(d) ==
  /\ stream[d].pc = "down"
  /\ Go(d, "closed")
  /\ UNCHANGED <<rows, due, owed, view, unheard, changes, drops>>

\* Mutant: with a Last-Event-ID the stream goes on where it was, without a snapshot
BugSubscribe(d) ==
  /\ stream[d].pc = "open"
  /\ Go(d, IF view[d] = None THEN "in_service" ELSE "listening")
  /\ unheard' = unheard \ {d}
  /\ UNCHANGED <<rows, due, owed, view, changes, drops>>

\* pubsub.subscribe sends SUBSCRIBE, and the stream goes on to its first
\* snapshot: the confirmation is taken by a get_message after it
Subscribe(d) ==
  /\ stream[d].pc = "open"
  /\ Go(d, "in_service")
  /\ unheard' = unheard \ {d}
  /\ UNCHANGED <<rows, due, owed, view, changes, drops>>

\* Redis takes the SUBSCRIBE, at any time from then on
TakesEffect(d) ==
  /\ stream[d].pc \notin {"down", "closed", "open"} /\ ~stream[d].sub
  /\ stream' = [stream EXCEPT ![d].sub = TRUE]
  /\ UNCHANGED <<rows, due, owed, view, unheard, changes, drops>>

\* The queries of signage_snapshot: under READ COMMITTED each sees what is
\* committed when it starts
ReadServing(d) ==
  /\ stream[d].pc = "in_service"
  /\ stream' = [stream EXCEPT ![d].pc = "called",
                              ![d].part.serving = With(Shows[d], "IN_SERVICE")]
  /\ UNCHANGED <<rows, due, owed, view, unheard, changes, drops>>

ReadCalled(d) ==
  /\ stream[d].pc = "called"
  /\ stream' = [stream EXCEPT ![d].pc = "waiting",
                              ![d].part.called = With(Shows[d], "CALLED")]
  /\ UNCHANGED <<rows, due, owed, view, unheard, changes, drops>>

CountWaiting(d) ==
  /\ stream[d].pc = "waiting"
  /\ stream' = [stream EXCEPT ![d].pc = "sending",
                  ![d].part.waiting = Cardinality(With(Shows[d], "WAITING"))]
  /\ UNCHANGED <<rows, due, owed, view, unheard, changes, drops>>

\* Mutant: what was published while the snapshot was read is thrown away
BugDeliver(d) ==
  /\ stream[d].pc = "sending"
  /\ view' = [view EXCEPT ![d] = stream[d].part]
  /\ stream' = [stream EXCEPT ![d].pc = "listening", ![d].part = Blank, ![d].inbox = 0]
  /\ UNCHANGED <<rows, due, owed, unheard, changes, drops>>

\* The event is yielded, arrives, and onmessage replaces the snapshot shown
Deliver(d) ==
  /\ stream[d].pc = "sending"
  /\ view' = [view EXCEPT ![d] = stream[d].part]
  /\ stream' = [stream EXCEPT ![d].pc = "listening", ![d].part = Blank]
  /\ UNCHANGED <<rows, due, owed, unheard, changes, drops>>

\* Mutant: what get_message returns is taken for a message when it is None
BugReceive(d) ==
  /\ stream[d].pc = "listening"
  /\ stream' = [stream EXCEPT ![d].pc = "in_service", ![d].inbox = @ - 1]
  /\ unheard' = unheard \ {d}
  /\ UNCHANGED <<rows, due, owed, view, changes, drops>>

\* get_message returns a message: another snapshot is read.  When there is none
\* the loop sends a heartbeat, which changes nothing a display shows.
Receive(d) ==
  /\ stream[d].pc = "listening" /\ stream[d].inbox > 0
  /\ stream' = [stream EXCEPT ![d].pc = "in_service", ![d].inbox = @ - 1]
  /\ unheard' = unheard \ {d}
  /\ UNCHANGED <<rows, due, owed, view, changes, drops>>

\* The connection is lost, or the stream ends because Redis or a query failed:
\* the subscription is gone, the display keeps what it shows
Drop(d) ==
  /\ stream[d].pc \notin {"down", "closed"} /\ drops < MaxDrops
  /\ drops' = drops + 1
  /\ stream' = [stream EXCEPT ![d] = Down]
  /\ UNCHANGED <<rows, due, owed, view, unheard, changes>>

StreamStep(d) ==
  \/ Subscribe(d) \/ ReadServing(d) \/ ReadCalled(d) \/ CountWaiting(d)
  \/ Deliver(d) \/ Receive(d)

Next ==
  \/ \E t \in Ticket : \/ \E l \in Location : Create(t, l) \/ Transfer(t, l)
                       \/ \E to \in Status : Change(t, to)
  \/ Scan \/ AutoNoShow
  \/ \E l \in Location : Publish(l) \/ PublishFails(l)
  \/ \E d \in Display : \/ Connect(d) \/ Refuse(d) \/ TakesEffect(d)
                        \/ StreamStep(d) \/ Drop(d)

\* A request that has committed goes on to publish, or fails to; a stream's
\* coroutine runs on; and EventSource, which retries by itself for as long as
\* there is no answer, gets one in the end, good or bad.
Fairness ==
  /\ \A l \in Location : WF_vars(Publish(l) \/ PublishFails(l))
  /\ \A d \in Display : WF_vars(StreamStep(d)) /\ WF_vars(Connect(d) \/ Refuse(d))

Spec == Init /\ [][Next]_vars /\ Fairness

----------------------------------------------------------------------------
TypeOK ==
  /\ rows \in [Ticket -> [status : Status, location : Location] \cup {Absent}]
  /\ due \subseteq Ticket
  /\ owed \in [Location -> Nat]
  /\ stream \in [Display -> Stream]
  /\ view \in [Display -> Snapshot \cup {None}]
  /\ unheard \subseteq Display
  /\ changes \in 0..MaxChanges /\ drops \in 0..MaxDrops

\* What a display of the location should show
Truth(l) == [serving |-> With(l, "IN_SERVICE"), called |-> With(l, "CALLED"),
             waiting |-> Cardinality(With(l, "WAITING"))]

Quiet(d) ==
  /\ stream[d].pc = "listening" /\ stream[d].inbox = 0
  /\ owed[Shows[d]] = 0 /\ d \notin unheard

\* A display whose stream is open and has nothing to take shows the queue as it
\* is, whatever was missed before its last snapshot, and however changes fell
\* between the queries of it (the order of snapshot and message in sse_stream, of
\* commit and publish in the services).  Excepted are the displays with a change
\* that nobody told them of after the snapshot had begun: its publish failed or
\* was never meant, or came before the subscription was in force.
QuietDisplayIsCurrent == \A d \in Display : Quiet(d) => view[d] = Truth(Shows[d])

\* When the queue comes to rest, every display shows it, whatever connections
\* were lost on the way: the displays that were not told of a change excepted, and
\* those whose EventSource has given up (onerror of useSignage).
DisplaysCatchUp ==
  \A d \in Display :
    []<>(view[d] = Truth(Shows[d]) \/ d \in unheard \/ stream[d].pc = "closed")

\* "Point-in-time snapshot" (README, and the summary of GET /signage/{id}): no
\* customer is shown as being served and as being called at once.
ShownOnce ==
  \A d \in Display : view[d] # None => view[d].serving \cap view[d].called = {}
=============================================================================

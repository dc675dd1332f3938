--------------------------- MODULE OperatorScreen ---------------------------
(***************************************************************************)
(* The operator's screen: a list of cards that is as old as its last       *)
(* answer, the buttons each card offers for the status it shows, and the   *)
(* requests that are in flight.                                            *)
(*                                                                         *)
(* Answers arrive in any order and no request is ever withdrawn: a list    *)
(* asked for with an earlier filter, or before an action, may replace a    *)
(* newer one until the next poll.  Other screens, the kiosk and the worker *)
(* change tickets meanwhile.  A request is served in one step here, with   *)
(* the outcomes AtomicTickets gives it; what happens inside is             *)
(* TicketLifecycle's subject.  The order and the LIMIT of a list, the      *)
(* choice of a counter and the error texts are left out.                   *)
(***************************************************************************)
EXTENDS TicketFSM, Naturals, FiniteSets, Functions

CONSTANTS
  Ticket, Service,
  ListRequest, ClickRequest,  \* bound: requests in flight, of each kind
  StatusFilter,               \* the entries of the status filter that are used
  None,                       \* nothing: "All" in a filter, no row, no answer
  MaxEvents                   \* bound: filter changes, changes elsewhere, failures

ASSUME ConstantsAssumption ==
  /\ StatusFilter \subseteq {None, "WAITING", "CALLED", "IN_SERVICE", "HOLD",
                             "COMPLETED", "CANCELED"}
  /\ "WAITING" \in StatusFilter
  /\ None \notin Ticket \cup Service \cup Status
  /\ ListRequest \cap ClickRequest = {}
  /\ MaxEvents \in Nat

VARIABLES
  rows,     \* tickets: the committed rows
  filter,   \* statusFilter and selectedService
  list,     \* the cards: tickets and the rows they were last seen with
  flight,   \* per request: None, or what was asked and what was answered
  events    \* how many of MaxEvents have happened

vars == <<rows, filter, list, flight, events>>

Request == ListRequest \cup ClickRequest

Row == [status : Status, service : Service]

Absent == [status |-> "ABSENT", service |-> None]

Filter == [status : StatusFilter, service : Service \cup {None}]

\* Some tickets with their rows
Rows == UNION {[S -> Row] : S \in SUBSET Ticket}

Pending == [answered |-> FALSE, error |-> FALSE, rows |-> << >>]
Error == [answered |-> TRUE, error |-> TRUE, rows |-> << >>]
Answer(found) == [answered |-> TRUE, error |-> FALSE, rows |-> found]

Init ==
  /\ rows \in [Ticket -> {Absent} \cup [status : {"WAITING"}, service : Service]]
  /\ filter = [status |-> "WAITING", service |-> None]
  /\ list = << >>
  /\ flight = [r \in Request |-> None]
  /\ events = 0

Event == events < MaxEvents /\ events' = events + 1

----------------------------------------------------------------------------
\* The screen

\* Mutant: loadTickets keeps the filter it was first made with
BugListOf(f) == [kind |-> "list", filter |-> [status |-> "WAITING", service |-> None],
                 card |-> None, ticket |-> None, to |-> None, shown |-> None,
                 answer |-> Pending]

\* loadTickets: GET /v1/tickets with the filter
ListOf(f) == [kind |-> "list", filter |-> f, card |-> None, ticket |-> None,
              to |-> None, shown |-> None, answer |-> Pending]

\* callNext(counter, service), from the header or from a card
CallOf(service, card) ==
  [kind |-> "call", filter |-> [status |-> "WAITING", service |-> service],
   card |-> card, ticket |-> None, to |-> "CALLED", shown |-> None,
   answer |-> Pending]

\* A card's button: POST /v1/tickets/{t}/...
ActOf(t, to) ==
  [kind |-> "act", filter |-> filter, card |-> t, ticket |-> t, to |-> to,
   shown |-> list[t].status, answer |-> Pending]

Send(r, request) == flight[r] = None /\ flight' = [flight EXCEPT ![r] = request]

\* The interval, or Refresh
Poll ==
  \E r \in ListRequest :
    /\ Send(r, ListOf(filter))
    /\ UNCHANGED <<rows, filter, list, events>>

\* A filter is chosen; the effect loads the list at once
Choose ==
  \E f \in Filter \ {filter}, r \in ListRequest :
    /\ Event /\ filter' = f
    /\ Send(r, ListOf(f))
    /\ UNCHANGED <<rows, list>>

CallNext ==
  \E r \in ClickRequest :
    /\ Send(r, CallOf(filter.service, None))
    /\ UNCHANGED <<rows, filter, list, events>>

\* canStartService, canNoShow, canComplete, canHold, canCancel
Buttons(status) ==
       (IF status = "CALLED" THEN {"IN_SERVICE", "NO_SHOW"} ELSE {})
  \cup (IF status = "IN_SERVICE" THEN {"COMPLETED", "HOLD"} ELSE {})
  \cup (IF status \notin Terminal THEN {"CANCELED"} ELSE {})

\* act's loading: of the card as it is mounted, so a card that left the list
\* and came back has lost it
Loading(t) == \E r \in ClickRequest : flight[r] # None /\ flight[r].card = t

Click(t) ==
  /\ t \in DOMAIN list /\ ~Loading(t)
  /\ \E r \in ClickRequest :
       \/ \E to \in Buttons(list[t].status) : Send(r, ActOf(t, to))
       \/ list[t].status = "WAITING" /\ Send(r, CallOf(None, t))
  /\ UNCHANGED <<rows, filter, list, events>>

\* Mutant: the list is set whatever came back
BugShown(request) ==
  IF request.answer.error THEN Absent
  ELSE IF request.kind = "list" THEN request.answer.rows
  ELSE [t \in DOMAIN list |->
          IF t \in DOMAIN request.answer.rows THEN request.answer.rows[t] ELSE list[t]]

\* setTickets: a list replaces the cards, a ticket replaces its own card if it
\* has one, and an error leaves them as they are
Shown(request) ==
  IF request.answer.error THEN list
  ELSE IF request.kind = "list" THEN request.answer.rows
  ELSE [t \in DOMAIN list |->
          IF t \in DOMAIN request.answer.rows THEN request.answer.rows[t] ELSE list[t]]

\* A request's card, once the cards are those of S
Mounted(request, S) ==
  IF request = None THEN None
  ELSE [request EXCEPT !.card = IF @ \in S THEN @ ELSE None]

\* An answer arrives
Receive(r) ==
  /\ flight[r] # None /\ flight[r].answer.answered
  /\ list' = Shown(flight[r])
  /\ flight' = [q \in Request |-> IF q = r THEN None ELSE Mounted(flight[q], DOMAIN list')]
  /\ UNCHANGED <<rows, filter, events>>

----------------------------------------------------------------------------
\* The server and the network

Matches(t, f) == rows[t].status = f.status /\ rows[t].service = f.service

\* What the list shows when it is up to date.  URLSearchParams writes a filter
\* that is not set as the text "undefined": as a status it matches no ticket
Query(f) == Restrict(rows, {t \in Ticket : Matches(t, f)})

\* Mutant: the endpoints look only whether the ticket has ended
BugAccepted(status, to) == status \in Status \ Terminal

\* transition_status' check, of a status read without a lock: when another
\* request made the same change since, the trigger lets it be made again
Accepted(status, to) ==
  TransitionAllowed(status, to) \/ (status \in Status /\ status = to)

Reply(r, answer) == flight' = [flight EXCEPT ![r].answer = answer]

\* list_tickets; as a service, "undefined" is no UUID, and the answer is a 422
ServeList(r) ==
  LET f == flight[r].filter
  IN /\ Reply(r, IF f.service = None THEN Error ELSE Answer(Query(f)))
     /\ UNCHANGED rows

Called(t) == [rows[t] EXCEPT !.status = "CALLED"]

\* call-next: a waiting ticket, of the service if one was given, or null
ServeCall(r) ==
  LET service == flight[r].filter.service
      waiting == {t \in Ticket : /\ rows[t].status = "WAITING"
                                 /\ service \in {None, rows[t].service}}
  IN \/ \E t \in waiting :
          /\ rows' = [rows EXCEPT ![t] = Called(t)]
          /\ Reply(r, Answer([u \in {t} |-> Called(t)]))
     \/ waiting = {} /\ Reply(r, Answer(<< >>)) /\ UNCHANGED rows

\* start, complete, hold, cancel, no-show: the ticket as changed, or a 409, which
\* a repetition is answered with unless it overlapped what it repeats
ServeAct(r) ==
  LET t == flight[r].ticket
      row == [rows[t] EXCEPT !.status = flight[r].to]
  IN \/ /\ Accepted(rows[t].status, flight[r].to)
        /\ rows' = [rows EXCEPT ![t] = row] /\ Reply(r, Answer([u \in {t} |-> row]))
     \/ /\ ~TransitionAllowed(rows[t].status, flight[r].to)
        /\ Reply(r, Error) /\ UNCHANGED rows

Serve(r) ==
  /\ flight[r] # None /\ ~flight[r].answer.answered
  /\ \/ flight[r].kind = "list" /\ ServeList(r)
     \/ flight[r].kind = "call" /\ ServeCall(r)
     \/ flight[r].kind = "act" /\ ServeAct(r)
  /\ UNCHANGED <<filter, list, events>>

\* The request or its answer is lost, or the server fails: fetch throws
Fail(r) ==
  /\ Event /\ flight[r] # None /\ ~flight[r].answer.error
  /\ Reply(r, Error)
  /\ UNCHANGED <<rows, filter, list>>

\* The kiosk creates a ticket; another screen or the worker changes one; a
\* transfer puts one back into a queue
Elsewhere(t) ==
  /\ Event
  /\ \/ rows[t] = Absent
        /\ \E s \in Service : rows' = [rows EXCEPT ![t] = [status |-> "WAITING", service |-> s]]
     \/ \E to \in Status \ {"WAITING", "TRANSFERRED"} :
          /\ TransitionAllowed(rows[t].status, to)
          /\ rows' = [rows EXCEPT ![t].status = to]
     \/ /\ TransitionAllowed(rows[t].status, "TRANSFERRED")
        /\ \E s \in Service : rows' = [rows EXCEPT ![t] = [status |-> "WAITING", service |-> s]]
  /\ UNCHANGED <<filter, list, flight>>

Next ==
  \/ Poll \/ Choose \/ CallNext
  \/ \E t \in Ticket : Click(t) \/ Elsewhere(t)
  \/ \E r \in Request : Serve(r) \/ Receive(r) \/ Fail(r)

\* The interval fires again and again; a request that was sent is answered, and
\* an answer that was sent arrives
Spec ==
  /\ Init /\ [][Next]_vars
  /\ WF_vars(Poll)
  /\ \A r \in Request : WF_vars(Serve(r)) /\ WF_vars(Receive(r))

----------------------------------------------------------------------------
TypeOK ==
  /\ rows \in [Ticket -> Row \cup {Absent}]
  /\ filter \in Filter
  /\ list \in Rows
  /\ flight \in [Request -> {None} \cup
       [kind : {"list", "call", "act"}, filter : Filter, card : Ticket \cup {None},
        ticket : Ticket \cup {None}, to : Status \cup {None},
        shown : Status \cup {None},
        answer : [answered : BOOLEAN, error : BOOLEAN, rows : Rows]]]
  /\ events \in 0..MaxEvents

\* A button of a card that is out of date does nothing the operator did not
\* mean: Start, Complete and Hold take effect only on a ticket that is in the
\* status the card showed, or that another request brought into the wanted
\* status meanwhile.  (Cancel does on any ticket that has not ended, and No Show
\* on one that was transferred and waits again.)
ClicksActOnWhatTheyShow ==
  [][\A r \in ClickRequest :
       /\ flight[r] # None /\ flight'[r] # None
       /\ flight[r].kind = "act" /\ ~flight[r].answer.answered
       /\ flight'[r].answer.answered /\ ~flight'[r].answer.error
       => \/ rows[flight[r].ticket].status \in {flight[r].shown, flight[r].to}
          \/ flight[r].to \in {"CANCELED", "NO_SHOW"}]_vars

\* When filters and tickets have come to rest and requests no longer fail, the
\* list comes to be, and stays, what the filter asks for, whatever answers were
\* still on their way.  Without a service chosen it may not: every list is
\* answered with an error.
ScreenCatchesUp == <>[](filter.service # None => list = Query(filter))
=============================================================================

------------------------ MODULE OperatorScreen_proofs ------------------------
(***************************************************************************)
(* Proofs about OperatorScreen: its types, and what a button of a card     *)
(* that is out of date can do.                                             *)
(***************************************************************************)
EXTENDS OperatorScreen, TLAPS

LEMMA NoRows == << >> \in Rows
<1>1. << >> \in [{} -> Row]
  OBVIOUS
<1> QED BY <1>1 DEF Rows

LEMMA SomeRows ==
  ASSUME NEW S \in SUBSET Ticket, NEW f, f \in [S -> Row]
  PROVE  f \in Rows
BY DEF Rows

LEMMA RowsType ==
  ASSUME NEW f \in Rows
  PROVE  /\ DOMAIN f \in SUBSET Ticket
         /\ f \in [DOMAIN f -> Row]
BY DEF Rows

\* What the fields of a request may be
Asked ==
  [kind : {"list", "call", "act"}, filter : Filter, card : Ticket \cup {None},
   ticket : Ticket \cup {None}, to : Status \cup {None}, shown : Status \cup {None},
   answer : [answered : BOOLEAN, error : BOOLEAN, rows : Rows]]

LEMMA TypeOfFlight ==
  TypeOK <=> /\ rows \in [Ticket -> Row \cup {Absent}]
             /\ filter \in Filter
             /\ list \in Rows
             /\ flight \in [Request -> {None} \cup Asked]
             /\ events \in 0..MaxEvents
BY DEF TypeOK, Asked

\* A ticket that exists is a row of the table
LEMMA RowType ==
  ASSUME TypeOK, NEW t \in Ticket, rows[t].status \in Status \/ rows[t].service \in Service
  PROVE  rows[t] \in Row
BY ConstantsAssumption DEF TypeOK, Absent, Status

LEMMA AnswerTypes ==
  /\ Pending \in [answered : BOOLEAN, error : BOOLEAN, rows : Rows]
  /\ Error \in [answered : BOOLEAN, error : BOOLEAN, rows : Rows]
  /\ \A found \in Rows : Answer(found) \in [answered : BOOLEAN, error : BOOLEAN, rows : Rows]
BY NoRows DEF Pending, Error, Answer

LEMMA ButtonsType == ASSUME NEW status PROVE Buttons(status) \subseteq Status
BY DEF Buttons, Status

\* What the screen sends
LEMMA RequestTypes ==
  ASSUME TypeOK
  PROVE  /\ \A f \in Filter : ListOf(f) \in Asked
         /\ \A service \in Service \cup {None}, card \in Ticket \cup {None} :
              CallOf(service, card) \in Asked
         /\ \A t \in DOMAIN list : \A to \in Buttons(list[t].status) : ActOf(t, to) \in Asked
<1>1. \A f \in Filter : ListOf(f) \in Asked
  BY AnswerTypes DEF ListOf, Asked
<1>2. ASSUME NEW service \in Service \cup {None}, NEW card \in Ticket \cup {None}
      PROVE  CallOf(service, card) \in Asked
  <2>1. [status |-> "WAITING", service |-> service] \in Filter
    BY ConstantsAssumption DEF Filter
  <2>2. "CALLED" \in Status
    BY DEF Status
  <2> QED BY <2>1, <2>2, AnswerTypes DEF CallOf, Asked
<1>3. ASSUME NEW t \in DOMAIN list, NEW to \in Buttons(list[t].status)
      PROVE  ActOf(t, to) \in Asked
  <2>1. t \in Ticket /\ list[t].status \in Status
    BY RowsType DEF TypeOK, Row
  <2>2. filter \in Filter /\ to \in Status
    BY ButtonsType DEF TypeOK
  <2> QED BY <2>1, <2>2, AnswerTypes DEF ActOf, Asked
<1> QED BY <1>1, <1>2, <1>3

LEMMA ShownType ==
  ASSUME TypeOK, NEW request \in Asked
  PROVE  Shown(request) \in Rows
<1>1. request.answer.rows \in Rows /\ list \in Rows
  BY DEF Asked, TypeOK
<1>2. CASE request.answer.error \/ request.kind = "list"
  BY <1>1, <1>2 DEF Shown
<1>3. CASE ~request.answer.error /\ request.kind # "list"
  <2> DEFINE f == [t \in DOMAIN list |->
                     IF t \in DOMAIN request.answer.rows THEN request.answer.rows[t]
                     ELSE list[t]]
  <2>1. f \in [DOMAIN list -> Row] /\ DOMAIN list \in SUBSET Ticket
    BY <1>1, RowsType
  <2>2. Shown(request) = f
    BY <1>3 DEF Shown
  <2> HIDE DEF f
  <2> QED BY <2>1, <2>2, SomeRows
<1> QED BY <1>2, <1>3

LEMMA QueryType ==
  ASSUME TypeOK, NEW f \in Filter, f.service # None
  PROVE  Query(f) \in Rows
<1> DEFINE S == {t \in Ticket : Matches(t, f)}
<1>1. \A t \in S : rows[t] \in Row
  BY RowType DEF Matches, Filter
<1>2. Query(f) \in [S -> Row]
  BY <1>1 DEF Query, Restrict
<1> QED BY <1>2, SomeRows

\* The row and the answer that a request changing a ticket leaves
LEMMA ChangedType ==
  ASSUME NEW t \in Ticket, rows[t] \in Row, NEW to \in Status
  PROVE  /\ [rows[t] EXCEPT !.status = to] \in Row
         /\ [u \in {t} |-> [rows[t] EXCEPT !.status = to]] \in Rows
<1>1. [rows[t] EXCEPT !.status = to] \in Row
  BY DEF Row
<1>2. [u \in {t} |-> [rows[t] EXCEPT !.status = to]] \in [{t} -> Row]
  BY <1>1
<1> QED BY <1>1, <1>2, SomeRows

LEMMA ReplyType ==
  ASSUME TypeOK, NEW r \in Request, flight[r] # None,
         NEW answer \in [answered : BOOLEAN, error : BOOLEAN, rows : Rows], Reply(r, answer)
  PROVE  flight' \in [Request -> {None} \cup Asked]
<1>1. flight[r] \in Asked /\ flight \in [Request -> {None} \cup Asked]
  BY TypeOfFlight
<1>2. [flight[r] EXCEPT !.answer = answer] \in Asked
  BY <1>1 DEF Asked
<1> QED BY <1>1, <1>2 DEF Reply

LEMMA InitType == Init => TypeOK
<1>1. \A f \in [Ticket -> {Absent} \cup [status : {"WAITING"}, service : Service]] :
        f \in [Ticket -> Row \cup {Absent}]
  BY DEF Row, Status
<1> QED BY <1>1, ConstantsAssumption, NoRows, TypeOfFlight DEF Init, Filter

----------------------------------------------------------------------------
\* A click in flight names a ticket, and wants what a button of the status
\* shown offered
ClicksAreButtons ==
  \A r \in Request :
    flight[r] # None /\ flight[r].kind = "act"
      => flight[r].ticket \in Ticket /\ flight[r].to \in Buttons(flight[r].shown)

LEMMA ServeType ==
  ASSUME TypeOK, ClicksAreButtons, NEW r \in Request, Serve(r)
  PROVE  TypeOK'
<1>1. flight[r] \in Asked /\ flight[r] # None
  BY TypeOfFlight DEF Serve
<1>2. flight[r].filter \in Filter
  BY <1>1 DEF Asked
<1>3. UNCHANGED <<filter, list, events>>
  BY DEF Serve
<1>4. CASE flight[r].kind = "list" /\ ServeList(r)
  <2>1. PICK answer \in [answered : BOOLEAN, error : BOOLEAN, rows : Rows] : Reply(r, answer)
    BY <1>2, <1>4, QueryType, AnswerTypes DEF ServeList
  <2>2. UNCHANGED rows
    BY <1>4 DEF ServeList
  <2>3. flight' \in [Request -> {None} \cup Asked]
    BY <1>1, <2>1, ReplyType
  <2> QED BY <1>3, <2>2, <2>3, TypeOfFlight DEF TypeOK, Asked
<1>5. CASE flight[r].kind = "call" /\ ServeCall(r)
  <2>1. CASE Reply(r, Answer(<< >>)) /\ UNCHANGED rows
    <3>1. flight' \in [Request -> {None} \cup Asked]
      BY <1>1, <2>1, ReplyType, AnswerTypes, NoRows
    <3> QED BY <1>3, <2>1, <3>1 DEF TypeOK, Asked
  <2>2. ASSUME NEW t \in Ticket, rows[t].status = "WAITING",
               rows' = [rows EXCEPT ![t] = Called(t)],
               Reply(r, Answer([u \in {t} |-> Called(t)]))
        PROVE  TypeOK'
    <3>1. rows[t] \in Row
      BY <2>2, RowType DEF Status
    <3>2. Called(t) \in Row /\ [u \in {t} |-> Called(t)] \in Rows
      BY <3>1, ChangedType DEF Called, Status
    <3>3. flight' \in [Request -> {None} \cup Asked]
      BY <1>1, <2>2, <3>2, ReplyType, AnswerTypes
    <3> QED BY <1>3, <2>2, <3>2, <3>3 DEF TypeOK, Asked
  <2> QED BY <1>5, <2>1, <2>2 DEF ServeCall
<1>6. CASE flight[r].kind = "act" /\ ServeAct(r)
  <2> DEFINE t == flight[r].ticket
             row == [rows[t] EXCEPT !.status = flight[r].to]
  <2>1. CASE Reply(r, Error) /\ UNCHANGED rows
    <3>1. flight' \in [Request -> {None} \cup Asked]
      BY <1>1, <2>1, ReplyType, AnswerTypes
    <3> QED BY <1>3, <2>1, <3>1 DEF TypeOK, Asked
  <2>2. CASE /\ Accepted(rows[t].status, flight[r].to)
             /\ rows' = [rows EXCEPT ![t] = row] /\ Reply(r, Answer([u \in {t} |-> row]))
    <3>1. t \in Ticket
      BY <1>1, <1>6 DEF ClicksAreButtons
    <3>2. rows[t] \in Row /\ flight[r].to \in Status
      BY <2>2, <3>1, RowType DEF Accepted, TransitionAllowed, ValidTransitions
    <3>3. row \in Row /\ [u \in {t} |-> row] \in Rows
      BY <3>1, <3>2, ChangedType
    <3>4. flight' \in [Request -> {None} \cup Asked]
      BY <1>1, <2>2, <3>3, ReplyType, AnswerTypes
    <3> QED BY <1>3, <2>2, <3>3, <3>4 DEF TypeOK, Asked
  <2> QED BY <1>6, <2>1, <2>2 DEF ServeAct
<1> QED BY <1>4, <1>5, <1>6 DEF Serve

\* What Send puts into flight, when it is of a kind the screen sends
LEMMA SendType ==
  ASSUME TypeOK, ClicksAreButtons, NEW r \in Request, NEW request \in Asked,
         request.kind = "act" => request.ticket \in Ticket /\ request.to \in Buttons(request.shown),
         Send(r, request)
  PROVE  flight' \in [Request -> {None} \cup Asked] /\ ClicksAreButtons'
BY TypeOfFlight DEF Send, ClicksAreButtons

LEMMA Answered ==
  ASSUME TypeOK, ClicksAreButtons, NEW r \in Request, flight[r] # None,
         NEW answer, Reply(r, answer)
  PROVE  ClicksAreButtons'
<1>1. flight[r] \in Asked /\ flight \in [Request -> {None} \cup Asked]
  BY TypeOfFlight
<1>2. /\ flight'[r].kind = flight[r].kind /\ flight'[r].ticket = flight[r].ticket
      /\ flight'[r].to = flight[r].to /\ flight'[r].shown = flight[r].shown
      /\ \A q \in Request \ {r} : flight'[q] = flight[q]
  BY <1>1 DEF Reply, Asked
<1> QED BY <1>2 DEF ClicksAreButtons

LEMMA InvStep ==
  ASSUME TypeOK, ClicksAreButtons, [Next]_vars
  PROVE  TypeOK' /\ ClicksAreButtons'
<1>1. CASE Poll
  <2>1. PICK r \in ListRequest : Send(r, ListOf(filter))
    BY <1>1 DEF Poll
  <2>2. ListOf(filter) \in Asked /\ ListOf(filter).kind # "act"
    BY RequestTypes DEF TypeOK, ListOf
  <2>3. flight' \in [Request -> {None} \cup Asked] /\ ClicksAreButtons'
    BY <2>1, <2>2, SendType DEF Request
  <2> QED BY <1>1, <2>3 DEF Poll, TypeOK, Asked
<1>2. CASE Choose
  <2>1. PICK f \in Filter, r \in ListRequest : filter' = f /\ Send(r, ListOf(f))
    BY <1>2 DEF Choose
  <2>2. ListOf(f) \in Asked /\ ListOf(f).kind # "act"
    BY RequestTypes DEF ListOf
  <2>3. flight' \in [Request -> {None} \cup Asked] /\ ClicksAreButtons'
    BY <2>1, <2>2, SendType DEF Request
  <2> QED BY <1>2, <2>1, <2>3, ConstantsAssumption DEF Choose, Event, TypeOK, Asked
<1>3. CASE CallNext
  <2>1. PICK r \in ClickRequest : Send(r, CallOf(filter.service, None))
    BY <1>3 DEF CallNext
  <2>2. filter.service \in Service \cup {None}
    BY DEF TypeOK, Filter
  <2>3. CallOf(filter.service, None) \in Asked /\ CallOf(filter.service, None).kind # "act"
    BY <2>2, RequestTypes DEF CallOf
  <2>4. flight' \in [Request -> {None} \cup Asked] /\ ClicksAreButtons'
    BY <2>1, <2>3, SendType DEF Request
  <2> QED BY <1>3, <2>4 DEF CallNext, TypeOK, Asked
<1>4. ASSUME NEW t \in Ticket, Click(t)
      PROVE  TypeOK' /\ ClicksAreButtons'
  <2>1. t \in DOMAIN list
    BY <1>4 DEF Click
  <2>2. PICK r \in ClickRequest : \/ \E to \in Buttons(list[t].status) : Send(r, ActOf(t, to))
                                  \/ Send(r, CallOf(None, t))
    BY <1>4 DEF Click
  <2>3. \A to \in Buttons(list[t].status) :
          /\ ActOf(t, to) \in Asked
          /\ ActOf(t, to).ticket \in Ticket /\ ActOf(t, to).to \in Buttons(ActOf(t, to).shown)
    BY <2>1, RequestTypes DEF ActOf
  <2>4. CallOf(None, t) \in Asked /\ CallOf(None, t).kind # "act"
    BY RequestTypes DEF CallOf
  <2>5. flight' \in [Request -> {None} \cup Asked] /\ ClicksAreButtons'
    BY <2>2, <2>3, <2>4, SendType DEF Request
  <2> QED BY <1>4, <2>5 DEF Click, TypeOK, Asked
<1>5. ASSUME NEW t \in Ticket, Elsewhere(t)
      PROVE  TypeOK' /\ ClicksAreButtons'
  <2>1. flight' = flight /\ filter' = filter /\ list' = list /\ events' \in 0..MaxEvents
    BY <1>5, ConstantsAssumption DEF Elsewhere, Event, TypeOK
  <2>2. \A s \in Service : [status |-> "WAITING", service |-> s] \in Row
    BY DEF Row, Status
  <2>3. \A to \in Status : TransitionAllowed(rows[t].status, to)
                             => [rows[t] EXCEPT !.status = to] \in Row
    BY RowType DEF TransitionAllowed, Row
  <2>4. rows' \in [Ticket -> Row \cup {Absent}]
    BY <1>5, <2>2, <2>3 DEF Elsewhere, TypeOK
  <2> QED BY <2>1, <2>4 DEF TypeOK, ClicksAreButtons
<1>6. ASSUME NEW r \in Request, Serve(r)
      PROVE  TypeOK' /\ ClicksAreButtons'
  <2>1. flight[r] # None /\ \E answer : Reply(r, answer)
    BY <1>6 DEF Serve, ServeList, ServeCall, ServeAct
  <2> QED BY <1>6, <2>1, ServeType, Answered
<1>7. ASSUME NEW r \in Request, Receive(r)
      PROVE  TypeOK' /\ ClicksAreButtons'
  <2>1. flight[r] \in Asked
    BY <1>7, TypeOfFlight DEF Receive
  <2>2. list' \in Rows
    BY <1>7, <2>1, ShownType DEF Receive
  <2>3. ASSUME NEW q \in Request, flight'[q] # None
        PROVE  /\ flight[q] # None /\ flight'[q] \in Asked
               /\ flight'[q].kind = flight[q].kind /\ flight'[q].ticket = flight[q].ticket
               /\ flight'[q].to = flight[q].to /\ flight'[q].shown = flight[q].shown
    <3>1. flight'[q] = Mounted(flight[q], DOMAIN list') /\ flight[q] # None
      BY <1>7, <2>3 DEF Receive, Mounted
    <3>2. flight[q] \in Asked
      BY <3>1, TypeOfFlight
    <3> QED BY <3>1, <3>2 DEF Mounted, Asked
  <2>4. flight' \in [Request -> {None} \cup Asked]
    BY <1>7, <2>3 DEF Receive
  <2>5. ClicksAreButtons'
    BY <2>3 DEF ClicksAreButtons
  <2> QED BY <1>7, <2>2, <2>4, <2>5 DEF Receive, TypeOK, Asked
<1>8. ASSUME NEW r \in Request, Fail(r)
      PROVE  TypeOK' /\ ClicksAreButtons'
  <2>1. flight[r] # None /\ Reply(r, Error)
    BY <1>8 DEF Fail
  <2>2. flight' \in [Request -> {None} \cup Asked] /\ ClicksAreButtons'
    BY <2>1, AnswerTypes, ReplyType, Answered
  <2> QED BY <1>8, <2>2, ConstantsAssumption DEF Fail, Event, TypeOK, Asked
<1>9. CASE UNCHANGED vars
  BY <1>9 DEF vars, TypeOK, ClicksAreButtons
<1> QED BY <1>1, <1>2, <1>3, <1>4, <1>5, <1>6, <1>7, <1>8, <1>9 DEF Next

LEMMA InvInit == Init => TypeOK /\ ClicksAreButtons
BY InitType DEF Init, ClicksAreButtons

LEMMA Invariance == Spec => [](TypeOK /\ ClicksAreButtons)
<1>1. TypeOK /\ ClicksAreButtons /\ [Next]_vars => (TypeOK /\ ClicksAreButtons)'
  BY InvStep
<1> QED BY <1>1, InvInit, PTL DEF Spec

\* The status a transition starts from, where only one leads to its target, or
\* that target again
LEMMA OneWayIn ==
  ASSUME NEW status, NEW to \in {"IN_SERVICE", "COMPLETED", "HOLD"}, Accepted(status, to)
  PROVE  status \in {IF to = "IN_SERVICE" THEN "CALLED" ELSE "IN_SERVICE", to}
BY DEF Accepted, TransitionAllowed, ValidTransitions, ValidTransition

\* A request comes to be answered without an error only by being served
LEMMA AnsweredByServe ==
  ASSUME TypeOK, [Next]_vars, NEW r \in Request,
         flight[r] # None, flight'[r] # None,
         ~flight[r].answer.answered, flight'[r].answer.answered, ~flight'[r].answer.error
  PROVE  Serve(r)
<1>1. flight[r] \in Asked /\ flight \in [Request -> {None} \cup Asked]
  BY TypeOfFlight
<1>2. ASSUME NEW q \in Request, NEW request, Send(q, request)
      PROVE  FALSE
  BY <1>1, <1>2 DEF Send
<1>3. ASSUME NEW q \in Request, NEW answer, q # r, Reply(q, answer)
      PROVE  FALSE
  BY <1>1, <1>3 DEF Reply
<1>4. ASSUME NEW q \in Request, Receive(q)
      PROVE  FALSE
  BY <1>1, <1>4 DEF Receive, Mounted, Asked
<1>5. ASSUME Fail(r)
      PROVE  FALSE
  BY <1>1, <1>5 DEF Fail, Reply, Error, Asked
<1>6. flight' # flight
  OBVIOUS
<1>7. ~Poll /\ ~Choose /\ ~CallNext /\ \A t \in Ticket : ~Click(t) /\ ~Elsewhere(t)
  BY <1>2, <1>6 DEF Poll, Choose, CallNext, Click, Elsewhere, Request
<1>8. \A q \in Request : q # r => ~Serve(q) /\ ~Fail(q)
  BY <1>3 DEF Serve, ServeList, ServeCall, ServeAct, Fail
<1> QED BY <1>4, <1>5, <1>6, <1>7, <1>8 DEF Next, vars

\* Every variable of the screen has its type.
THEOREM ScreenTypes == Spec => []TypeOK
BY Invariance, PTL

\* However old a card is and however many screens there are: Start, Complete
\* and Hold take effect only on a ticket in the status the card showed, or
\* already in the one they bring about.
THEOREM StaleClicksAreHarmless == Spec => ClicksActOnWhatTheyShow
<1>1. ASSUME TypeOK, ClicksAreButtons, [Next]_vars, NEW r \in ClickRequest,
             flight[r] # None, flight'[r] # None, flight[r].kind = "act",
             ~flight[r].answer.answered, flight'[r].answer.answered, ~flight'[r].answer.error
      PROVE  \/ rows[flight[r].ticket].status \in {flight[r].shown, flight[r].to}
             \/ flight[r].to \in {"CANCELED", "NO_SHOW"}
  <2>1. r \in Request
    BY DEF Request
  <2>2. flight[r].to \in Buttons(flight[r].shown)
    BY <1>1, <2>1 DEF ClicksAreButtons
  <2>3. Serve(r)
    BY <1>1, <2>1, AnsweredByServe
  <2>4. ServeAct(r)
    BY <1>1, <2>3 DEF Serve
  <2>5. flight[r] \in Asked
    BY <1>1, <2>1, TypeOfFlight
  <2>6. ~Reply(r, Error)
    BY <1>1, <2>1, <2>5, TypeOfFlight DEF Reply, Error, Asked
  <2>7. Accepted(rows[flight[r].ticket].status, flight[r].to)
    BY <2>4, <2>6 DEF ServeAct
  <2> QED BY <2>2, <2>7, OneWayIn DEF Buttons
<1>2. TypeOK /\ ClicksAreButtons /\ [Next]_vars
        => [\A r \in ClickRequest :
              /\ flight[r] # None /\ flight'[r] # None
              /\ flight[r].kind = "act" /\ ~flight[r].answer.answered
              /\ flight'[r].answer.answered /\ ~flight'[r].answer.error
              => \/ rows[flight[r].ticket].status \in {flight[r].shown, flight[r].to}
                 \/ flight[r].to \in {"CANCELED", "NO_SHOW"}]_vars
  BY <1>1
<1> QED BY <1>2, Invariance, PTL DEF Spec, ClicksActOnWhatTheyShow
=============================================================================

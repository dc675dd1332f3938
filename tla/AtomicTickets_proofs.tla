------------------------ MODULE AtomicTickets_proofs ------------------------
(***************************************************************************)
(* The transactions of TicketLifecycle implement the indivisible requests  *)
(* of AtomicTickets: every commit is one step of the abstract tickets, and *)
(* every other step is invisible to them.                                  *)
(***************************************************************************)
EXTENDS TicketLifecycle_proofs, SequenceTheorems

LEMMA StatusAfterType == \A type \in EventType : StatusAfter(type) \in EventType
<1>1. "WAITING" \in EventType
  BY DEF EventType, Status
<1> QED BY <1>1 DEF StatusAfter

\* The statuses that a log of events records
Statuses(q) == [i \in DOMAIN q |-> StatusAfter(q[i].type)]

LEMMA StatusesType ==
  ASSUME NEW q \in Seq(Event)
  PROVE  /\ Statuses(q) \in Seq(EventType)
         /\ Len(Statuses(q)) = Len(q) /\ Len(q) \in Nat
         /\ \A i \in 1..Len(q) : Statuses(q)[i] = StatusAfter(q[i].type)
<1>1. \A i \in 1..Len(q) : StatusAfter(q[i].type) \in EventType
  <2> SUFFICES ASSUME NEW i \in 1..Len(q)
               PROVE  StatusAfter(q[i].type) \in EventType
    OBVIOUS
  <2>1. q[i] \in Event
    BY ElementOfSeq
  <2>2. q[i].type \in EventType
    BY <2>1 DEF Event
  <2> QED BY <2>2, StatusAfterType
<1>2. Statuses(q) = [i \in 1..Len(q) |-> StatusAfter(q[i].type)] /\ Len(q) \in Nat
  BY LenProperties DEF Statuses
<1> QED BY <1>1, <1>2

\* They grow by one as the log does,
LEMMA StatusesGrow ==
  ASSUME NEW q \in Seq(Event), NEW r \in Seq(Event), NEW type \in EventType,
         Len(r) = Len(q) + 1, \A i \in 1..Len(q) : r[i] = q[i],
         r[Len(q) + 1].type = type
  PROVE  Statuses(r) = Append(Statuses(q), StatusAfter(type))
<1> DEFINE n == Len(q)
           h == Statuses(q)
           new == Append(h, StatusAfter(type))
<1>1. h \in Seq(EventType) /\ Len(h) = n /\ n \in Nat
  BY StatusesType
<1>2. \A i \in 1..n : h[i] = StatusAfter(q[i].type)
  BY StatusesType
<1>3. /\ Statuses(r) \in Seq(EventType) /\ Len(Statuses(r)) = n + 1
      /\ \A i \in 1..(n + 1) : Statuses(r)[i] = StatusAfter(r[i].type)
  BY StatusesType
<1> HIDE DEF h
<1>4. /\ new \in Seq(EventType) /\ Len(new) = n + 1 /\ new[n + 1] = StatusAfter(type)
      /\ \A i \in 1..n : new[i] = h[i]
  BY <1>1, StatusAfterType
<1>5. ASSUME NEW i \in 1..(n + 1)
      PROVE  Statuses(r)[i] = new[i]
  <2>1. CASE i = n + 1
    BY <1>3, <1>4, <2>1
  <2>2. CASE i \in 1..n
    BY <1>2, <1>3, <1>4, <2>2
  <2> QED BY <1>1, <2>1, <2>2
<1> HIDE DEF new, n
<1>6. Statuses(r) = new
  BY <1>3, <1>4, <1>5, SeqEqual
<1> QED BY <1>6 DEF new, h

\* and by two in a transfer.
LEMMA StatusesTransfer ==
  ASSUME NEW q \in Seq(Event), NEW r \in Seq(Event),
         Len(r) = Len(q) + 2, \A i \in 1..Len(q) : r[i] = q[i],
         r[Len(q) + 1].type = "TRANSFERRED", r[Len(q) + 2].type = "WAITING"
  PROVE  Statuses(r) = Statuses(q) \o <<"TRANSFERRED", "WAITING">>
<1> DEFINE n == Len(q)
           h == Statuses(q)
           new == h \o <<"TRANSFERRED", "WAITING">>
<1>1. h \in Seq(EventType) /\ Len(h) = n /\ n \in Nat
  BY StatusesType
<1>2. \A i \in 1..n : h[i] = StatusAfter(q[i].type)
  BY StatusesType
<1>3. /\ Statuses(r) \in Seq(EventType) /\ Len(Statuses(r)) = n + 2
      /\ \A i \in 1..(n + 2) : Statuses(r)[i] = StatusAfter(r[i].type)
  BY StatusesType
<1> HIDE DEF h
<1>4. "TRANSFERRED" \in EventType /\ "WAITING" \in EventType
  BY DEF EventType, Status
<1>5. /\ new \in Seq(EventType) /\ Len(new) = n + 2
      /\ new[n + 1] = "TRANSFERRED" /\ new[n + 2] = "WAITING"
      /\ \A i \in 1..n : new[i] = h[i]
  BY <1>1, <1>4, ExtendByTwo
<1>6. ASSUME NEW i \in 1..(n + 2)
      PROVE  Statuses(r)[i] = new[i]
  <2>1. CASE i = n + 1
    BY <1>1, <1>3, <1>5, <2>1 DEF StatusAfter
  <2>2. CASE i = n + 2
    BY <1>1, <1>3, <1>5, <2>2 DEF StatusAfter
  <2>3. CASE i \in 1..n
    BY <1>2, <1>3, <1>5, <2>3
  <2> QED BY <1>1, <2>1, <2>2, <2>3
<1> HIDE DEF new, n
<1>7. Statuses(r) = new
  BY <1>3, <1>5, <1>6, SeqEqual
<1> QED BY <1>7 DEF new, h

LEMMA HistoryOfTicket ==
  ASSUME NEW t \in Ticket
  PROVE  History[t] = Statuses(log[t]) /\ History'[t] = Statuses(log'[t])
BY DEF History, Statuses

\* The last status of the history is the status of the row.
LEMMA CurrentIsStatus ==
  ASSUME IInv, NEW t \in Ticket, db[t] # AbsentRow
  PROVE  History[t] # <<>> /\ Atomic!Current(t) = db[t].status
<1> DEFINE n == Len(log[t])
<1>1. log[t] # <<>> /\ n # 0
  BY EmptyLog DEF IInv
<1>2. db[t].status = StatusAfter(log[t][n].type)
  BY <1>1 DEF IInv, LogMatchesStatus
<1>3. /\ Len(History[t]) = n /\ n \in Nat
      /\ \A i \in 1..n : History[t][i] = StatusAfter(log[t][i].type)
  BY HistoryOfTicket, StatusesType DEF IInv, TypeOK
<1> HIDE DEF n
<1>4. History[t][n] = db[t].status
  BY <1>1, <1>2, <1>3
<1>5. History[t] # <<>>
  BY <1>1, <1>3
<1> QED BY <1>3, <1>4, <1>5 DEF Atomic!Current

\* The abstract history grows as the log does.
LEMMA GrowsHistory ==
  ASSUME TypeOK, TypeOK', NEW t \in Ticket, NEW type \in EventType, GrowsTo(t, type)
  PROVE  History'[t] = Append(History[t], StatusAfter(type))
<1>1. log[t] \in Seq(Event) /\ log'[t] \in Seq(Event)
  BY DEF TypeOK
<1>2. Statuses(log'[t]) = Append(Statuses(log[t]), StatusAfter(type))
  BY <1>1, StatusesGrow DEF GrowsTo
<1> QED BY <1>2, HistoryOfTicket

LEMMA TransferGrowsHistory ==
  ASSUME TypeOK, TypeOK', NEW t \in Ticket, GrowsByTransfer(t)
  PROVE  History'[t] = History[t] \o <<"TRANSFERRED", "WAITING">>
<1>1. log[t] \in Seq(Event) /\ log'[t] \in Seq(Event)
  BY DEF TypeOK
<1>2. Statuses(log'[t]) = Statuses(log[t]) \o <<"TRANSFERRED", "WAITING">>
  BY <1>1, StatusesTransfer DEF GrowsByTransfer
<1> QED BY <1>2, HistoryOfTicket

\* What a commit does to one ticket is what an abstract action does to it.
LEMMA TicketSteps ==
  ASSUME IInv, IInv', [Next]_vars, NEW t \in Ticket, log'[t] # log[t]
  PROVE  \/ History[t] = <<>> /\ History'[t] = <<"WAITING">>
         \/ /\ History[t] # <<>> /\ Atomic!Current(t) = "WAITING"
            /\ History'[t] = Append(History[t], "CALLED")
         \/ /\ History[t] # <<>> /\ Atomic!Current(t) = "IN_SERVICE"
            /\ History'[t] = History[t] \o <<"TRANSFERRED", "WAITING">>
         \/ \E to \in Target \ {"TRANSFERRED"} :
              /\ History[t] # <<>> /\ db'[t].status = to
              /\ to \in ValidTransitions(Atomic!Current(t)) \cup {Atomic!Current(t)}
              /\ History'[t] = Append(History[t], to)
<1> USE DEF IInv, TransactionsFit
<1>1. CASE db[t] = AbsentRow /\ GrowsTo(t, "CREATED")
  <2>1. History[t] = <<>>
    <3>1. Len(History[t]) = 0 /\ History[t] \in Seq(EventType)
      BY <1>1, EmptyLog, HistoryOfTicket, StatusesType DEF TypeOK
    <3> QED BY <3>1
  <2>2. "CREATED" \in EventType /\ StatusAfter("CREATED") = "WAITING"
    BY DEF EventType, Status, StatusAfter
  <2>3. History'[t] = Append(<<>>, "WAITING")
    BY <1>1, <2>1, <2>2, GrowsHistory
  <2> QED BY <2>1, <2>3
<1>2. CASE db[t].status = "WAITING" /\ GrowsTo(t, "CALLED")
  <2>1. db[t] # AbsentRow
    BY <1>2 DEF AbsentRow, Absent
  <2>2. "CALLED" \in EventType /\ StatusAfter("CALLED") = "CALLED"
    BY DEF EventType, Status, StatusAfter
  <2> QED BY <1>2, <2>1, <2>2, CurrentIsStatus, GrowsHistory
<1>3. CASE db[t].status = "IN_SERVICE" /\ GrowsByTransfer(t)
  <2>1. db[t] # AbsentRow
    BY <1>3 DEF AbsentRow, Absent
  <2> QED BY <1>3, <2>1, CurrentIsStatus, TransferGrowsHistory
<1>4. ASSUME NEW to \in Target \ {"TRANSFERRED"}, db[t] \in Row,
             TriggerAccepts(db[t].status, to), db'[t].status = to, GrowsTo(t, to)
      PROVE  /\ History[t] # <<>>
             /\ to \in ValidTransitions(Atomic!Current(t)) \cup {Atomic!Current(t)}
             /\ History'[t] = Append(History[t], to)
  <2>1. db[t].status \in Status /\ to \in Status /\ db[t] # AbsentRow
    BY <1>4 DEF Row, Target, Status, AbsentRow, Absent
  <2>2. to \in EventType /\ StatusAfter(to) = to
    BY <1>4, <2>1 DEF EventType, Target, StatusAfter
  <2>3. to \in ValidTransitions(db[t].status) \cup {db[t].status}
    BY <1>4, <2>1, TriggerIsLegal
  <2> QED BY <1>4, <2>1, <2>2, <2>3, CurrentIsStatus, GrowsHistory
<1> QED BY <1>1, <1>2, <1>3, <1>4, LogSteps

----------------------------------------------------------------------------
\* Both modules use the same table of transitions.
LEMMA SameTable == \A from : Atomic!ValidTransitions(from) = ValidTransitions(from)
BY DEF Atomic!ValidTransitions, Atomic!ValidTransition, Atomic!Status,
       ValidTransitions, ValidTransition, Status

\* A commit of a session is one abstract step of its ticket.
LEMMA CommitRefines ==
  ASSUME IInv, IInv', [Next]_vars, NEW s \in Session, Commit(s)
  PROVE  [Atomic!Next]_History
<1> DEFINE t == tx[s].ticket
<1>1. t \in Ticket
  BY BusySession DEF Commit, Idle, IInv
<1> HIDE DEF t
<1>2. \A u \in Ticket \ {t} : log'[u] = log[u]
  BY DEF Commit, t, IInv, TypeOK
<1>3. \A u \in Ticket \ {t} : History'[u] = History[u]
  BY <1>2 DEF History
<1>4. \A h : History'[t] = h => History' = [History EXCEPT ![t] = h]
  BY <1>1, <1>3 DEF History
<1>5. CASE log'[t] = log[t]
  <2>1. History'[t] = History[t]
    BY <1>1, <1>5 DEF History
  <2>2. History' = History
    BY <1>1, <1>3, <2>1 DEF History
  <2> QED BY <2>2
<1>6. CASE History[t] = <<>> /\ History'[t] = <<"WAITING">>
  BY <1>1, <1>4, <1>6 DEF Atomic!Next, Atomic!Arrive
<1>7. CASE /\ History[t] # <<>> /\ Atomic!Current(t) = "WAITING"
           /\ History'[t] = Append(History[t], "CALLED")
  BY <1>1, <1>4, <1>7 DEF Atomic!Next, Atomic!Call
<1>8. CASE /\ History[t] # <<>> /\ Atomic!Current(t) = "IN_SERVICE"
           /\ History'[t] = History[t] \o <<"TRANSFERRED", "WAITING">>
  BY <1>1, <1>4, <1>8 DEF Atomic!Next, Atomic!Transfer
<1>9. ASSUME NEW to \in Target \ {"TRANSFERRED"}, History[t] # <<>>,
             to \in ValidTransitions(Atomic!Current(t)) \cup {Atomic!Current(t)},
             History'[t] = Append(History[t], to)
      PROVE  Atomic!Next
  <2>1. Atomic!Move(t, to)
    BY <1>1, <1>4, <1>9, SameTable DEF Atomic!Move
  <2> QED BY <1>1, <2>1 DEF Atomic!Next, Target
<1> QED BY <1>1, <1>5, <1>6, <1>7, <1>8, <1>9, TicketSteps

\* A commit of a worker gives up all of its tickets at once.
LEMMA BatchRefines ==
  ASSUME IInv, IInv', [Next]_vars, NEW w \in Worker, CommitStuck(w)
  PROVE  Atomic!Next
<1> DEFINE T == job[w].done
<1>1. T \in SUBSET Ticket
  BY DEF IInv, TypeOK
<1>2. \A t \in Ticket \ T : History'[t] = History[t]
  BY DEF CommitStuck, History
<1>3. \A t \in T : /\ History[t] # <<>> /\ History'[t] = Append(History[t], "NO_SHOW")
                   /\ "NO_SHOW" \in ValidTransitions(Atomic!Current(t))
                                      \cup {Atomic!Current(t)}
  <2> SUFFICES ASSUME NEW t \in T
               PROVE  /\ History[t] # <<>> /\ History'[t] = Append(History[t], "NO_SHOW")
                      /\ "NO_SHOW" \in ValidTransitions(Atomic!Current(t))
                                         \cup {Atomic!Current(t)}
    OBVIOUS
  <2>1. t \in Ticket /\ db[t] \in Row /\ TriggerAccepts(db[t].status, "NO_SHOW")
    BY <1>1 DEF IInv, TransactionsFit, BatchesFitRows, TypeOK
  <2>2. "NO_SHOW" \in Status /\ db[t].status \in Status /\ db[t] # AbsentRow
    BY <2>1 DEF Status, Row, AbsentRow, Absent
  <2>3. "NO_SHOW" \in ValidTransitions(db[t].status) \cup {db[t].status}
    BY <2>1, <2>2, TriggerIsLegal
  <2>4. History[t] # <<>> /\ Atomic!Current(t) = db[t].status
    BY <2>1, <2>2, CurrentIsStatus
  <2>5. EventOf("NO_SHOW", None) \in Event /\ EventOf("NO_SHOW", None).type = "NO_SHOW"
    BY DEF EventOf, Event, EventType, Status
  <2>6. log'[t] = Append(log[t], EventOf("NO_SHOW", None)) /\ log[t] \in Seq(Event)
    BY <2>1 DEF CommitStuck, IInv, TypeOK
  <2> DEFINE e == EventOf("NO_SHOW", None)
  <2> HIDE DEF e
  <2>7. GrowsTo(t, "NO_SHOW")
    <3>1. e \in Event /\ e.type = "NO_SHOW" /\ log'[t] = Append(log[t], e)
      BY <2>5, <2>6 DEF e
    <3>2. log'[t] = log[t] \o <<e>>
      BY <2>6, <3>1
    <3> QED BY <2>6, <3>1, <3>2, ExtendByOne DEF GrowsTo
  <2>8. "NO_SHOW" \in EventType /\ StatusAfter("NO_SHOW") = "NO_SHOW"
    BY DEF EventType, Status, StatusAfter
  <2>9. History'[t] = Append(History[t], "NO_SHOW")
    BY <2>1, <2>7, <2>8, GrowsHistory DEF IInv
  <2> QED BY <2>3, <2>4, <2>9
<1> HIDE DEF T
<1>4. History' = [t \in Ticket |-> IF t \in T THEN Append(History[t], "NO_SHOW")
                                             ELSE History[t]]
  <2>1. \A t \in Ticket :
          History'[t] = IF t \in T THEN Append(History[t], "NO_SHOW") ELSE History[t]
    BY <1>2, <1>3
  <2>2. History' = [t \in Ticket |-> History'[t]]
    BY DEF History
  <2> QED BY <2>1, <2>2
<1>5. Atomic!GiveUp(T)
  BY <1>3, <1>4, SameTable DEF Atomic!GiveUp
<1> QED BY <1>1, <1>5 DEF Atomic!Next

LEMMA InitRefines == Init => Atomic!Init
<1> SUFFICES ASSUME Init
             PROVE  History = [t \in Ticket |-> <<>>]
  BY DEF Atomic!Init
<1>1. \A t \in Ticket : log[t] = <<>>
  BY DEF Init
<1>2. \A t \in Ticket : [i \in DOMAIN log[t] |-> StatusAfter(log[t][i].type)] = <<>>
  BY <1>1
<1> QED BY <1>2 DEF History

LEMMA StepRefines == IInv /\ IInv' /\ [Next]_vars => [Atomic!Next]_History
<1> SUFFICES ASSUME IInv, IInv', [Next]_vars
             PROVE  [Atomic!Next]_History
  OBVIOUS
<1>1. CASE \E t \in Ticket : log'[t] # log[t]
  <2>1. \/ \E s \in Session : Commit(s)
        \/ \E w \in Worker : CommitStuck(w)
    BY <1>1, OnlyHolderCommits DEF IInv, TransactionsFit
  <2> QED BY <2>1, CommitRefines, BatchRefines
<1>2. CASE \A t \in Ticket : log'[t] = log[t]
  <2>1. History' = History
    BY <1>2 DEF History
  <2> QED BY <2>1
<1> QED BY <1>1, <1>2

\* The requests and the batches of auto_no_show, interleaved as they are and
\* deciding on unlocked reads, leave the histories that indivisible requests
\* would: no request is applied halfway, twice, or on top of a lost one.
THEOREM RequestsAreAtomic == Spec => ImplementsAtomicTickets
BY InitRefines, InvInit, InvStep, StepRefines, PTL DEF Spec, ImplementsAtomicTickets, Atomic!Spec
=============================================================================

--------------------------- MODULE Signage_proofs ---------------------------
(***************************************************************************)
(* Proofs about Signage: its types, and that a display which has nothing   *)
(* more to hear shows the queue as it is.                                  *)
(***************************************************************************)
EXTENDS Signage, FiniteSetTheorems, TLAPS

LEMMA WithType == ASSUME NEW l, NEW status
                  PROVE  With(l, status) \in SUBSET Ticket
BY DEF With

LEMMA CountType == ASSUME NEW l, NEW status
                   PROVE  Cardinality(With(l, status)) \in Nat
<1>1. IsFiniteSet(With(l, status))
  BY ConstantsAssumption, FS_Subset, WithType
<1> QED BY <1>1, FS_CardinalityType

\* A ticket that exists is a row of the table
LEMMA RowType ==
  ASSUME TypeOK, NEW t \in Ticket, rows[t].status \in Status
  PROVE  /\ rows[t] \in [status : Status, location : Location]
         /\ rows[t].location \in Location
BY DEF TypeOK, Absent, Status

\* and so is a ticket that auto_no_show may write to
LEMMA HitType ==
  ASSUME TypeOK, NEW t \in due, TriggerAccepts(rows[t].status, "NO_SHOW")
  PROVE  /\ t \in Ticket /\ rows[t].status \in {"WAITING", "CALLED", "NO_SHOW"}
         /\ rows[t] \in [status : Status, location : Location]
         /\ [rows[t] EXCEPT !.status = "NO_SHOW"] \in [status : Status, location : Location]
<1>1. t \in Ticket /\ rows[t].status \in {"WAITING", "CALLED", "NO_SHOW"}
  BY DEF TriggerAccepts, TypeOK
<1>2. rows[t] \in [status : Status, location : Location]
  BY <1>1, RowType DEF Status
<1> QED BY <1>1, <1>2 DEF Status

LEMMA InitType == Init => TypeOK
BY ConstantsAssumption DEF Init, TypeOK, Down, Stream, Pc, Snapshot, Blank

LEMMA TypeStep ==
  ASSUME TypeOK, [Next]_vars
  PROVE  TypeOK'
<1> USE ConstantsAssumption
<1>1. ASSUME NEW t \in Ticket, NEW l \in Location, Create(t, l) \/ Transfer(t, l)
      PROVE  TypeOK'
  BY <1>1 DEF Create, Transfer, Commit, TypeOK, Status, Awaiting
<1>2. ASSUME NEW t \in Ticket, NEW to \in Status, Change(t, to)
      PROVE  TypeOK'
  <2>1. rows[t].status \in Status
    BY <1>2 DEF Change, TransitionAllowed
  <2>2. rows[t].location \in Location /\ [rows[t] EXCEPT !.status = to] \in [status : Status, location : Location]
    BY <2>1, RowType
  <2> QED BY <1>2, <2>2 DEF Change, Commit, TypeOK
<1>3. CASE Scan \/ AutoNoShow
  <2>1. CASE Scan
    BY <2>1 DEF Scan, TypeOK
  <2>2. CASE AutoNoShow
    <3>1. rows' \in [Ticket -> [status : Status, location : Location] \cup {Absent}]
      <4>1. CASE \A t \in due : TriggerAccepts(rows[t].status, "NO_SHOW")
        <5>1. \A t \in due : [rows[t] EXCEPT !.status = "NO_SHOW"]
                               \in [status : Status, location : Location]
          BY <4>1, HitType
        <5>2. rows' = [t \in Ticket |-> IF t \in due
                         THEN [rows[t] EXCEPT !.status = "NO_SHOW"] ELSE rows[t]]
          BY <2>2, <4>1 DEF AutoNoShow
        <5>3. \A t \in Ticket : rows[t] \in [status : Status, location : Location] \cup {Absent}
          BY DEF TypeOK
        <5> QED BY <5>1, <5>2, <5>3
      <4>2. CASE ~\A t \in due : TriggerAccepts(rows[t].status, "NO_SHOW")
        BY <2>2, <4>2 DEF AutoNoShow, TypeOK
      <4> QED BY <4>1, <4>2
    <3>2. unheard' \subseteq Display /\ due' \subseteq Ticket
      BY <2>2 DEF AutoNoShow, Awaiting, TypeOK
    <3> QED BY <2>2, <3>1, <3>2 DEF AutoNoShow, TypeOK
  <2> QED BY <1>3, <2>1, <2>2
<1>4. ASSUME NEW l \in Location, Publish(l) \/ PublishFails(l)
      PROVE  TypeOK'
  BY <1>4 DEF Publish, PublishFails, TypeOK, Stream, Awaiting
<1>5. ASSUME NEW d \in Display,
             \/ Connect(d) \/ Refuse(d) \/ Subscribe(d) \/ TakesEffect(d)
             \/ Receive(d) \/ Deliver(d) \/ Drop(d)
      PROVE  TypeOK'
  <2>1. Down \in Stream /\ Blank \in Snapshot
    BY DEF Down, Stream, Pc, Snapshot, Blank
  <2>2. stream[d] \in Stream
    BY DEF TypeOK
  <2>3. CASE Connect(d) \/ Refuse(d) \/ Subscribe(d)
    BY <2>2, <2>3 DEF Connect, Refuse, Subscribe, Go, TypeOK, Stream, Pc
  <2>7. CASE TakesEffect(d)
    BY <2>2, <2>7 DEF TakesEffect, TypeOK, Stream, Pc
  <2>4. CASE Receive(d)
    BY <2>2, <2>4 DEF Receive, TypeOK, Stream, Pc
  <2>5. CASE Deliver(d)
    BY <2>1, <2>2, <2>5 DEF Deliver, TypeOK, Stream, Pc
  <2>6. CASE Drop(d)
    BY <2>1, <2>6 DEF Drop, TypeOK
  <2> QED BY <1>5, <2>3, <2>4, <2>5, <2>6, <2>7
<1>6. ASSUME NEW d \in Display, ReadServing(d) \/ ReadCalled(d) \/ CountWaiting(d)
      PROVE  TypeOK'
  <2>1. stream[d] \in Stream
    BY DEF TypeOK
  <2>2. CASE ReadServing(d)
    <3>1. With(Shows[d], "IN_SERVICE") \in SUBSET Ticket
      BY WithType
    <3> QED BY <2>1, <2>2, <3>1 DEF ReadServing, TypeOK, Stream, Pc, Snapshot
  <2>3. CASE ReadCalled(d)
    <3>1. With(Shows[d], "CALLED") \in SUBSET Ticket
      BY WithType
    <3> QED BY <2>1, <2>3, <3>1 DEF ReadCalled, TypeOK, Stream, Pc, Snapshot
  <2>4. CASE CountWaiting(d)
    <3>1. Cardinality(With(Shows[d], "WAITING")) \in Nat
      BY CountType
    <3> QED BY <2>1, <2>4, <3>1 DEF CountWaiting, TypeOK, Stream, Pc, Snapshot
  <2> QED BY <1>6, <2>2, <2>3, <2>4
<1>7. CASE UNCHANGED vars
  BY <1>7 DEF vars, TypeOK
<1> QED BY <1>1, <1>2, <1>3, <1>4, <1>5, <1>6, <1>7 DEF Next, StreamStep

----------------------------------------------------------------------------
\* Since the first query of d's snapshot no change of its location is on its way
\* to d, nor was one withheld from it
Undisturbed(d) ==
  /\ d \in Awaiting(Shows[d]) /\ stream[d].inbox = 0
  /\ owed[Shows[d]] = 0 /\ d \notin unheard

\* What an undisturbed stream has read is what a query would find now; what it
\* has sent likewise
ReadsAreCurrent ==
  \A d \in Display : Undisturbed(d) =>
    /\ stream[d].pc \in {"called", "waiting", "sending"}
         => stream[d].part.serving = With(Shows[d], "IN_SERVICE")
    /\ stream[d].pc \in {"waiting", "sending"}
         => stream[d].part.called = With(Shows[d], "CALLED")
    /\ stream[d].pc = "sending"
         => stream[d].part.waiting = Cardinality(With(Shows[d], "WAITING"))
    /\ stream[d].pc = "listening" => view[d] = Truth(Shows[d])

\* Rows that neither were nor are at a location change no query there
LEMMA OtherLocation ==
  ASSUME TypeOK, NEW l,
         \A t \in Ticket : rows'[t] # rows[t] =>
           rows'[t].location # l /\ (rows[t] = Absent \/ rows[t].location # l)
  PROVE  /\ \A status \in Status : With(l, status)' = With(l, status)
         /\ Truth(l)' = Truth(l)
<1>1. ASSUME NEW status \in Status
      PROVE  With(l, status)' = With(l, status)
  BY DEF With, TypeOK, Absent, Status
<1> QED BY <1>1 DEF Truth, Status

\* A committed change is owed to the displays of its location, or was withheld
\* from them; at every other location nothing has changed
LEMMA ChangeDisturbs ==
  ASSUME TypeOK, ReadsAreCurrent, UNCHANGED <<stream, view>>,
         unheard \subseteq unheard',
         \A l \in Location : owed[l] <= owed'[l], owed' \in [Location -> Nat],
         \A d \in Display : Undisturbed(d)' => \A t \in Ticket : rows'[t] # rows[t] =>
           /\ rows'[t].location # Shows[d]
           /\ rows[t] = Absent \/ rows[t].location # Shows[d]
  PROVE  ReadsAreCurrent'
<1> SUFFICES ASSUME NEW d \in Display, Undisturbed(d)'
             PROVE  ReadsAreCurrent!(d)'
  BY DEF ReadsAreCurrent
<1>1. Shows[d] \in Location
  BY ConstantsAssumption
<1>2. Undisturbed(d)
  BY <1>1 DEF Undisturbed, Awaiting, TypeOK
<1>3. /\ \A status \in Status : With(Shows[d], status)' = With(Shows[d], status)
      /\ Truth(Shows[d])' = Truth(Shows[d])
  BY OtherLocation
<1> QED BY <1>2, <1>3 DEF ReadsAreCurrent, Status

----------------------------------------------------------------------------
\* A request changes one row, which is not at any place that stays undisturbed
LEMMA RequestDisturbs ==
  ASSUME TypeOK, ReadsAreCurrent, UNCHANGED <<stream, view>>, unheard \subseteq unheard',
         NEW t \in Ticket, \A u \in Ticket \ {t} : rows'[u] = rows[u],
         NEW l \in Location, owed' = [owed EXCEPT ![l] = @ + 1],
         \A d \in Display : Undisturbed(d)' /\ Shows[d] # l =>
           /\ rows'[t].location # Shows[d]
           /\ rows[t] = Absent \/ rows[t].location # Shows[d]
  PROVE  ReadsAreCurrent'
<1>1. owed' \in [Location -> Nat] /\ (\A k \in Location : owed[k] <= owed'[k]) /\ owed'[l] # 0
  BY DEF TypeOK
<1>2. \A d \in Display : Undisturbed(d)' => Shows[d] # l
  BY <1>1 DEF Undisturbed
<1> QED BY <1>1, <1>2, ChangeDisturbs

LEMMA InvInit == Init => ReadsAreCurrent
BY DEF Init, ReadsAreCurrent, Undisturbed, Awaiting, Down

\* One step per action: changes disturb, and every query finds what is there
LEMMA InvStep ==
  ASSUME TypeOK, ReadsAreCurrent, [Next]_vars
  PROVE  ReadsAreCurrent'
<1> USE ConstantsAssumption
<1>1. ASSUME NEW t \in Ticket, NEW l \in Location, Create(t, l)
      PROVE  ReadsAreCurrent'
  <2> DEFINE row == [status |-> "WAITING", location |-> l]
  <2>1. /\ rows' = [rows EXCEPT ![t] = row] /\ UNCHANGED <<stream, view, unheard>>
        /\ owed' = [owed EXCEPT ![l] = @ + 1]
        /\ rows[t] = Absent
    BY <1>1 DEF Create, Commit
  <2>2. rows'[t].location = l /\ \A u \in Ticket \ {t} : rows'[u] = rows[u]
    BY <2>1 DEF TypeOK
  <2> QED BY <2>1, <2>2, RequestDisturbs
<1>2. ASSUME NEW t \in Ticket, NEW l \in Location, Transfer(t, l)
      PROVE  ReadsAreCurrent'
  <2> DEFINE row == [status |-> "WAITING", location |-> l]
  <2>1. /\ rows' = [rows EXCEPT ![t] = row] /\ UNCHANGED <<stream, view>>
        /\ owed' = [owed EXCEPT ![l] = @ + 1]
        /\ unheard' = IF l = rows[t].location THEN unheard
                      ELSE unheard \cup Awaiting(rows[t].location)
    BY <1>2 DEF Transfer, Commit
  <2>2. rows'[t].location = l /\ \A u \in Ticket \ {t} : rows'[u] = rows[u]
    BY <2>1 DEF TypeOK
  <2>3. \A d \in Display : Undisturbed(d)' /\ Shows[d] # l => rows[t].location # Shows[d]
    BY <2>1 DEF Undisturbed, Awaiting
  <2>4. /\ \A d \in Display : Undisturbed(d)' /\ Shows[d] # l =>
              rows'[t].location # Shows[d] /\ rows[t].location # Shows[d]
        /\ unheard \subseteq unheard' /\ UNCHANGED <<stream, view>>
        /\ owed' = [owed EXCEPT ![l] = @ + 1]
    BY <2>1, <2>2, <2>3
  <2> QED BY <2>2, <2>4, RequestDisturbs
<1>3. ASSUME NEW t \in Ticket, NEW to \in Status, Change(t, to)
      PROVE  ReadsAreCurrent'
  <2> DEFINE row == [rows[t] EXCEPT !.status = to]
             l == rows[t].location
  <2>1. /\ rows' = [rows EXCEPT ![t] = row] /\ UNCHANGED <<stream, view, unheard>>
        /\ owed' = [owed EXCEPT ![l] = @ + 1]
    BY <1>3 DEF Change, Commit
  <2>2. l \in Location /\ row.location = l
    BY <1>3, RowType DEF Change, TransitionAllowed
  <2>3. rows'[t].location = l /\ \A u \in Ticket \ {t} : rows'[u] = rows[u]
    BY <2>1, <2>2 DEF TypeOK
  <2>4. /\ \A d \in Display : Undisturbed(d)' /\ Shows[d] # l =>
              rows'[t].location # Shows[d] /\ rows[t].location # Shows[d]
        /\ unheard \subseteq unheard' /\ UNCHANGED <<stream, view>>
        /\ owed' = [owed EXCEPT ![l] = @ + 1]
    BY <2>1, <2>3
  <2>5. l \in Location
    BY <2>2
  <2>6. \A u \in Ticket \ {t} : rows'[u] = rows[u]
    BY <2>3
  <2> HIDE DEF row, l
  <2> QED BY <2>4, <2>5, <2>6, RequestDisturbs
<1>4. CASE Scan \/ AutoNoShow
  <2>1. UNCHANGED <<stream, view, owed>> /\ unheard \subseteq unheard'
    BY <1>4 DEF Scan, AutoNoShow
  <2>2. owed' \in [Location -> Nat] /\ \A k \in Location : owed[k] <= owed'[k]
    BY <2>1 DEF TypeOK
  <2>3. ASSUME NEW d \in Display, Undisturbed(d)', NEW t \in Ticket, rows'[t] # rows[t]
        PROVE  rows'[t].location # Shows[d] /\ rows[t].location # Shows[d]
    <3>1. /\ \A u \in due : TriggerAccepts(rows[u].status, "NO_SHOW")
          /\ t \in due /\ rows'[t] = [rows[t] EXCEPT !.status = "NO_SHOW"]
          /\ unheard' = unheard \cup UNION {Awaiting(rows[u].location) : u \in due}
      BY <1>4, <2>3 DEF Scan, AutoNoShow, TypeOK
    <3>2. rows[t] \in [status : Status, location : Location]
      BY <3>1, HitType
    <3>3. d \notin Awaiting(rows[t].location)
      BY <2>3, <3>1 DEF Undisturbed
    <3>4. rows[t].location # Shows[d]
      BY <2>1, <2>3, <3>3 DEF Undisturbed, Awaiting
    <3> QED BY <3>1, <3>2, <3>4
  <2> QED BY <2>1, <2>2, <2>3, ChangeDisturbs
<1>5. ASSUME NEW l \in Location, Publish(l) \/ PublishFails(l)
      PROVE  ReadsAreCurrent'
  <2> SUFFICES ASSUME NEW d \in Display, Undisturbed(d)'
               PROVE  ReadsAreCurrent!(d)'
    BY DEF ReadsAreCurrent
  <2>1. stream'[d] = stream[d]
    BY <1>5 DEF Publish, PublishFails, Undisturbed, TypeOK, Stream
  <2>2. Shows[d] # l
    BY <1>5, <2>1 DEF Publish, PublishFails, Undisturbed, Awaiting, TypeOK, Stream
  <2>3. Undisturbed(d)
    BY <1>5, <2>1, <2>2 DEF Publish, PublishFails, Undisturbed, Awaiting, TypeOK
  <2>4. UNCHANGED <<rows, view>>
    BY <1>5 DEF Publish, PublishFails
  <2>5. /\ Truth(Shows[d])' = Truth(Shows[d])
        /\ \A status : With(Shows[d], status)' = With(Shows[d], status)
    BY <2>4 DEF Truth, With
  <2> QED BY <2>1, <2>3, <2>4, <2>5 DEF ReadsAreCurrent
<1>6. ASSUME NEW e \in Display,
             Connect(e) \/ Refuse(e) \/ TakesEffect(e) \/ StreamStep(e) \/ Drop(e)
      PROVE  ReadsAreCurrent'
  <2> SUFFICES ASSUME NEW d \in Display, Undisturbed(d)'
               PROVE  ReadsAreCurrent!(d)'
    BY DEF ReadsAreCurrent
  <2>1. UNCHANGED <<rows, owed>>
    BY <1>6 DEF Connect, Refuse, TakesEffect, StreamStep, Drop, Subscribe, ReadServing,
                ReadCalled, CountWaiting, Deliver, Receive
  <2>2. /\ Truth(Shows[d])' = Truth(Shows[d])
        /\ \A status : With(Shows[d], status)' = With(Shows[d], status)
    BY <2>1 DEF Truth, With
  <2>3. CASE d # e
    <3>1. stream'[d] = stream[d] /\ view'[d] = view[d] /\ (d \in unheard' <=> d \in unheard)
      BY <1>6, <2>3 DEF Connect, Refuse, TakesEffect, Go, StreamStep, Drop, Subscribe,
                        ReadServing, ReadCalled, CountWaiting, Deliver, Receive, TypeOK
    <3> QED BY <2>1, <2>2, <3>1 DEF ReadsAreCurrent, Undisturbed, Awaiting
  <2>4. CASE d = e
    <3>1. stream[e] \in Stream
      BY DEF TypeOK
    <3>2. CASE Connect(e) \/ Refuse(e) \/ Subscribe(e) \/ Receive(e) \/ Drop(e)
      <4>1. stream'[e].pc \in {"open", "closed", "in_service", "down"}
        BY <3>1, <3>2 DEF Connect, Refuse, Subscribe, Go, Receive, Drop, Down, TypeOK, Stream
      <4> QED BY <2>4, <4>1
    <3>3. CASE TakesEffect(e)
      <4>1. /\ stream'[e].pc = stream[e].pc /\ stream'[e].inbox = stream[e].inbox
            /\ stream'[e].part = stream[e].part /\ view' = view /\ unheard' = unheard
        BY <3>1, <3>3 DEF TakesEffect, TypeOK, Stream
      <4>2. Undisturbed(e)
        BY <2>1, <2>4, <4>1 DEF Undisturbed, Awaiting
      <4> QED BY <2>2, <2>4, <4>1, <4>2 DEF ReadsAreCurrent
    <3>4. CASE ReadServing(e)
      <4>1. /\ stream'[e].pc = "called"
            /\ stream'[e].part.serving = With(Shows[e], "IN_SERVICE")
        BY <3>1, <3>4 DEF ReadServing, TypeOK, Stream, Snapshot
      <4> QED BY <2>2, <2>4, <4>1
    <3>5. CASE ReadCalled(e)
      <4>1. /\ stream'[e].pc = "waiting" /\ stream'[e].inbox = stream[e].inbox
            /\ stream'[e].part.serving = stream[e].part.serving
            /\ stream'[e].part.called = With(Shows[e], "CALLED")
            /\ stream[e].pc = "called" /\ unheard' = unheard
        BY <3>1, <3>5 DEF ReadCalled, TypeOK, Stream, Snapshot
      <4>2. Undisturbed(e)
        BY <2>1, <2>4, <4>1 DEF Undisturbed, Awaiting
      <4> QED BY <2>2, <2>4, <4>1, <4>2 DEF ReadsAreCurrent
    <3>6. CASE CountWaiting(e)
      <4>1. /\ stream'[e].pc = "sending" /\ stream'[e].inbox = stream[e].inbox
            /\ stream'[e].part.serving = stream[e].part.serving
            /\ stream'[e].part.called = stream[e].part.called
            /\ stream'[e].part.waiting = Cardinality(With(Shows[e], "WAITING"))
            /\ stream[e].pc = "waiting" /\ unheard' = unheard
        BY <3>1, <3>6 DEF CountWaiting, TypeOK, Stream, Snapshot
      <4>2. Undisturbed(e)
        BY <2>1, <2>4, <4>1 DEF Undisturbed, Awaiting
      <4> QED BY <2>2, <2>4, <4>1, <4>2 DEF ReadsAreCurrent
    <3>7. CASE Deliver(e)
      <4>1. /\ stream'[e].pc = "listening" /\ stream'[e].inbox = stream[e].inbox
            /\ view'[e] = stream[e].part
            /\ stream[e].pc = "sending" /\ unheard' = unheard
        BY <3>1, <3>7 DEF Deliver, TypeOK, Stream, Snapshot
      <4>2. Undisturbed(e)
        BY <2>1, <2>4, <4>1 DEF Undisturbed, Awaiting
      <4>3. stream[e].part = Truth(Shows[e])
        BY <3>1, <4>1, <4>2 DEF ReadsAreCurrent, Truth, Stream, Snapshot
      <4> QED BY <2>2, <2>4, <4>1, <4>3
    <3> QED BY <1>6, <3>2, <3>3, <3>4, <3>5, <3>6, <3>7 DEF StreamStep
  <2> QED BY <2>3, <2>4
<1>7. CASE UNCHANGED vars
  BY <1>7 DEF vars, ReadsAreCurrent, Undisturbed, Awaiting, Truth, With
<1> QED BY <1>1, <1>2, <1>3, <1>4, <1>5, <1>6, <1>7 DEF Next

\* Every variable of the displays and their streams has its type.
THEOREM SignageTypes == Spec => []TypeOK
BY InitType, TypeStep, PTL DEF Spec

LEMMA Invariance == Spec => []ReadsAreCurrent
<1>1. TypeOK /\ ReadsAreCurrent /\ [Next]_vars => ReadsAreCurrent'
  BY InvStep
<1> QED BY <1>1, InvInit, SignageTypes, PTL DEF Spec

\* However subscriptions, queries, commits and publishes interleave, and
\* whichever connections are lost: a display whose stream is open, and from which
\* no change was withheld since the first query of its last snapshot, shows the
\* queue as it is.
THEOREM QuietDisplaysShowTheTruth == Spec => []QuietDisplayIsCurrent
<1>1. ReadsAreCurrent => QuietDisplayIsCurrent
  BY DEF ReadsAreCurrent, QuietDisplayIsCurrent, Quiet, Undisturbed, Awaiting
<1> QED BY <1>1, Invariance, PTL

----------------------------------------------------------------------------
\* Why a display shows a customer twice

\* The step transfers no customer whom a snapshot has just listed as served,
\* before the same snapshot lists the called ones.
NoTransferWithinASnapshot ==
  \A t \in Ticket, l \in Location, d \in Display :
    stream[d].pc = "called" /\ t \in stream[d].part.serving => ~Transfer(t, l)

\* The statuses of a ticket that has been taken into service and not transferred
\* since: it is not called from there.
Past == {"IN_SERVICE", "HOLD", "COMPLETED", "CANCELED", "NO_SHOW"}

\* What a stream has read of the snapshot, and what it has sent of earlier ones,
\* lists nobody twice, and cannot become so with what is to be read.
ReadOnce ==
  \A d \in Display :
    /\ stream[d].pc = "called"
         => \A t \in stream[d].part.serving : rows[t].status \in Past
    /\ stream[d].pc \in {"waiting", "sending"}
         => stream[d].part.serving \cap stream[d].part.called = {}
    /\ view[d] # None => view[d].serving \cap view[d].called = {}

\* Only a transfer takes a ticket out of the statuses of Past.
LEMMA PastIsClosed ==
  ASSUME TypeOK, [Next]_vars, NEW t \in Ticket, rows[t].status \in Past,
         \A l \in Location : ~Transfer(t, l)
  PROVE  rows'[t].status \in Past
<1>1. ASSUME NEW u \in Ticket, NEW l \in Location, Create(u, l) \/ Transfer(u, l)
      PROVE  rows'[t].status \in Past
  <2>1. t # u
    BY <1>1 DEF Create, Past, Absent
  <2> QED BY <1>1, <2>1 DEF Create, Transfer, Commit, TypeOK
<1>2. ASSUME NEW u \in Ticket, NEW to \in Status, Change(u, to)
      PROVE  rows'[t].status \in Past
  <2>1. CASE u = t
    <3>1. to \in Past
      BY <1>2, <2>1 DEF Change, TransitionAllowed, ValidTransitions, ValidTransition, Past
    <3>2. rows[t] \in [status : Status, location : Location]
      BY RowType DEF Past, Status
    <3> QED BY <1>2, <2>1, <3>1, <3>2 DEF Change, Commit, TypeOK
  <2>2. CASE u # t
    BY <1>2, <2>2 DEF Change, Commit, TypeOK
  <2> QED BY <2>1, <2>2
<1>3. CASE AutoNoShow
  <2>1. \/ rows'[t] = rows[t]
        \/ rows'[t] = [rows[t] EXCEPT !.status = "NO_SHOW"]
    BY <1>3 DEF AutoNoShow
  <2>2. rows[t] \in [status : Status, location : Location]
    BY RowType DEF Past, Status
  <2> QED BY <2>1, <2>2 DEF Past
<1>4. CASE rows' = rows
  BY <1>4
<1>5. ASSUME NEW d \in Display,
             Connect(d) \/ Refuse(d) \/ TakesEffect(d) \/ StreamStep(d) \/ Drop(d)
      PROVE  rows' = rows
  BY <1>5 DEF Connect, Refuse, TakesEffect, StreamStep, Drop, Subscribe, ReadServing,
              ReadCalled, CountWaiting, Deliver, Receive
<1> QED BY <1>1, <1>2, <1>3, <1>4, <1>5 DEF Next, Scan, Publish, PublishFails, vars

LEMMA ReadOnceStep ==
  ASSUME TypeOK, ReadOnce, [Next]_vars, [NoTransferWithinASnapshot]_vars
  PROVE  ReadOnce'
<1> SUFFICES ASSUME NEW d \in Display
             PROVE  ReadOnce!(d)'
  BY DEF ReadOnce
<1>1. ReadOnce!(d) /\ stream[d] \in Stream
  BY DEF ReadOnce, TypeOK
<1>2. ASSUME stream'[d].pc = stream[d].pc, stream'[d].part = stream[d].part,
             view'[d] = view[d]
      PROVE  ReadOnce!(d)'
  <2>1. ASSUME stream[d].pc = "called", NEW t \in stream[d].part.serving
        PROVE  rows'[t].status \in Past
    <3>1. t \in Ticket /\ rows[t].status \in Past
      BY <1>1, <2>1 DEF Stream, Snapshot
    <3>2. CASE UNCHANGED vars
      BY <3>1, <3>2 DEF vars
    <3>3. CASE NoTransferWithinASnapshot
      <4>1. \A l \in Location : ~Transfer(t, l)
        BY <2>1, <3>1, <3>3 DEF NoTransferWithinASnapshot
      <4> QED BY <3>1, <4>1, PastIsClosed
    <3> QED BY <3>2, <3>3
  <2> QED BY <1>1, <1>2, <2>1
<1>3. ASSUME NEW e \in Display,
             Connect(e) \/ Refuse(e) \/ TakesEffect(e) \/ StreamStep(e) \/ Drop(e)
      PROVE  ReadOnce!(d)'
  <2>1. CASE d # e
    <3>1. stream'[d] = stream[d] /\ view'[d] = view[d]
      BY <1>3, <2>1 DEF Connect, Refuse, TakesEffect, Go, StreamStep, Drop, Subscribe,
                        ReadServing, ReadCalled, CountWaiting, Deliver, Receive, TypeOK
    <3> QED BY <1>2, <3>1
  <2>2. CASE d = e
    <3>1. CASE Connect(e) \/ Refuse(e) \/ Subscribe(e) \/ Receive(e) \/ Drop(e)
      <4>1. /\ stream'[d].pc \in {"down", "closed", "open", "in_service"}
            /\ view'[d] = view[d]
        BY <1>1, <2>2, <3>1
           DEF Connect, Refuse, Go, Subscribe, Receive, Drop, Down, TypeOK, Stream
      <4> QED BY <1>1, <4>1
    <3>6. CASE TakesEffect(e)
      <4>1. /\ stream'[d].pc = stream[d].pc /\ stream'[d].part = stream[d].part
            /\ view'[d] = view[d]
        BY <1>1, <2>2, <3>6 DEF TakesEffect, TypeOK, Stream
      <4> QED BY <1>2, <4>1
    <3>2. CASE ReadServing(e)
      <4>1. /\ stream'[d].pc = "called" /\ view'[d] = view[d] /\ rows' = rows
            /\ stream'[d].part.serving = With(Shows[d], "IN_SERVICE")
        BY <1>1, <2>2, <3>2 DEF ReadServing, TypeOK, Stream, Snapshot
      <4> QED BY <1>1, <4>1 DEF With, Past
    <3>3. CASE ReadCalled(e)
      <4>1. /\ stream[d].pc = "called" /\ stream'[d].pc = "waiting" /\ view'[d] = view[d]
            /\ stream'[d].part.serving = stream[d].part.serving
            /\ stream'[d].part.called = With(Shows[d], "CALLED")
        BY <1>1, <2>2, <3>3 DEF ReadCalled, TypeOK, Stream, Snapshot
      <4> QED BY <1>1, <4>1 DEF With, Past
    <3>4. CASE CountWaiting(e)
      <4>1. /\ stream[d].pc = "waiting" /\ stream'[d].pc = "sending" /\ view'[d] = view[d]
            /\ stream'[d].part.serving = stream[d].part.serving
            /\ stream'[d].part.called = stream[d].part.called
        BY <1>1, <2>2, <3>4 DEF CountWaiting, TypeOK, Stream, Snapshot
      <4> QED BY <1>1, <4>1
    <3>5. CASE Deliver(e)
      <4>1. /\ stream[d].pc = "sending" /\ stream'[d].pc = "listening"
            /\ view'[d] = stream[d].part
        BY <1>1, <2>2, <3>5 DEF Deliver, TypeOK, Stream, Snapshot
      <4> QED BY <1>1, <4>1
    <3> QED BY <1>3, <3>1, <3>2, <3>3, <3>4, <3>5, <3>6 DEF StreamStep
  <2> QED BY <2>1, <2>2
<1>4. ASSUME NEW l \in Location, Publish(l) \/ PublishFails(l)
      PROVE  ReadOnce!(d)'
  <2>1. /\ stream'[d].pc = stream[d].pc /\ stream'[d].part = stream[d].part
        /\ view'[d] = view[d]
    BY <1>1, <1>4 DEF Publish, PublishFails, Stream
  <2> QED BY <1>2, <2>1
<1>5. CASE UNCHANGED <<stream, view>>
  BY <1>2, <1>5
<1> QED BY <1>3, <1>4, <1>5 DEF Next, Create, Change, Transfer, Scan, AutoNoShow, Commit, vars

\* The README's point-in-time snapshot fails for one reason only: unless a
\* customer is transferred between the first query of a snapshot, which lists
\* it as served, and the second, no display ever shows a customer twice.
THEOREM ShownOnceWithoutTransfer ==
  Spec /\ [][NoTransferWithinASnapshot]_vars => []ShownOnce
<1>1. Init => ReadOnce
  BY DEF Init, ReadOnce, Down
<1>2. TypeOK /\ ReadOnce /\ [Next]_vars /\ [NoTransferWithinASnapshot]_vars => ReadOnce'
  BY ReadOnceStep
<1>3. ReadOnce => ShownOnce
  BY DEF ReadOnce, ShownOnce
<1> QED BY <1>1, <1>2, <1>3, SignageTypes, PTL DEF Spec
=============================================================================

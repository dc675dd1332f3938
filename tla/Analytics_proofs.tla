-------------------------- MODULE Analytics_proofs --------------------------
(***************************************************************************)
(* Proofs about Analytics: the order of a ticket's stamps, that the        *)
(* queries of one summary fit together, and that figures computed in two   *)
(* ways are the same.                                                      *)
(***************************************************************************)
EXTENDS Analytics, FiniteSetTheorems, TLAPS

LEMMA TimeIsNat == Time \subseteq Nat /\ None \notin Time /\ 0 \in Time
BY ConstantsAssumption DEF Time

\* A period's tickets are finitely many
LEMMA InWindowFinite ==
  ASSUME NEW S, S \in SUBSET Ticket
  PROVE  IsFiniteSet(S) /\ Cardinality(S) \in Nat
BY ConstantsAssumption, FS_Subset, FS_CardinalityType

LEMMA CardinalityGrows ==
  ASSUME NEW S, NEW T, S \subseteq T, T \subseteq Ticket
  PROVE  Cardinality(S) <= Cardinality(T)
BY InWindowFinite, FS_Subset

\* Tickets in two groups that share none are as many as both together
LEMMA DisjointAddUp ==
  ASSUME NEW S \in SUBSET Ticket, NEW T \in SUBSET Ticket, S \cap T = {}
  PROVE  Cardinality(S \cup T) = Cardinality(S) + Cardinality(T)
<1>1. /\ IsFiniteSet(S) /\ IsFiniteSet(T)
      /\ Cardinality(S) \in Nat /\ Cardinality(T) \in Nat
  BY InWindowFinite
<1>2. Cardinality(S \cup T) = Cardinality(S) + Cardinality(T) - Cardinality({})
  BY <1>1, FS_Union
<1> QED BY <1>1, <1>2, FS_EmptySet

----------------------------------------------------------------------------
LEMMA InitType == Init => TypeOK
<1>1. NoReport.window = None /\ NoReport \in
        [window : Window \cup {None}, done : 0..3, completed : Nat, waits : Nat, services : Nat]
  BY DEF NoReport
<1> QED BY <1>1, TimeIsNat, ConstantsAssumption DEF Init, TypeOK, Idle, Queries, Time

\* The row a write leaves
LEMMA StampedRow ==
  ASSUME NEW row \in Row, NEW to \in Status, NEW at \in Time
  PROVE  /\ Stamped(row, to, at) \in Row
         /\ Stamped(row, to, at).status = IF to = "TRANSFERRED" THEN "WAITING" ELSE to
         /\ Stamped(row, to, at).created = row.created
         /\ Stamped(row, to, at).called = row.called
         /\ Stamped(row, to, at).started = IF to = "IN_SERVICE" THEN at ELSE row.started
         /\ Stamped(row, to, at).completed = IF to \in Terminal THEN at ELSE row.completed
<1> DEFINE r == Stamped(row, to, at)
<1>1. r.status = IF to = "TRANSFERRED" THEN "WAITING" ELSE to
  BY DEF Stamped, Row
<1>2. r.created = row.created /\ r.called = row.called
  BY DEF Stamped, Row
<1>3. r.started = IF to = "IN_SERVICE" THEN at ELSE row.started
  BY DEF Stamped, Row
<1>4. r.completed = IF to \in Terminal THEN at ELSE row.completed
  BY DEF Stamped, Row
<1>5. r.status \in Status
  BY <1>1 DEF Status
<1>6. r.started \in Time \cup {None} /\ r.completed \in Time \cup {None}
  BY <1>3, <1>4 DEF Row
<1>7. r = [row EXCEPT !.status = r.status, !.started = r.started, !.completed = r.completed]
  BY DEF Stamped, Row
<1> HIDE DEF r
<1>8. r \in Row
  BY <1>5, <1>6, <1>7 DEF Row
<1> QED BY <1>1, <1>2, <1>3, <1>4, <1>8 DEF r

\* No status is accepted for a row that is not there
LEMMA AbsentRefuses ==
  ASSUME NEW t \in Ticket, TypeOK, NEW to \in Status,
         TransitionAllowed(rows[t].status, to) \/ TriggerAccepts(rows[t].status, to)
  PROVE  rows[t] \in Row /\ rows[t] # Absent
BY DEF TypeOK, Absent, TransitionAllowed, TriggerAccepts, Status, Row

\* A request of a session in progress
LEMMA Writing ==
  ASSUME TypeOK, NEW s \in Session,
         \A q \in Session : tx[q].to \notin {None, "WAITING", "CALLED"} => tx[q].ticket \in Ticket,
         Write(s)
  PROVE  /\ tx[s].to \in Status /\ tx[s].at \in Time /\ tx[s].ticket \in Ticket
         /\ tx[s].to \notin {None, "WAITING", "CALLED"}
BY DEF TypeOK, Write

\* Every request knows its ticket; one that creates has it to itself; and create
\* and call-next have their stamp from the beginning
Claims ==
  \A s \in Session :
    /\ tx[s].to \in {"WAITING", "CALLED"} => tx[s].at # None
    /\ tx[s].to \in {None, "CALLED"} => tx[s].ticket = None
    /\ tx[s].to \notin {None, "CALLED"} => tx[s].ticket \in Ticket
    /\ tx[s].to = "WAITING" =>
         /\ rows[tx[s].ticket] = Absent
         /\ \A q \in Session \ {s} : tx[q].ticket # tx[s].ticket

LEMMA TypeStep ==
  ASSUME TypeOK, Claims, [Next]_vars
  PROVE  TypeOK'
<1> USE TimeIsNat
<1> DEFINE Report == [window : Window \cup {None}, done : 0..3, completed : Nat,
                      waits : Nat, services : Nat]
<1>r. Len(Queries) = 3 /\ Report = [window : Window \cup {None}, done : 0..Len(Queries),
                                    completed : Nat, waits : Nat, services : Nat]
  BY DEF Queries
<1>1. CASE Tick
  BY <1>1, ConstantsAssumption DEF Tick, TypeOK, Time
<1>2. ASSUME NEW s \in Session, NEW to \in Status, NEW t \in Ticket \cup {None}, Begin(s, to, t)
      PROVE  TypeOK'
  BY <1>2 DEF Begin, TypeOK
<1>9. ASSUME NEW s \in Session, Stamp(s)
      PROVE  TypeOK'
  <2>1. PICK c \in Time : tx' = [tx EXCEPT ![s].at = c]
    BY <1>9 DEF Stamp
  <2> QED BY <1>9, <2>1 DEF Stamp, TypeOK
<1>3. ASSUME NEW s \in Session, NEW t \in Ticket, Call(s, t)
      PROVE  TypeOK'
  <2> DEFINE row == [rows[t] EXCEPT !.status = "CALLED", !.called = tx[s].at]
  <2>1. rows[t] \in Row /\ tx[s].at \in Time
    BY <1>3 DEF Call, TypeOK, Absent, Claims
  <2>2. row \in Row
    BY <2>1 DEF Row, Status
  <2>3. rows' = [rows EXCEPT ![t] = row]
    BY <1>3 DEF Call, TypeOK
  <2>4. Idle \in [to : Status \cup {None}, ticket : Ticket \cup {None}, at : Time \cup {None}]
    BY DEF Idle
  <2> QED BY <1>3, <2>2, <2>3, <2>4 DEF Call, TypeOK
<1>4. ASSUME NEW s \in Session, NEW to \in Status, NEW t \in Ticket, Load(s, to, t)
      PROVE  TypeOK'
  BY <1>4 DEF Load, TypeOK
<1>5. ASSUME NEW s \in Session, Create(s)
      PROVE  TypeOK'
  <2>1. tx[s].ticket \in Ticket /\ tx[s].at \in Time
    BY <1>5, ConstantsAssumption DEF Create, Claims, TypeOK, Status
  <2>2. [status |-> "WAITING", created |-> tx[s].at, called |-> None, started |-> None,
         completed |-> None] \in Row
    BY <2>1 DEF Row, Status
  <2>3. Idle \in [to : Status \cup {None}, ticket : Ticket \cup {None}, at : Time \cup {None}]
    BY DEF Idle
  <2> QED BY <1>5, <2>1, <2>2, <2>3 DEF Create, TypeOK
<1>6. ASSUME NEW s \in Session, Write(s)
      PROVE  TypeOK'
  <2>1. tx[s].to \in Status /\ tx[s].at \in Time /\ tx[s].ticket \in Ticket
    BY <1>6, Writing DEF Claims
  <2>2. Idle \in [to : Status \cup {None}, ticket : Ticket \cup {None}, at : Time \cup {None}]
    BY DEF Idle
  <2>3. ASSUME TriggerAccepts(rows[tx[s].ticket].status, tx[s].to)
        PROVE  Stamped(rows[tx[s].ticket], tx[s].to, tx[s].at) \in Row
    BY <2>1, <2>3, AbsentRefuses, StampedRow
  <2> QED BY <1>6, <2>1, <2>2, <2>3 DEF Write, TypeOK
<1>7. CASE (\E w \in Asked : BeginReport(w)) \/ RunQuery \/ EndReport
  <2>1. report \in Report /\ UNCHANGED <<now, rows, tx, moved, restarted>>
    BY <1>7, <1>r DEF TypeOK, BeginReport, RunQuery, EndReport
  <2>2. report' \in Report
    <3>1. NoReport \in Report
      BY DEF NoReport
    <3>2. ASSUME NEW w \in Asked, BeginReport(w)
          PROVE  report' \in Report
      <4>1. w \in Window
        BY <3>2, ConstantsAssumption DEF BeginReport, Window, Time
      <4> QED BY <3>1, <3>2, <4>1 DEF BeginReport
    <3>3. CASE RunQuery
      <4>1. /\ Cardinality(Having(InWindow(report.window), "COMPLETED")) \in Nat
            /\ Cardinality(Called(InWindow(report.window))) \in Nat
            /\ Cardinality(Served(InWindow(report.window))) \in Nat
        BY InWindowFinite DEF Having, Called, Served, InWindow
      <4>2. report.done \in 0..2
        BY <2>1, <3>3, <1>r DEF RunQuery
      <4>3. /\ Counts(report.window).completed \in Nat
            /\ AvgWait(report.window).n \in Nat /\ AvgService(report.window).n \in Nat
        BY <4>1 DEF Counts, AvgWait, AvgService, Avg
      <4> DEFINE c == IF Queries[report.done + 1] = "counts" THEN Counts(report.window).completed
                      ELSE report.completed
                 a == IF Queries[report.done + 1] = "wait" THEN AvgWait(report.window).n
                      ELSE report.waits
                 b == IF Queries[report.done + 1] = "service" THEN AvgService(report.window).n
                      ELSE report.services
      <4>4. c \in Nat /\ a \in Nat /\ b \in Nat
        BY <2>1, <4>3
      <4>5. report' = [report EXCEPT !.done = @ + 1, !.completed = c, !.waits = a, !.services = b]
        BY <3>3 DEF RunQuery
      <4> HIDE DEF c, a, b
      <4>6. report' = [window |-> report.window, done |-> report.done + 1, completed |-> c,
                       waits |-> a, services |-> b]
        BY <2>1, <4>5
      <4>7. report.window \in Window \cup {None} /\ report.done + 1 \in 0..3
        BY <2>1, <4>2
      <4> QED BY <4>4, <4>6, <4>7
    <3> QED BY <1>7, <3>1, <3>2, <3>3 DEF EndReport
  <2> QED BY <2>1, <2>2, <1>r DEF TypeOK
<1>8. CASE UNCHANGED vars
  BY <1>8 DEF vars, TypeOK
<1> QED BY <1>1, <1>2, <1>3, <1>4, <1>5, <1>6, <1>7, <1>8, <1>9
        DEF Next, BeginCreate, BeginCall, Status

----------------------------------------------------------------------------
LEMMA InitClaims == Init => Claims
BY ConstantsAssumption DEF Init, Claims, Idle, Status

LEMMA ClaimsStep ==
  ASSUME TypeOK, Claims, [Next]_vars
  PROVE  Claims'
<1> USE ConstantsAssumption, TimeIsNat
<1>1. CASE UNCHANGED <<rows, tx>>
  BY <1>1 DEF Claims
<1>2. ASSUME NEW s \in Session, BeginCall(s)
      PROVE  Claims'
  BY <1>2 DEF BeginCall, Begin, Claims, TypeOK, Idle, Status
<1>3. ASSUME NEW s \in Session, NEW t \in Ticket, BeginCreate(s, t)
      PROVE  Claims'
  BY <1>3 DEF BeginCreate, Begin, Claims, TypeOK, Idle, Status
<1>4. ASSUME NEW s \in Session, NEW t \in Ticket, NEW to \in Status, Load(s, to, t)
      PROVE  Claims'
  <2>1. rows[t] # Absent
    BY <1>4, AbsentRefuses DEF Load
  <2>2. \A q \in Session : q # s => tx'[q] = tx[q]
    BY <1>4 DEF Load, TypeOK
  <2>3. tx'[s].to = to /\ tx'[s].ticket = t /\ to \notin {None, "WAITING", "CALLED"}
    BY <1>4 DEF Load, TypeOK
  <2>4. rows' = rows
    BY <1>4 DEF Load
  <2> QED BY <2>1, <2>2, <2>3, <2>4 DEF Claims
<1>7. ASSUME NEW s \in Session, Stamp(s)
      PROVE  Claims'
  <2>1. /\ rows' = rows /\ \A q \in Session \ {s} : tx'[q] = tx[q]
        /\ tx'[s].to = tx[s].to /\ tx'[s].ticket = tx[s].ticket
        /\ tx[s].to \notin {"WAITING", "CALLED"}
    BY <1>7 DEF Stamp, TypeOK
  <2> QED BY <2>1 DEF Claims
<1>5. ASSUME NEW s \in Session, Create(s)
      PROVE  Claims'
  <2>1. /\ \A q \in Session \ {s} : tx'[q] = tx[q] /\ tx[q].ticket # tx[s].ticket
        /\ tx'[s] = Idle /\ Idle.to = None /\ Idle.ticket = None
    BY <1>5 DEF Create, Claims, TypeOK, Idle, Status
  <2>2. \A t \in Ticket \ {tx[s].ticket} : rows'[t] = rows[t]
    BY <1>5 DEF Create, TypeOK
  <2>3. \A q \in Session \ {s} : tx[q].to = "WAITING" => tx[q].ticket \in Ticket
    BY DEF Claims, Status
  <2> QED BY <2>1, <2>2, <2>3 DEF Claims, Status
<1>6. ASSUME NEW s \in Session,
             (\E t \in Ticket : Call(s, t)) \/ Write(s)
      PROVE  Claims'
  <2>1. tx' = [tx EXCEPT ![s] = Idle] /\ Idle.to = None /\ Idle.ticket = None
    BY <1>6 DEF Call, Write, Idle
  <2>2. /\ tx'[s] = Idle
        /\ \A q \in Session \ {s} : tx'[q] = tx[q]
    BY <2>1 DEF TypeOK
  <2>3. \A t \in Ticket : rows[t] = Absent => rows'[t] = Absent
    <3>1. CASE \E t \in Ticket : Call(s, t)
      BY <3>1 DEF Call, Absent, TypeOK
    <3>2. CASE Write(s)
      <4>1. tx[s].ticket \in Ticket /\ tx[s].to \in Status
        BY <3>2, Writing DEF Claims
      <4>2. rows[tx[s].ticket] = Absent => rows' = rows
        BY <3>2, <4>1, AbsentRefuses DEF Write
      <4> QED BY <3>2, <4>1, <4>2 DEF Write, TypeOK
    <3> QED BY <1>6, <3>1, <3>2
  <2>4. \A q \in Session \ {s} : tx[q].to = "WAITING" => tx[q].ticket \in Ticket
    BY DEF Claims, Status
  <2> QED BY <2>1, <2>2, <2>3, <2>4 DEF Claims, Status
<1> QED BY <1>1, <1>2, <1>3, <1>4, <1>5, <1>6, <1>7
        DEF Next, Tick, BeginReport, RunQuery, EndReport, vars

----------------------------------------------------------------------------
\* No stamp of the database is in the future, and none of an application by more
\* than the clocks differ
PastStamps ==
  /\ \A s \in Session : tx[s].at # None =>
       tx[s].at <= now + IF tx[s].to \in {"WAITING", "CALLED"} THEN 0 ELSE Skew
  /\ \A t \in Ticket :
       /\ rows[t].called # None => rows[t].called <= now
       /\ rows[t].started # None => rows[t].started <= now + Skew

\* The stamps that a status comes with
StatusStamps ==
  \A t \in Ticket :
    /\ rows[t].status \in {"CALLED", "IN_SERVICE", "COMPLETED"} => rows[t].called # None
    /\ rows[t].status \in {"IN_SERVICE", "COMPLETED"} => rows[t].started # None

\* Of a ticket that was never transferred: its stamps, and those on their way
Ordered(t) ==
  LET row == rows[t]
      Pending(to) == {s \in Session : tx[s].to = to /\ tx[s].ticket = t}
  IN /\ row.status = "WAITING" => row.called = None
     /\ row.called = None \/ row.status = "CALLED" => row.started = None
     /\ row.started # None => row.called <= row.started + Skew
     /\ row.status = "COMPLETED" =>
          /\ row.called <= row.completed + Skew
          /\ t \notin restarted => row.started <= row.completed + 2 * Skew
     /\ \A s \in Pending("IN_SERVICE") :
          /\ row.called # None
          /\ tx[s].at # None => row.called <= tx[s].at + Skew
     /\ \A s \in Pending("COMPLETED") :
          /\ row.started # None
          /\ tx[s].at # None =>
               /\ row.called <= tx[s].at + Skew
               /\ t \notin restarted => row.started <= tx[s].at + 2 * Skew

UnmovedAreOrdered == \A t \in Ticket \ moved : Ordered(t)

\* The answers of a summary's queries so far cover its completions
ReportCovers ==
  LET Completed == Having(InWindow(report.window), "COMPLETED")
  IN /\ report.done >= 1 => report.completed <= Cardinality(Completed)
     /\ report.done >= 2 => report.completed <= report.waits
     /\ report.done = 3 => report.completed <= report.services

Inv == /\ CompletedAtMeansTerminal /\ PastStamps /\ StatusStamps
       /\ UnmovedAreOrdered /\ ReportCovers

LEMMA InitInv == Init => Inv
<1> SUFFICES ASSUME Init PROVE Inv
  OBVIOUS
<1>1. CompletedAtMeansTerminal /\ PastStamps /\ StatusStamps
  BY ConstantsAssumption DEF Init, CompletedAtMeansTerminal, PastStamps, StatusStamps, Absent, Idle
<1>2. UnmovedAreOrdered
  BY ConstantsAssumption DEF Init, UnmovedAreOrdered, Ordered, Absent, Idle, Status
<1>3. ReportCovers
  BY DEF Init, ReportCovers, NoReport
<1> QED BY <1>1, <1>2, <1>3 DEF Inv

\* Where the requests that are loaded come from
LEMMA Sources ==
  ASSUME NEW from, NEW to, TransitionAllowed(from, to)
  PROVE  /\ to = "IN_SERVICE" => from = "CALLED"
         /\ to = "COMPLETED" => from = "IN_SERVICE"
BY DEF TransitionAllowed, ValidTransitions, ValidTransition

\* What the trigger lets through
LEMMA Accepted ==
  ASSUME NEW from, NEW to, TriggerAccepts(from, to)
  PROVE  /\ to = "IN_SERVICE" => from \in {"CALLED", "IN_SERVICE"}
         /\ to = "COMPLETED" => from \in {"IN_SERVICE", "COMPLETED"}
         /\ to \notin Terminal => from \notin Terminal
         /\ from = "COMPLETED" => to = "COMPLETED"
         /\ to = "TRANSFERRED" => from \in {"IN_SERVICE", "TRANSFERRED"}
BY DEF TriggerAccepts, Terminal

\* What a write changes, if the trigger lets it
LEMMA WriteEffect ==
  ASSUME TypeOK, Claims, NEW s \in Session, Write(s), rows' # rows
  PROVE  LET t == tx[s].ticket
             to == tx[s].to
         IN /\ t \in Ticket /\ to \in Status \ {"WAITING", "CALLED"}
            /\ tx[s].at \in Time /\ rows[t] \in Row /\ rows'[t] \in Row
            /\ TriggerAccepts(rows[t].status, to)
            /\ \A u \in Ticket \ {t} : rows'[u] = rows[u]
            /\ rows'[t].status = IF to = "TRANSFERRED" THEN "WAITING" ELSE to
            /\ rows'[t].created = rows[t].created
            /\ rows'[t].called = rows[t].called
            /\ rows'[t].started = IF to = "IN_SERVICE" THEN tx[s].at ELSE rows[t].started
            /\ rows'[t].completed = IF to \in Terminal THEN tx[s].at ELSE rows[t].completed
            /\ moved' = IF to = "TRANSFERRED" THEN moved \cup {t} ELSE moved
            /\ restarted' = IF to = "IN_SERVICE" /\ rows[t].status = "IN_SERVICE"
                            THEN restarted \cup {t} ELSE restarted
<1> DEFINE t == tx[s].ticket
           to == tx[s].to
<1>1. t \in Ticket /\ to \in Status \ {"WAITING", "CALLED"} /\ tx[s].at \in Time
  BY Writing DEF Claims
<1>2. /\ TriggerAccepts(rows[t].status, to)
      /\ rows' = [rows EXCEPT ![t] = Stamped(rows[t], to, tx[s].at)]
      /\ moved' = IF to = "TRANSFERRED" THEN moved \cup {t} ELSE moved
      /\ restarted' = IF to = "IN_SERVICE" /\ rows[t].status = "IN_SERVICE"
                      THEN restarted \cup {t} ELSE restarted
  BY DEF Write
<1>3. rows[t] \in Row
  BY <1>1, <1>2, AbsentRefuses
<1>4. rows'[t] = Stamped(rows[t], to, tx[s].at) /\ \A u \in Ticket \ {t} : rows'[u] = rows[u]
  BY <1>1, <1>2 DEF TypeOK
<1> QED BY <1>1, <1>2, <1>3, <1>4, StampedRow

LEMMA CompletedAtStep ==
  ASSUME TypeOK, Claims, CompletedAtMeansTerminal, [Next]_vars
  PROVE  CompletedAtMeansTerminal'
<1> USE ConstantsAssumption
<1>1. CASE rows' = rows
  BY <1>1 DEF CompletedAtMeansTerminal
<1>2. ASSUME NEW s \in Session, Create(s)
      PROVE  CompletedAtMeansTerminal'
  BY <1>2 DEF Create, CompletedAtMeansTerminal, TypeOK, Terminal
<1>3. ASSUME NEW s \in Session, NEW t \in Ticket, Call(s, t)
      PROVE  CompletedAtMeansTerminal'
  <2>1. rows[t] # Absent
    BY <1>3 DEF Call, Absent
  <2> QED BY <1>3, <2>1 DEF Call, CompletedAtMeansTerminal, TypeOK, Terminal
<1>4. ASSUME NEW s \in Session, Write(s), rows' # rows
      PROVE  CompletedAtMeansTerminal'
  <2>1. rows[tx[s].ticket] # Absent /\ tx[s].at # None
    BY <1>4, WriteEffect, AbsentRefuses, TimeIsNat
  <2> QED BY <1>4, <2>1, WriteEffect, Accepted DEF CompletedAtMeansTerminal, Terminal
<1> QED BY <1>1, <1>2, <1>3, <1>4 DEF Next, Tick, BeginCreate, BeginCall, Begin, Load, Stamp, vars,
                                   BeginReport, RunQuery, EndReport

\* The numbers among the stamps
LEMMA StampsAreNumbers ==
  ASSUME TypeOK
  PROVE  /\ now \in Nat /\ Skew \in Nat /\ None \notin Nat
         /\ \A s \in Session : tx[s].at \in Nat \cup {None}
         /\ \A t \in Ticket : /\ rows[t].called \in Nat \cup {None}
                              /\ rows[t].started \in Nat \cup {None}
                              /\ rows[t].completed \in Nat \cup {None}
<1>1. now \in Nat /\ Skew \in Nat /\ None \notin Nat
  BY ConstantsAssumption, TimeIsNat DEF TypeOK
<1>2. \A s \in Session : tx[s].at \in Nat \cup {None}
  BY TimeIsNat DEF TypeOK
<1>3. ASSUME NEW t \in Ticket
      PROVE  /\ rows[t].called \in Time \cup {None} /\ rows[t].started \in Time \cup {None}
             /\ rows[t].completed \in Time \cup {None}
  <2>1. CASE rows[t] = Absent
    BY <2>1 DEF Absent
  <2>2. CASE rows[t] \in Row
    BY <2>2 DEF Row
  <2> QED BY <2>1, <2>2 DEF TypeOK
<1> QED BY <1>1, <1>2, <1>3, TimeIsNat

LEMMA PastStep ==
  ASSUME TypeOK, Claims, PastStamps, [Next]_vars
  PROVE  PastStamps'
<1> USE StampsAreNumbers
<1>1. CASE Tick
  <2>1. now' = now + 1 /\ UNCHANGED <<rows, tx>>
    BY <1>1 DEF Tick
  <2> QED BY <2>1 DEF PastStamps
<1>2. ASSUME NEW s \in Session, NEW to \in {"WAITING", "CALLED"}, NEW t, Begin(s, to, t)
      PROVE  PastStamps'
  <2>1. tx'[s].to = to /\ tx'[s].at = now /\ \A q \in Session \ {s} : tx'[q] = tx[q]
    BY <1>2 DEF Begin, TypeOK
  <2>2. now' = now /\ rows' = rows
    BY <1>2 DEF Begin
  <2> QED BY <2>1, <2>2 DEF PastStamps
<1>3. ASSUME NEW s \in Session, NEW to, NEW t, Load(s, to, t)
      PROVE  PastStamps'
  <2>1. tx'[s].at = None /\ \A q \in Session \ {s} : tx'[q] = tx[q]
    BY <1>3 DEF Load, TypeOK
  <2>2. now' = now /\ rows' = rows
    BY <1>3 DEF Load
  <2> QED BY <2>1, <2>2 DEF PastStamps
<1>7. ASSUME NEW s \in Session, Stamp(s)
      PROVE  PastStamps'
  <2>1. /\ tx'[s].to = tx[s].to /\ tx[s].to \notin {"WAITING", "CALLED"}
        /\ tx'[s].at <= now + Skew /\ \A q \in Session \ {s} : tx'[q] = tx[q]
    BY <1>7 DEF Stamp, TypeOK
  <2>2. now' = now /\ rows' = rows
    BY <1>7 DEF Stamp
  <2> QED BY <2>1, <2>2 DEF PastStamps
<1>4. ASSUME NEW s \in Session, Create(s) \/ (\E t \in Ticket : Call(s, t))
      PROVE  PastStamps'
  <2>0. now' = now /\ tx' = [tx EXCEPT ![s] = Idle]
    BY <1>4 DEF Create, Call
  <2>1. now' = now /\ tx'[s].at = None /\ \A q \in Session \ {s} : tx'[q] = tx[q]
    BY <2>0 DEF Idle, TypeOK
  <2>2. CASE Create(s)
    BY <2>1, <2>2 DEF Create, PastStamps, TypeOK
  <2>3. ASSUME NEW t \in Ticket, Call(s, t)
        PROVE  PastStamps'
    <3>1. /\ rows'[t].called = tx[s].at /\ rows'[t].started = rows[t].started
          /\ \A u \in Ticket \ {t} : rows'[u] = rows[u]
      BY <2>3 DEF Call, TypeOK
    <3>2. tx[s].to = "CALLED" /\ tx[s].at # None
      BY <2>3 DEF Call, Claims
    <3>3. tx[s].at <= now
      BY <3>2 DEF PastStamps
    <3> QED BY <2>1, <3>1, <3>3 DEF PastStamps
  <2> QED BY <1>4, <2>2, <2>3
<1>5. ASSUME NEW s \in Session, Write(s)
      PROVE  PastStamps'
  <2>1. /\ now' = now /\ tx'[s].at = None /\ \A q \in Session \ {s} : tx'[q] = tx[q]
        /\ tx[s].at # None
    BY <1>5 DEF Write, Idle, TypeOK
  <2>2. \A t \in Ticket : rows' # rows =>
          /\ rows'[t].called = rows[t].called
          /\ rows'[t].started \in {rows[t].started, tx[s].at}
    BY <1>5, WriteEffect
  <2>3. tx[s].at <= now + Skew
    BY <2>1 DEF PastStamps
  <2> QED BY <2>1, <2>2, <2>3 DEF PastStamps
<1>6. CASE UNCHANGED <<now, rows, tx>>
  BY <1>6 DEF PastStamps
<1> QED BY <1>1, <1>2, <1>3, <1>4, <1>5, <1>6, <1>7 DEF Next, BeginCreate, BeginCall, vars,
                                               BeginReport, RunQuery, EndReport

LEMMA StatusStep ==
  ASSUME TypeOK, Claims, StatusStamps, [Next]_vars
  PROVE  StatusStamps'
<1> USE TimeIsNat
<1>1. CASE rows' = rows
  BY <1>1 DEF StatusStamps
<1>2. ASSUME NEW s \in Session, Create(s)
      PROVE  StatusStamps'
  BY <1>2 DEF Create, StatusStamps, TypeOK
<1>3. ASSUME NEW s \in Session, NEW t \in Ticket, Call(s, t)
      PROVE  StatusStamps'
  <2>1. tx[s].at # None
    BY <1>3 DEF Call, Claims
  <2> QED BY <1>3, <2>1 DEF Call, StatusStamps, TypeOK
<1>4. ASSUME NEW s \in Session, Write(s), rows' # rows
      PROVE  StatusStamps'
  BY <1>4, WriteEffect, Accepted DEF StatusStamps
<1> QED BY <1>1, <1>2, <1>3, <1>4 DEF Next, Tick, BeginCreate, BeginCall, Begin, Load, Stamp, vars,
                                   BeginReport, RunQuery, EndReport

\* The order of an unmoved ticket's stamps, one step per action
LEMMA OrderStep ==
  ASSUME TypeOK, Claims, PastStamps, StatusStamps, CompletedAtMeansTerminal,
         UnmovedAreOrdered, [Next]_vars
  PROVE  UnmovedAreOrdered'
<1> USE TimeIsNat, ConstantsAssumption
<1> SUFFICES ASSUME NEW t \in Ticket, t \notin moved'
             PROVE  Ordered(t)'
  BY DEF UnmovedAreOrdered
<1>m. t \notin moved
  BY DEF Next, Tick, BeginCreate, BeginCall, Begin, Load, Stamp, vars, Write, Create, Call,
         BeginReport, RunQuery, EndReport
<1>0. Ordered(t)
  BY <1>m DEF UnmovedAreOrdered
<1>n. /\ now \in Nat /\ Skew \in Nat /\ Time \subseteq Nat
      /\ rows[t].called \in Nat \cup {None} /\ rows[t].started \in Nat \cup {None}
  BY StampsAreNumbers
<1>1. CASE UNCHANGED <<rows, tx, restarted>>
  BY <1>0, <1>1 DEF Ordered
<1>2. ASSUME NEW s \in Session, NEW to, NEW u, Begin(s, to, u), to \in {"WAITING", "CALLED"}
      PROVE  Ordered(t)'
  BY <1>0, <1>2 DEF Begin, Ordered, TypeOK
<1>3. ASSUME NEW s \in Session, NEW u \in Ticket, NEW to \in Status, Load(s, to, u)
      PROVE  Ordered(t)'
  <2>1. /\ rows' = rows /\ restarted' = restarted
        /\ tx'[s] = [to |-> to, ticket |-> u, at |-> None]
        /\ \A q \in Session \ {s} : tx'[q] = tx[q]
    BY <1>3 DEF Load, TypeOK
  <2>2. u = t /\ to = "IN_SERVICE" => rows[t].called # None
    BY <1>3, Sources DEF Load, StatusStamps
  <2>3. u = t /\ to = "COMPLETED" => rows[t].started # None
    BY <1>3, Sources DEF Load, StatusStamps
  <2> QED BY <1>0, <2>1, <2>2, <2>3 DEF Ordered
<1>8. ASSUME NEW s \in Session, Stamp(s)
      PROVE  Ordered(t)'
  <2>1. PICK c \in Time : now - Skew <= c /\ tx' = [tx EXCEPT ![s].at = c]
    BY <1>8 DEF Stamp
  <2>2. /\ rows' = rows /\ restarted' = restarted
        /\ tx'[s].to = tx[s].to /\ tx'[s].ticket = tx[s].ticket /\ tx'[s].at = c
        /\ \A q \in Session \ {s} : tx'[q] = tx[q]
    BY <1>8, <2>1 DEF Stamp, TypeOK
  <2>3. tx[s].to = "IN_SERVICE" /\ tx[s].ticket = t =>
          rows[t].called # None /\ rows[t].called <= c + Skew
    BY <1>0, <1>n, <2>1 DEF Ordered, PastStamps
  <2>4. tx[s].to = "COMPLETED" /\ tx[s].ticket = t =>
          /\ rows[t].started # None /\ rows[t].called <= c + Skew
          /\ rows[t].started <= c + 2 * Skew
    BY <1>0, <1>n, <2>1 DEF Ordered, PastStamps
  <2> QED BY <1>0, <2>2, <2>3, <2>4 DEF Ordered
<1>4. ASSUME NEW s \in Session, tx' = [tx EXCEPT ![s] = Idle], rows'[t] = rows[t],
             restarted \subseteq restarted'
      PROVE  Ordered(t)'
  <2>1. tx'[s].to = None /\ \A q \in Session \ {s} : tx'[q] = tx[q]
    BY <1>4 DEF TypeOK, Idle
  <2> QED BY <1>0, <1>4, <2>1 DEF Ordered, Status
<1>5. ASSUME NEW s \in Session, Create(s)
      PROVE  Ordered(t)'
  <2>1. /\ tx' = [tx EXCEPT ![s] = Idle] /\ tx'[s].to = None
        /\ \A q \in Session \ {s} : tx'[q] = tx[q]
        /\ t # tx[s].ticket => rows'[t] = rows[t]
        /\ restarted' = restarted
    BY <1>5 DEF Create, TypeOK, Idle
  <2>2. CASE t = tx[s].ticket
    <3>1. /\ rows'[t].status = "WAITING" /\ rows'[t].called = None /\ rows'[t].started = None
      BY <1>5, <2>2 DEF Create, TypeOK
    <3>2. \A q \in Session \ {s} : tx[q].ticket # t
      BY <1>5, <2>2 DEF Create, Claims
    <3> QED BY <2>1, <3>1, <3>2 DEF Ordered, Status
  <2> QED BY <1>4, <2>1, <2>2
<1>6. ASSUME NEW s \in Session, NEW u \in Ticket, Call(s, u)
      PROVE  Ordered(t)'
  <2>1. /\ tx' = [tx EXCEPT ![s] = Idle] /\ tx'[s].to = None
        /\ \A q \in Session \ {s} : tx'[q] = tx[q]
        /\ t # u => rows'[t] = rows[t]
        /\ restarted' = restarted
    BY <1>6 DEF Call, TypeOK, Idle
  <2>2. CASE t = u
    <3>1. /\ rows[t].status = "WAITING"
          /\ rows'[t].status = "CALLED" /\ rows'[t].started = rows[t].started
      BY <1>6, <2>2 DEF Call, TypeOK
    <3>2. rows[t].called = None /\ rows[t].started = None
      BY <1>0, <3>1 DEF Ordered
    <3> QED BY <1>0, <2>1, <3>1, <3>2 DEF Ordered, Status
  <2> QED BY <1>4, <2>1, <2>2
<1>7. ASSUME NEW s \in Session, Write(s)
      PROVE  Ordered(t)'
  <2> DEFINE to == tx[s].to
             at == tx[s].at
  <2>1. /\ tx' = [tx EXCEPT ![s] = Idle] /\ tx'[s].to = None
        /\ \A q \in Session \ {s} : tx'[q] = tx[q]
        /\ restarted \subseteq restarted' /\ at # None
    BY <1>7 DEF Write, TypeOK, Idle
  <2>2. CASE rows'[t] = rows[t]
    BY <1>4, <2>1, <2>2
  <2>3. CASE rows'[t] # rows[t]
    <3>1. /\ t = tx[s].ticket /\ to # "TRANSFERRED" /\ to \notin {"WAITING", "CALLED"}
          /\ TriggerAccepts(rows[t].status, to)
      BY <1>7, <2>3, WriteEffect
    <3>2. /\ rows'[t].status = to /\ rows'[t].called = rows[t].called
          /\ rows'[t].started = IF to = "IN_SERVICE" THEN at ELSE rows[t].started
          /\ rows'[t].completed = IF to \in Terminal THEN at ELSE rows[t].completed
          /\ restarted' = IF to = "IN_SERVICE" /\ rows[t].status = "IN_SERVICE"
                          THEN restarted \cup {t} ELSE restarted
      BY <1>7, <2>3, <3>1, WriteEffect
    <3>3. CASE to = "IN_SERVICE"
      <4>1. s \in {q \in Session : tx[q].to = "IN_SERVICE" /\ tx[q].ticket = t}
        BY <3>1, <3>3
      <4>2. /\ rows'[t].status = "IN_SERVICE" /\ rows'[t].called = rows[t].called
            /\ rows'[t].started = at
        BY <3>2, <3>3
      <4>3. rows[t].called # None /\ rows[t].called <= at + Skew
        BY <1>0, <2>1, <4>1 DEF Ordered
      <4>4. rows[t].started # None => t \in restarted'
        BY <1>0, <3>1, <3>2, <3>3, Accepted DEF Ordered
      <4>5. ASSUME NEW q \in Session, tx'[q].to = "COMPLETED", tx'[q].ticket = t
            PROVE  /\ t \in restarted'
                   /\ tx'[q].at # None => rows'[t].called <= tx'[q].at + Skew
        <5>1. q # s /\ tx'[q] = tx[q]
          BY <2>1, <4>5, ConstantsAssumption DEF Status
        <5> QED BY <1>0, <4>2, <4>4, <4>5, <5>1 DEF Ordered
      <4>6. ASSUME NEW q \in Session, tx'[q].to = "IN_SERVICE", tx'[q].ticket = t
            PROVE  /\ rows'[t].called # None
                   /\ tx'[q].at # None => rows'[t].called <= tx'[q].at + Skew
        <5>1. q # s /\ tx'[q] = tx[q]
          BY <2>1, <4>6, ConstantsAssumption DEF Status
        <5> QED BY <1>0, <4>2, <4>6, <5>1 DEF Ordered
      <4> QED BY <2>1, <4>2, <4>3, <4>5, <4>6 DEF Ordered
    <3>4. CASE to = "COMPLETED"
      <4>1. s \in {q \in Session : tx[q].to = "COMPLETED" /\ tx[q].ticket = t}
        BY <3>1, <3>4
      <4>2. /\ rows'[t].status = "COMPLETED" /\ rows'[t].called = rows[t].called
            /\ rows'[t].started = rows[t].started /\ rows'[t].completed = at
            /\ restarted' = restarted
        BY <3>2, <3>4 DEF Terminal
      <4> QED BY <1>0, <2>1, <4>1, <4>2 DEF Ordered, Status
    <3>5. CASE to \notin {"IN_SERVICE", "COMPLETED"}
      <4>1. rows'[t].status \notin {"WAITING", "CALLED", "COMPLETED"}
        BY <3>1, <3>2, <3>5
      <4>2. rows'[t].started = rows[t].started /\ restarted' = restarted
        BY <3>2, <3>5
      <4>3. rows[t].called = None => rows[t].started = None
        BY <1>0 DEF Ordered
      <4> HIDE DEF to
      <4> QED BY <1>0, <2>1, <3>2, <4>1, <4>2, <4>3 DEF Ordered, Status
    <3> QED BY <3>3, <3>4, <3>5
  <2> QED BY <2>2, <2>3
<1> QED BY <1>1, <1>2, <1>3, <1>5, <1>6, <1>7, <1>8 DEF Next, Tick, BeginCreate, BeginCall, vars,
                                               BeginReport, RunQuery, EndReport

----------------------------------------------------------------------------
\* A completed ticket stays one, and stays in its period
LEMMA CompletionsStay ==
  ASSUME TypeOK, Claims, [Next]_vars, NEW w
  PROVE  Having(InWindow(w), "COMPLETED") \subseteq Having(InWindow(w), "COMPLETED")'
<1>1. ASSUME NEW t \in Ticket, rows[t] # Absent, rows[t].status = "COMPLETED"
      PROVE  /\ rows'[t] # Absent /\ rows'[t].status = "COMPLETED"
             /\ rows'[t].created = rows[t].created
  <2>1. CASE rows' = rows
    BY <1>1, <2>1
  <2>2. ASSUME NEW s \in Session, Create(s)
        PROVE  rows'[t] = rows[t]
    BY <1>1, <2>2 DEF Create, Claims, TypeOK
  <2>3. ASSUME NEW s \in Session, NEW u \in Ticket, Call(s, u)
        PROVE  rows'[t] = rows[t]
    BY <1>1, <2>3 DEF Call, TypeOK
  <2>4. ASSUME NEW s \in Session, Write(s), rows' # rows
        PROVE  /\ rows'[t].status = "COMPLETED" /\ rows'[t].created = rows[t].created
    BY <1>1, <2>4, WriteEffect, Accepted
  <2>5. rows'[t].status = "COMPLETED" => rows'[t] # Absent
    BY DEF Absent
  <2> QED BY <1>1, <2>1, <2>2, <2>3, <2>4, <2>5
          DEF Next, Tick, BeginCreate, BeginCall, Begin, Load, Stamp, vars, BeginReport, RunQuery, EndReport
<1> QED BY <1>1 DEF Having, InWindow

\* Whatever is completed has been called and served
LEMMA CompletedIsMeasured ==
  ASSUME TypeOK, StatusStamps, CompletedAtMeansTerminal, NEW w
  PROVE  /\ Having(InWindow(w), "COMPLETED") \subseteq Called(InWindow(w))
         /\ Having(InWindow(w), "COMPLETED") \subseteq Served(InWindow(w))
         /\ Called(InWindow(w)) \subseteq Ticket /\ Served(InWindow(w)) \subseteq Ticket
BY DEF Having, InWindow, Called, Served, StatusStamps, CompletedAtMeansTerminal, Terminal

LEMMA CoverStep ==
  ASSUME TypeOK, Claims, StatusStamps, CompletedAtMeansTerminal, ReportCovers, [Next]_vars
  PROVE  ReportCovers'
<1> DEFINE C(w) == Having(InWindow(w), "COMPLETED")
<1>t. report.done \in 0..3 /\ report.completed \in Nat /\ report.waits \in Nat
  BY DEF TypeOK, Queries
<1>c. \A w : Cardinality(C(w)) \in Nat
  BY InWindowFinite DEF Having, InWindow
<1>1. CASE report' = report
  <2>1. C(report.window) \subseteq C(report.window)'
    <3>1. \A w : Having(InWindow(w), "COMPLETED") \subseteq Having(InWindow(w), "COMPLETED")'
      BY CompletionsStay
    <3> QED BY <1>1, <3>1 DEF Having, InWindow
  <2>2. C(report.window)' \subseteq Ticket
    BY DEF Having, InWindow
  <2>3. C(report.window)' = Having(InWindow(report.window), "COMPLETED")'
    BY <1>1
  <2>4. /\ Cardinality(C(report.window)) <= Cardinality(C(report.window)')
        /\ Cardinality(C(report.window)') \in Nat
    BY <2>1, <2>2, CardinalityGrows, InWindowFinite
  <2> QED BY <1>1, <1>t, <1>c, <2>3, <2>4 DEF ReportCovers
<1>2. CASE (\E w \in Asked : BeginReport(w)) \/ EndReport
  <2>1. report'.done = 0
    BY <1>2 DEF BeginReport, EndReport, NoReport
  <2> QED BY <2>1 DEF ReportCovers
<1>3. CASE RunQuery
  <2> DEFINE w == report.window
             c == Counts(w).completed
             a == AvgWait(w).n
             b == AvgService(w).n
  <2>1. /\ c = Cardinality(C(w)) /\ a = Cardinality(Called(InWindow(w)))
        /\ b = Cardinality(Served(InWindow(w)))
    BY DEF Counts, AvgWait, AvgService, Avg
  <2>2. Cardinality(C(w)) <= a /\ Cardinality(C(w)) <= b
    BY <2>1, CompletedIsMeasured, CardinalityGrows
  <2>3. report.done \in 0..2 /\ rows' = rows /\ w # None
    BY <1>3, <1>t DEF RunQuery, Queries
  <2>4. /\ report'.window = w /\ report'.done = report.done + 1
        /\ report'.completed = IF Queries[report.done + 1] = "counts" THEN c ELSE report.completed
        /\ report'.waits = IF Queries[report.done + 1] = "wait" THEN a ELSE report.waits
        /\ report'.services = IF Queries[report.done + 1] = "service" THEN b ELSE report.services
    BY <1>3 DEF RunQuery, TypeOK
  <2>5. Having(InWindow(report.window), "COMPLETED")' = C(w)
    BY <2>3, <2>4 DEF Having, InWindow
  <2>6. a \in Nat /\ b \in Nat
    BY <2>1, CompletedIsMeasured, InWindowFinite
  <2> HIDE DEF C, w, c, a, b
  <2>7. CASE report.done = 0
    BY <1>t, <1>c, <2>1, <2>4, <2>5, <2>7 DEF ReportCovers, Queries
  <2>8. CASE report.done = 1
    BY <1>t, <1>c, <2>1, <2>2, <2>4, <2>5, <2>6, <2>8 DEF ReportCovers, Queries, C, w
  <2>9. CASE report.done = 2
    BY <1>t, <1>c, <2>1, <2>2, <2>4, <2>5, <2>6, <2>9 DEF ReportCovers, Queries, C, w
  <2> QED BY <2>3, <2>7, <2>8, <2>9
<1> QED BY <1>1, <1>2, <1>3 DEF Next, Tick, BeginCreate, BeginCall, Begin, Load, Stamp, vars, Create, Call, Write

----------------------------------------------------------------------------
\* Truncation to the width W finds the multiple of W that a number is less than
\* W above
LEMMA Truncation ==
  ASSUME NEW c \in Nat, NEW b \in Nat, NEW W \in Nat, W > 0, b % W = 0
  PROVE  c - (c % W) = b <=> b <= c /\ c < b + W
<1> DEFINE p == b \div W
           q == c \div W
<1>0. \A n \in Nat : /\ n \div W \in Int /\ n % W \in 0..(W - 1)
                    /\ n = W * (n \div W) + (n % W)
  OBVIOUS
<1>1. p \in Int /\ q \in Int /\ b = W * p /\ c = W * q + (c % W) /\ c % W \in 0..(W - 1)
  BY <1>0
<1> HIDE DEF p, q
<1>2. CASE q = p
  BY <1>1, <1>2
<1>3. CASE q > p
  <2>1. W * q >= W * (p + 1) /\ W * (p + 1) = W * p + W
    BY <1>1, <1>3
  <2> QED BY <1>1, <2>1
<1>4. CASE q < p
  <2>1. W * p >= W * (q + 1) /\ W * (q + 1) = W * q + W
    BY <1>1, <1>4
  <2> QED BY <1>1, <2>1
<1> QED BY <1>1, <1>2, <1>3, <1>4

\* The tickets of a bucket are those of the period of its width that it begins
LEMMA BucketIsPeriod ==
  ASSUME TypeOK, NEW w, NEW interval, NEW W \in Nat, W > 0, Unit(interval) = W,
         NEW b \in Nat, b % W = 0
  PROVE  LET series == Series(w, "throughput", interval)
             completed == Having(InWindow(w), "COMPLETED")
         IN Cardinality(completed \cap InWindow(<<b, b + W>>))
              = IF b \in DOMAIN series THEN series[b] ELSE 0
<1> DEFINE series == Series(w, "throughput", interval)
           S == Having(InWindow(w), "COMPLETED")
           In == {t \in S : Bucket(t, interval) = b}
<1>1. \A t \in S : t \in Ticket /\ rows[t] # Absent /\ rows[t].created \in Nat
  BY TimeIsNat DEF Having, InWindow, TypeOK, Row
<1>2. \A c \in Nat : c - (c % W) = b <=> b <= c /\ c < b + W
  BY Truncation
<1>3. \A t \in S : Bucket(t, interval) = b <=>
        b <= rows[t].created /\ rows[t].created < b + W
  BY <1>1, <1>2 DEF Bucket
<1>4. S \cap InWindow(<<b, b + W>>) = In
  BY <1>1, <1>3 DEF InWindow
<1>5. /\ DOMAIN series = {Bucket(t, interval) : t \in S}
      /\ b \in DOMAIN series => series[b] = Cardinality(In)
  BY DEF Series, Counted
<1>6. b \notin DOMAIN series => In = {}
  BY <1>5
<1> QED BY <1>4, <1>5, <1>6, FS_EmptySet

LEMMA PointsMatch == TypeOK => PointsMatchSummaries
<1> SUFFICES ASSUME TypeOK
             PROVE  PointsMatchSummaries
  OBVIOUS
<1>1. Hour \in Nat /\ Hour > 0 /\ Unit("1 hour") = Hour
  BY ConstantsAssumption DEF Unit
<1>2. Day \in Nat /\ Day > 0 /\ Unit("1 day") = Day
  BY ConstantsAssumption DEF Unit
<1> QED BY <1>1, <1>2, BucketIsPeriod, TimeIsNat DEF PointsMatchSummaries

\* What is logged is zero where null is answered, and the same otherwise
LEMMA ZeroForNull ==
  ASSUME NEW avg
  PROVE  IF OrNull(avg) = None THEN OrZero(avg).sum = 0 ELSE OrZero(avg) = OrNull(avg)
BY DEF OrZero, OrNull

\* The rollup's WHERE says what the summary's says of the last hour
LEMMA RollupMatches == TypeOK => RollupAgreesWithSummary
<1> SUFFICES ASSUME TypeOK, now >= Hour
             PROVE  LET w == <<now - Hour, now>>
                    IN /\ Rollup(now).completed = Counts(w).completed
                       /\ Rollup(now).wait = OrZero(AvgWait(w))
                       /\ Rollup(now).service = OrZero(AvgService(w))
  BY ZeroForNull DEF RollupAgreesWithSummary
<1> DEFINE w == <<now - Hour, now>>
           S == {t \in Ticket : /\ rows[t] # Absent
                                /\ rows[t].created >= now - Hour /\ rows[t].created < now}
<1>1. S = InWindow(w)
  <2>1. \A t \in Ticket : rows[t] # Absent => rows[t].created \in Nat
    BY DEF TypeOK, Row, Time
  <2>2. now \in Nat /\ Hour \in Nat
    BY ConstantsAssumption DEF TypeOK, Time
  <2> QED BY <2>1, <2>2 DEF InWindow
<1>2. Rollup(now).completed = Counts(w).completed
  BY <1>1 DEF Rollup, Counts
<1>3. Rollup(now).wait = OrZero(AvgWait(w))
  BY <1>1 DEF Rollup, AvgWait, Called
<1>4. Rollup(now).service = OrZero(AvgService(w))
  BY <1>1 DEF Rollup, AvgService, Served
<1> QED BY <1>2, <1>3, <1>4

----------------------------------------------------------------------------
\* Every variable of the tickets, their requests and the summary has its type.
THEOREM AnalyticsTypes == Spec => []TypeOK
<1>1. Init => TypeOK /\ Claims
  BY InitType, InitClaims
<1>2. TypeOK /\ Claims /\ [Next]_vars => (TypeOK /\ Claims)'
  BY TypeStep, ClaimsStep
<1> QED BY <1>1, <1>2, PTL DEF Spec

LEMMA Invariance == Spec => [](TypeOK /\ Claims /\ Inv)
<1>1. Init => TypeOK /\ Claims /\ Inv
  BY InitType, InitClaims, InitInv
<1>2. TypeOK /\ Claims /\ Inv /\ [Next]_vars => (TypeOK /\ Claims /\ Inv)'
  BY TypeStep, ClaimsStep, CompletedAtStep, PastStep, StatusStep, OrderStep, CoverStep DEF Inv
<1> QED BY <1>1, <1>2, PTL DEF Spec

\* However requests for a ticket overlap, it has completed_at exactly when it is
\* in a terminal status.
THEOREM CompletedAtIsTerminal == Spec => []CompletedAtMeansTerminal
BY Invariance, PTL DEF Inv

\* However requests for a ticket overlap and whatever they read before they ask
\* the clock, its stamps are in order as far as the clocks agree, unless it was
\* transferred; only of a start written over a start it is not said that it is
\* before the completion.
THEOREM StampsAreInOrder == Spec => []TimesInOrder
<1>1. TypeOK /\ Inv => TimesInOrder
  BY DEF Inv, UnmovedAreOrdered, Ordered, StatusStamps, TimesInOrder
<1> QED BY <1>1, Invariance, PTL

\* Whatever is committed between its queries, a summary counts no completion
\* that its averages are not over.
THEOREM SummariesCoverCompletions == Spec => []SummaryCoversItsCompletions
<1>1. TypeOK /\ Inv => SummaryCoversItsCompletions
  <2>1. Len(Queries) = 3
    BY DEF Queries
  <2> QED BY <2>1 DEF Inv, ReportCovers, SummaryCoversItsCompletions
<1> QED BY <1>1, Invariance, PTL

\* Two adjacent periods together count each ticket once, for every set of
\* tickets and every border.
THEOREM PeriodsPartition == Spec => []PeriodsAddUp
<1>1. ASSUME TypeOK, NEW u \in Window, NEW v \in Window, u[2] = v[1]
      PROVE  Total(<<u[1], v[2]>>) = Total(u) + Total(v)
  <2>1. u[1] \in Nat /\ u[2] \in Nat /\ v[2] \in Nat /\ u[1] < u[2] /\ u[2] < v[2]
    BY <1>1, TimeIsNat DEF Window
  <2>2. \A t \in Ticket : rows[t] # Absent => rows[t].created \in Nat
    BY <1>1, TimeIsNat DEF TypeOK, Row
  <2>3. /\ InWindow(<<u[1], v[2]>>) = InWindow(u) \cup InWindow(v)
        /\ InWindow(u) \cap InWindow(v) = {}
    BY <1>1, <2>1, <2>2 DEF InWindow
  <2>4. InWindow(u) \in SUBSET Ticket /\ InWindow(v) \in SUBSET Ticket
    BY DEF InWindow
  <2>5. Cardinality(InWindow(<<u[1], v[2]>>)) = Cardinality(InWindow(u)) + Cardinality(InWindow(v))
    BY <2>3, <2>4, DisjointAddUp
  <2> QED BY <2>5 DEF Total
<1>2. TypeOK => PeriodsAddUp
  BY <1>1 DEF PeriodsAddUp
<1> QED BY <1>2, AnalyticsTypes, PTL

\* Every point by the hour or by the day is what a summary of that hour or day
\* counts of the period, for every set of tickets, every period and every width.
THEOREM PointsAreSummaries == Spec => []PointsMatchSummaries
BY PointsMatch, AnalyticsTypes, PTL

\* kpi_rollup and kpi_summary find the same of the same hour, whatever the
\* tickets are.
THEOREM RollupAgrees == Spec => []RollupAgreesWithSummary
BY RollupMatches, AnalyticsTypes, PTL
=============================================================================

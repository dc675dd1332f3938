------------------------ MODULE KeyedRequests_proofs ------------------------
(***************************************************************************)
(* Proofs about KeyedRequests: its types, what an idempotency key still    *)
(* promises, and which tickets can bear one number.                        *)
(***************************************************************************)
EXTENDS KeyedRequests, TicketFSM_proofs

LEMMA RequestType ==
  ASSUME NEW r \in Request
  PROVE  /\ r.tenant \in Tenant /\ r.kind \in Kind /\ r.location \in Location
         /\ r.service \in Service \cup {None}
         /\ r.kind # "call_next" => r.ticket \in Ticket
         /\ Keyed(r) => KeyOf(r) \in Tenant \X Key
BY ConstantsAssumption DEF Keyed, KeyOf

LEMMA Kinds ==
  /\ "create" \in Creating /\ "kiosk" \in Creating
  /\ "call_next" \notin Creating /\ "start" \notin Creating /\ "complete" \notin Creating
BY DEF Creating

\* A ticket with a status or a place is a row of the table, and no row is Absent
LEMMA RowType ==
  ASSUME TypeOK, NEW t \in Ticket
  PROVE  /\ rows[t].status \in Status \/ rows[t].location \in Location \/ rows[t] # Absent
              => rows[t] \in Row /\ rows[t].number \in Nat \ {0}
         /\ rows[t] \in Row => rows[t] # Absent
         /\ rows[t].number \in Nat
BY ConstantsAssumption DEF TypeOK, Row, Absent, Status

LEMMA KeyRowType ==
  ASSUME TypeOK, NEW k \in Tenant \X Key
  PROVE  /\ keys[k] # NoKey => keys[k] \in KeyRow
         /\ ~NoKey.expired
BY DEF TypeOK, NoKey

\* next_number is greater than every number of the location
LEMMA NextNumberIsGreater ==
  ASSUME TypeOK, NEW l
  PROVE  /\ NextNumber(l) \in Nat \ {0}
         /\ \A t \in At(l) : rows[t].number < NextNumber(l)
<1> DEFINE number == [t \in Ticket |-> rows[t].number]
           S == {0} \cup {rows[t].number : t \in At(l)}
<1>1. number \in [Ticket -> Nat] /\ At(l) \subseteq Ticket
  BY RowType DEF At
<1>2. S \subseteq Nat
  BY <1>1
<1>3. \E m \in S : \A n \in S : m >= n
  <2>1. CASE At(l) = {}
    BY <2>1
  <2>2. CASE At(l) # {}
    <3> HIDE DEF number
    <3>1. PICK t \in At(l) : \A u \in At(l) : number[u] <= number[t]
      BY <1>1, <2>2, ConstantsAssumption, Greatest
    <3>2. \A u \in At(l) : rows[u].number <= rows[t].number /\ rows[u].number \in Nat
      BY <1>1, <3>1 DEF number
    <3>3. rows[t].number \in S
      BY <3>1
    <3>4. \A n \in S : rows[t].number >= n
      BY <3>2
    <3> QED BY <3>3, <3>4
  <2> QED BY <2>1, <2>2
<1>4. Max(S) \in S /\ \A n \in S : Max(S) >= n
  BY <1>3 DEF Max
<1>5. NextNumber(l) = Max(S) + 1
  BY DEF NextNumber
<1>6. \A t \in At(l) : rows[t].number \in S
  OBVIOUS
<1> HIDE DEF S
<1> QED BY <1>2, <1>4, <1>5, <1>6

----------------------------------------------------------------------------
\* How far a request has come, and what that says of its ticket.  Nobody's
\* lookup misses a key that another request was answered for.
Progress ==
  \A r \in Request :
    /\ req[r].pc \in {"new", "missed", "loaded"} => req[r].effect = None /\ req[r].answer = None
    /\ req[r].pc = "committed" => req[r].effect # None
    /\ r.kind \in Creating /\ req[r].pc = "loaded" => req[r].number # 0
    /\ r.kind \in Creating /\ req[r].pc \in {"new", "missed", "loaded"}
         => rows[r.ticket] = Absent
    /\ req[r].earlier = {}

\* A saved key is that of a request which was answered, with the ticket it changed
SavedKeysAreTrue ==
  \A k \in Tenant \X Key : keys[k] # NoKey =>
    LET q == keys[k].by
    IN /\ Keyed(q) /\ KeyOf(q) = k
       /\ req[q].pc = "answered" /\ req[q].effect = keys[k].ticket

\* An answered request is remembered for 24 hours
AnswersAreRemembered ==
  \A q \in Request \ lapsed :
    Keyed(q) /\ req[q].pc = "answered" /\ req[q].effect # None
      => keys[KeyOf(q)] # NoKey /\ keys[KeyOf(q)].by = q /\ ~keys[KeyOf(q)].expired

\* The tickets that were there when a number was read have smaller numbers
NumbersGrow ==
  /\ \A u \in Ticket : \A t \in born[u] :
       /\ rows[t] # Absent
       /\ rows[u] # Absent => rows[t].number < rows[u].number
  /\ \A r \in Request : r.kind \in Creating /\ req[r].pc = "loaded" =>
       \A t \in born[r.ticket] : rows[t].number < req[r].number

\* A request has lapsed only after its answer, and a key of it is expired
LapsedKeysAreExpired ==
  /\ \A q \in lapsed : req[q].pc = "answered"
  /\ \A k \in Tenant \X Key :
       keys[k] # NoKey /\ keys[k].by \in lapsed => keys[k].expired

IInv ==
  /\ TypeOK /\ Progress /\ SavedKeysAreTrue /\ AnswersAreRemembered /\ NumbersGrow
  /\ LapsedKeysAreExpired
  /\ ReplaysAnswerForTheKey /\ RefusedOnlyBesideARival

LEMMA InvInit == Init => IInv
<1> SUFFICES ASSUME Init
             PROVE  IInv
  OBVIOUS
<1>1. TypeOK
  BY ConstantsAssumption DEF Init, TypeOK, New, Pc
<1>2. Progress
  BY RequestType, Kinds DEF Init, Progress, New
<1>3. SavedKeysAreTrue /\ AnswersAreRemembered /\ NumbersGrow /\ LapsedKeysAreExpired
  BY DEF Init, SavedKeysAreTrue, AnswersAreRemembered, NumbersGrow, LapsedKeysAreExpired, New
<1>4. ReplaysAnswerForTheKey /\ RefusedOnlyBesideARival
  BY DEF Init, ReplaysAnswerForTheKey, RefusedOnlyBesideARival, New
<1> QED BY <1>1, <1>2, <1>3, <1>4 DEF IInv

----------------------------------------------------------------------------
ProgressRecord ==
  [pc : Pc, number : Nat, effect : Ticket \cup {None}, answer : Ticket \cup {None},
   earlier : SUBSET Request]

LEMMA ProgressType ==
  ASSUME NEW x \in ProgressRecord, NEW pc \in Pc
  PROVE  /\ [x EXCEPT !.pc = pc] \in ProgressRecord
         /\ \A t \in Ticket \cup {None} :
              /\ [x EXCEPT !.pc = pc, !.effect = t] \in ProgressRecord
              /\ [x EXCEPT !.pc = pc, !.answer = t] \in ProgressRecord
         /\ \A n \in Nat : [x EXCEPT !.pc = pc, !.number = n] \in ProgressRecord
         /\ \A earlier \in SUBSET Request :
              [x EXCEPT !.pc = pc, !.earlier = earlier] \in ProgressRecord
<1> DEFINE H == SUBSET Request
<1>1. ProgressRecord = [pc : Pc, number : Nat, effect : Ticket \cup {None},
                        answer : Ticket \cup {None}, earlier : H]
  BY DEF ProgressRecord
<1> HIDE DEF H
<1>2. \A earlier \in H : [x EXCEPT !.pc = pc, !.earlier = earlier] \in ProgressRecord
  BY <1>1
<1> QED BY <1>1, <1>2 DEF H

\* A step that gives a request a new record of the right type
LEMMA ReqType ==
  ASSUME TypeOK, NEW r \in Request, NEW x, x \in ProgressRecord, req' = [req EXCEPT ![r] = x]
  PROVE  req' \in [Request -> ProgressRecord]
BY DEF TypeOK, ProgressRecord

LEMMA RecordOf == ASSUME TypeOK, NEW r \in Request PROVE req[r] \in ProgressRecord
BY DEF TypeOK, ProgressRecord

LEMMA RecordMoves ==
  ASSUME TypeOK, NEW r \in Request, NEW pc \in Pc, NEW t \in Ticket \cup {None}
  PROVE  /\ [req EXCEPT ![r].pc = pc] \in [Request -> ProgressRecord]
         /\ [req EXCEPT ![r].pc = pc, ![r].effect = t] \in [Request -> ProgressRecord]
         /\ [req EXCEPT ![r].pc = pc, ![r].answer = t] \in [Request -> ProgressRecord]
<1>1. req \in [Request -> ProgressRecord]
  BY DEF TypeOK, ProgressRecord
<1>2. /\ [req[r] EXCEPT !.pc = pc] \in ProgressRecord
      /\ [req[r] EXCEPT !.pc = pc, !.effect = t] \in ProgressRecord
      /\ [req[r] EXCEPT !.pc = pc, !.answer = t] \in ProgressRecord
  BY <1>1, ProgressType
<1>3. \A x \in ProgressRecord : [req EXCEPT ![r] = x] \in [Request -> ProgressRecord]
  BY <1>1
<1>4. /\ [req EXCEPT ![r].pc = pc] = [req EXCEPT ![r] = [req[r] EXCEPT !.pc = pc]]
      /\ [req EXCEPT ![r].pc = pc, ![r].effect = t]
           = [req EXCEPT ![r] = [req[r] EXCEPT !.pc = pc, !.effect = t]]
      /\ [req EXCEPT ![r].pc = pc, ![r].answer = t]
           = [req EXCEPT ![r] = [req[r] EXCEPT !.pc = pc, !.answer = t]]
  BY <1>1
<1> QED BY <1>2, <1>3, <1>4

LEMMA TypeStep ==
  ASSUME IInv, [Next]_vars
  PROVE  TypeOK'
<1> USE DEF IInv
<1>1. ASSUME NEW r \in Request, Replay(r)
      PROVE  TypeOK'
  <2>1. PICK row \in LiveRows(r) : req' = [req EXCEPT ![r].pc = "answered", ![r].answer = row.ticket]
    BY <1>1 DEF Replay
  <2>2. row.ticket \in Ticket
    BY KeyRowType DEF LiveRows, KeyRow
  <2>3. req' \in [Request -> ProgressRecord]
    BY <2>1, <2>2, RecordMoves DEF Pc
  <2> QED BY <1>1, <2>3 DEF Replay, TypeOK, ProgressRecord
<1>2. ASSUME NEW r \in Request, Conflict(r) \/ Miss(r)
      PROVE  TypeOK'
  <2>1. PICK pc \in Pc, earlier \in SUBSET Request :
          \/ req' = [req EXCEPT ![r].pc = pc]
          \/ req' = [req EXCEPT ![r].pc = pc, ![r].earlier = earlier]
    BY <1>2 DEF Conflict, Miss, AnsweredBefore, Pc
  <2>2. /\ [req[r] EXCEPT !.pc = pc] \in ProgressRecord
        /\ [req[r] EXCEPT !.pc = pc, !.earlier = earlier] \in ProgressRecord
    BY ProgressType, RecordOf
  <2>3. req' \in [Request -> ProgressRecord]
    BY <2>1, <2>2, ReqType
  <2> QED BY <1>2, <2>3 DEF Conflict, Miss, TypeOK, ProgressRecord
<1>3. ASSUME NEW r \in Request, ReadNumber(r)
      PROVE  TypeOK'
  <2>1. NextNumber(r.location) \in Nat
    BY NextNumberIsGreater
  <2> DEFINE x == [req[r] EXCEPT !.pc = "loaded", !.number = NextNumber(r.location)]
  <2>2. x \in ProgressRecord
    BY <2>1, RecordOf, ProgressType DEF Pc
  <2>3. req' = [req EXCEPT ![r] = x]
    BY <1>3 DEF ReadNumber, TypeOK
  <2>4. born' \in [Ticket -> SUBSET Ticket]
    BY <1>3 DEF ReadNumber, TypeOK, At
  <2> HIDE DEF x
  <2>5. req' \in [Request -> ProgressRecord]
    BY <2>2, <2>3, ReqType
  <2> QED BY <1>3, <2>4, <2>5 DEF ReadNumber, TypeOK, ProgressRecord
<1>4. ASSUME NEW r \in Request, Insert(r)
      PROVE  TypeOK'
  <2>1. r.ticket \in Ticket /\ req[r].number \in Nat \ {0}
    BY <1>4, RequestType, Kinds DEF Insert, TypeOK, Progress
  <2>2. [status |-> "WAITING", location |-> r.location, service |-> r.service,
         number |-> req[r].number] \in Row
    BY <2>1, RequestType DEF Row, Status
  <2>3. req' \in [Request -> ProgressRecord]
    BY <1>4, <2>1, RecordMoves DEF Insert, Pc
  <2>4. rows' \in [Ticket -> Row \cup {Absent}]
    BY <1>4, <2>2 DEF Insert, TypeOK
  <2> QED BY <1>4, <2>3, <2>4 DEF Insert, TypeOK, ProgressRecord
<1>5. ASSUME NEW r \in Request, Call(r)
      PROVE  TypeOK'
  <2>1. PICK t \in Callable(r) : /\ rows' = [rows EXCEPT ![t].status = "CALLED"]
                                 /\ req' = [req EXCEPT ![r].pc = "committed", ![r].effect = t]
    BY <1>5 DEF Call
  <2>2. t \in Ticket /\ rows[t] \in Row
    BY RowType DEF Callable, Status
  <2>3. [rows[t] EXCEPT !.status = "CALLED"] \in Row
    BY <2>2 DEF Row, Status
  <2>4. req' \in [Request -> ProgressRecord]
    BY <2>1, <2>2, RecordMoves DEF Pc
  <2>5. rows' \in [Ticket -> Row \cup {Absent}]
    BY <2>1, <2>3 DEF TypeOK
  <2> QED BY <1>5, <2>4, <2>5 DEF Call, TypeOK, ProgressRecord
<1>6. ASSUME NEW r \in Request, NothingToCall(r) \/ Load(r)
      PROVE  TypeOK'
  <2>1. PICK pc \in Pc : req' = [req EXCEPT ![r].pc = pc]
    BY <1>6 DEF NothingToCall, Load, Pc
  <2>2. req' \in [Request -> ProgressRecord]
    BY <2>1, RecordMoves
  <2> QED BY <1>6, <2>2 DEF NothingToCall, Load, TypeOK, ProgressRecord
<1>7. ASSUME NEW r \in Request, Update(r)
      PROVE  TypeOK'
  <2> DEFINE t == r.ticket
  <2>1. t \in Ticket
    BY <1>7, RequestType DEF Update
  <2>2. CASE TriggerAccepts(rows[t].status, Target(r))
    <3>1. rows[t] \in Row
      BY <2>1, <2>2, ConstantsAssumption
         DEF TypeOK, Absent, TriggerAccepts, Target
    <3>2. [rows[t] EXCEPT !.status = Target(r)] \in Row
      BY <3>1 DEF Row, Target, Status
    <3>3. req' = [req EXCEPT ![r].pc = "committed", ![r].effect = t]
      BY <1>7, <2>2 DEF Update
    <3>4. req' \in [Request -> ProgressRecord]
      BY <2>1, <3>3, RecordMoves DEF Pc
    <3>5. rows' \in [Ticket -> Row \cup {Absent}]
      BY <1>7, <2>2, <3>2 DEF Update, TypeOK
    <3> QED BY <1>7, <3>4, <3>5 DEF Update, TypeOK, ProgressRecord
  <2>3. CASE ~TriggerAccepts(rows[t].status, Target(r))
    <3>1. req' = [req EXCEPT ![r].pc = "error"]
      BY <1>7, <2>3 DEF Update
    <3>2. req' \in [Request -> ProgressRecord]
      BY <2>1, <3>1, RecordMoves DEF Pc
    <3> QED BY <1>7, <2>3, <3>2 DEF Update, TypeOK, ProgressRecord
  <2> QED BY <2>2, <2>3
<1>8. ASSUME NEW r \in Request, SaveKey(r)
      PROVE  TypeOK'
  <2>1. req[r].effect \in Ticket /\ KeyOf(r) \in Tenant \X Key
    BY <1>8, RequestType DEF SaveKey, TypeOK, Progress
  <2>2. [hash |-> Hash(r), ticket |-> req[r].effect, by |-> r, expired |-> FALSE] \in KeyRow
    BY <2>1 DEF KeyRow
  <2>3. req' \in [Request -> ProgressRecord]
    BY <1>8, <2>1, RecordMoves DEF SaveKey, Pc
  <2>4. keys' \in [Tenant \X Key -> KeyRow \cup {NoKey}]
    BY <1>8, <2>1, <2>2 DEF SaveKey, Saved, TypeOK
  <2> QED BY <1>8, <2>3, <2>4 DEF SaveKey, TypeOK, ProgressRecord
<1>9. ASSUME NEW r \in Request, KeyTaken(r) \/ SaveFails(r) \/ AnswerUnkeyed(r)
      PROVE  TypeOK'
  <2>1. PICK pc \in Pc : \/ req' = [req EXCEPT ![r].pc = pc]
                         \/ req' = [req EXCEPT ![r].pc = pc, ![r].answer = req[r].effect]
    BY <1>9 DEF KeyTaken, SaveFails, AnswerUnkeyed, Pc
  <2>2. req[r].effect \in Ticket \cup {None}
    BY DEF TypeOK
  <2>3. /\ [req EXCEPT ![r].pc = pc] \in [Request -> ProgressRecord]
        /\ [req EXCEPT ![r].pc = pc, ![r].answer = req[r].effect] \in [Request -> ProgressRecord]
    BY <2>2, RecordMoves
  <2>4. req' \in [Request -> ProgressRecord]
    BY <2>1, <2>3
  <2> QED BY <1>9, <2>4 DEF KeyTaken, SaveFails, AnswerUnkeyed, TypeOK, ProgressRecord
<1>10. ASSUME NEW t \in Ticket, NEW l \in Location, NEW v \in Service,
              Transfer(t, l, v)
       PROVE  TypeOK'
  <2>1. rows[t] \in Row
    BY <1>10, RowType DEF Transfer, TransitionAllowed
  <2>2. [rows[t] EXCEPT !.status = "WAITING", !.location = l, !.service = v] \in Row
    BY <2>1 DEF Row, Status
  <2> QED BY <1>10, <2>2 DEF Transfer, TypeOK
<1>11. ASSUME NEW k \in Tenant \X Key, Expire(k)
       PROVE  TypeOK'
  <2>1. keys[k] \in KeyRow
    BY <1>11, KeyRowType DEF Expire
  <2>2. [keys[k] EXCEPT !.expired = TRUE] \in KeyRow /\ keys[k].by \in Request
    BY <2>1 DEF KeyRow
  <2> QED BY <1>11, <2>2 DEF Expire, TypeOK
<1>12. CASE Cleanup
  BY <1>12 DEF Cleanup, TypeOK
<1>13. CASE UNCHANGED vars
  BY <1>13 DEF vars, TypeOK
<1> QED BY <1>1, <1>2, <1>3, <1>4, <1>5, <1>6, <1>7, <1>8, <1>9, <1>10, <1>11, <1>12,
           <1>13 DEF Next, Step

\* A request changes nothing of another, and what it has committed stays
LEMMA OwnProgress ==
  ASSUME IInv, NEW r \in Request, Step(r)
  PROVE  /\ \A q \in Request \ {r} : req'[q] = req[q]
         /\ req[r].pc \notin {"answered", "error", "unsaved"}
         /\ req[r].effect # None => req'[r].effect = req[r].effect
         /\ UNCHANGED lapsed
<1> USE DEF IInv
<1>1. CASE Replay(r)
  BY <1>1 DEF Replay, TypeOK
<1>2. CASE Conflict(r) \/ Miss(r) \/ ReadNumber(r) \/ NothingToCall(r) \/ Load(r)
  BY <1>2 DEF Conflict, Miss, ReadNumber, NothingToCall, Load, TypeOK
<1>3. CASE Insert(r) \/ Call(r) \/ Update(r)
  <2>1. req[r].effect = None
    BY <1>3 DEF Insert, Call, Update, Progress
  <2> QED BY <1>3, <2>1 DEF Insert, Call, Update, TypeOK
<1>4. CASE SaveKey(r) \/ KeyTaken(r) \/ SaveFails(r) \/ AnswerUnkeyed(r)
  BY <1>4 DEF SaveKey, KeyTaken, SaveFails, AnswerUnkeyed, TypeOK
<1> QED BY <1>1, <1>2, <1>3, <1>4 DEF Step

LEMMA WhatIsDoneStays ==
  ASSUME IInv, [Next]_vars
  PROVE  \A q \in Request :
           /\ req[q].pc \in {"answered", "error", "unsaved"} => req'[q] = req[q]
           /\ req[q].effect # None => req'[q].effect = req[q].effect
<1>1. ASSUME NEW r \in Request, Step(r)
      PROVE  \A q \in Request :
               /\ req[q].pc \in {"answered", "error", "unsaved"} => req'[q] = req[q]
               /\ req[q].effect # None => req'[q].effect = req[q].effect
  BY <1>1, OwnProgress
<1>2. (\E r \in Request : Step(r)) \/ req' = req
  BY DEF Next, Transfer, Expire, Cleanup, vars
<1> QED BY <1>1, <1>2

\* A ticket that is there keeps its number, and only an INSERT brings one in
LEMMA RowsStep ==
  ASSUME IInv, [Next]_vars
  PROVE  \A t \in Ticket :
           /\ rows[t] # Absent => rows'[t] # Absent /\ rows'[t].number = rows[t].number
           /\ rows[t] = Absent /\ rows'[t] # Absent
                => \E r \in Request : /\ Insert(r) /\ r.ticket = t
                                      /\ rows'[t].number = req[r].number
<1> USE DEF IInv
<1>1. TypeOK'
  BY TypeStep
<1>2. ASSUME NEW t \in Ticket, NEW u \in Ticket, NEW row, rows' = [rows EXCEPT ![u] = row],
             rows[u] \in Row, row.number = rows[u].number, row.status \in Status
      PROVE  /\ rows[t] # Absent => rows'[t] # Absent /\ rows'[t].number = rows[t].number
             /\ rows[t] = Absent => rows'[t] = Absent
  <2>1. CASE t = u
    BY <1>2, <2>1, ConstantsAssumption, RowType DEF TypeOK, Absent, Status
  <2>2. CASE t # u
    BY <1>2, <2>2 DEF TypeOK
  <2> QED BY <2>1, <2>2
<1>3. ASSUME NEW r \in Request, Insert(r)
      PROVE  /\ r.ticket \in Ticket /\ rows[r.ticket] = Absent
             /\ rows'[r.ticket].number = req[r].number
             /\ \A t \in Ticket \ {r.ticket} : rows'[t] = rows[t]
  BY <1>3, RequestType, Kinds DEF Insert, Progress, TypeOK
<1>4. ASSUME NEW r \in Request, Call(r)
      PROVE  \E u \in Ticket : \E row :
               /\ rows' = [rows EXCEPT ![u] = row]
               /\ rows[u] \in Row /\ row.number = rows[u].number /\ row.status \in Status
  <2>1. PICK u \in Callable(r) : rows' = [rows EXCEPT ![u].status = "CALLED"]
    BY <1>4 DEF Call
  <2>2. u \in Ticket /\ rows[u] \in Row
    BY RowType DEF Callable, Status
  <2>3. /\ [rows[u] EXCEPT !.status = "CALLED"].number = rows[u].number
        /\ [rows[u] EXCEPT !.status = "CALLED"].status \in Status
    BY <2>2 DEF Row, Status
  <2> QED BY <2>1, <2>2, <2>3
<1>5. ASSUME NEW r \in Request, Update(r), rows' # rows
      PROVE  \E u \in Ticket : \E row :
               /\ rows' = [rows EXCEPT ![u] = row]
               /\ rows[u] \in Row /\ row.number = rows[u].number /\ row.status \in Status
  <2> DEFINE u == r.ticket
  <2>1. u \in Ticket /\ TriggerAccepts(rows[u].status, Target(r))
    BY <1>5, RequestType DEF Update
  <2>2. rows' = [rows EXCEPT ![u].status = Target(r)]
    BY <1>5, <2>1 DEF Update
  <2>3. rows[u] \in Row
    BY <2>1 DEF TypeOK, Absent, TriggerAccepts, Target
  <2>4. /\ [rows[u] EXCEPT !.status = Target(r)].number = rows[u].number
        /\ [rows[u] EXCEPT !.status = Target(r)].status \in Status
    BY <2>3 DEF Row, Status, Target
  <2> QED BY <2>1, <2>2, <2>3, <2>4
<1>6. ASSUME NEW u \in Ticket, NEW l \in Location, NEW v \in Service,
             Transfer(u, l, v)
      PROVE  \E row : /\ rows' = [rows EXCEPT ![u] = row]
                      /\ rows[u] \in Row /\ row.number = rows[u].number
                      /\ row.status \in Status
  <2>1. rows[u] \in Row
    BY <1>6, RowType DEF Transfer, TransitionAllowed
  <2> DEFINE row == [rows[u] EXCEPT !.status = "WAITING", !.location = l, !.service = v]
  <2>2. row.number = rows[u].number /\ row.status \in Status
    BY <2>1 DEF Row, Status
  <2>3. rows' = [rows EXCEPT ![u] = row]
    BY <1>6 DEF Transfer, TypeOK
  <2> QED BY <2>1, <2>2, <2>3
<1>7. CASE rows' = rows
  BY <1>7
<1>8. CASE \E r \in Request : Insert(r)
  BY <1>3, <1>8
<1>9. rows' # rows => \/ \E r \in Request : Insert(r) \/ Call(r) \/ Update(r)
                     \/ \E u \in Ticket, l \in Location, v \in Service : Transfer(u, l, v)
  BY DEF Next, Step, Replay, Conflict, Miss, ReadNumber, NothingToCall, Load, SaveKey,
         KeyTaken, SaveFails, AnswerUnkeyed, Expire, Cleanup, vars
<1> QED BY <1>2, <1>4, <1>5, <1>6, <1>7, <1>8, <1>9

\* The lookup finds the key of whoever was answered before
LEMMA MissesNothing ==
  ASSUME IInv, NEW r \in Request, Keyed(r), LiveRows(r) = {}
  PROVE  AnsweredBefore(r) = {}
<1> SUFFICES ASSUME NEW q \in AnsweredBefore(r)
             PROVE  FALSE
  OBVIOUS
<1>1. q \in Request \ lapsed /\ Keyed(q) /\ KeyOf(q) = KeyOf(r)
  BY DEF AnsweredBefore
<1>2. keys[KeyOf(r)] # NoKey /\ ~keys[KeyOf(r)].expired
  BY <1>1 DEF AnsweredBefore, IInv, AnswersAreRemembered
<1>3. KeyOf(r) \in Tenant \X Key
  BY RequestType
<1>4. keys[KeyOf(r)] \in LiveRows(r)
  BY <1>2, <1>3 DEF LiveRows
<1> QED BY <1>4

LEMMA ProgressStep ==
  ASSUME IInv, [Next]_vars
  PROVE  Progress'
<1> USE DEF IInv
<1> DEFINE Early == {"new", "missed", "loaded"}
           OwnFacts(q) ==
             /\ req[q].pc \in Early => req[q].effect = None /\ req[q].answer = None
             /\ req[q].pc = "committed" => req[q].effect # None
             /\ q.kind \in Creating /\ req[q].pc = "loaded" => req[q].number # 0
             /\ req[q].earlier = {}
<1>1. ASSUME NEW r \in Request, Step(r)
      PROVE  OwnFacts(r)' /\ (req'[r].pc \in Early => req[r].pc \in Early)
  <2>1. req[r] \in ProgressRecord /\ OwnFacts(r)
    BY RecordOf DEF Progress
  <2>2. CASE Replay(r)
    BY <2>1, <2>2 DEF Replay, TypeOK
  <2>3. CASE Conflict(r)
    BY <2>1, <2>3 DEF Conflict, TypeOK
  <2>4. CASE Miss(r)
    <3>1. (IF Keyed(r) THEN AnsweredBefore(r) ELSE {}) = {}
      BY <2>4, MissesNothing DEF Miss
    <3> QED BY <2>1, <2>4, <3>1 DEF Miss, TypeOK
  <2>5. CASE ReadNumber(r)
    <3>1. NextNumber(r.location) \in Nat \ {0}
      BY NextNumberIsGreater
    <3> QED BY <2>1, <2>5, <3>1 DEF ReadNumber, TypeOK
  <2>6. CASE Insert(r)
    <3>1. r.ticket # None
      BY <2>6, RequestType, Kinds, ConstantsAssumption DEF Insert
    <3> QED BY <2>1, <2>6, <3>1 DEF Insert, TypeOK
  <2>7. CASE Call(r)
    <3>1. \A t \in Callable(r) : t # None
      BY ConstantsAssumption DEF Callable
    <3> QED BY <2>1, <2>7, <3>1 DEF Call, TypeOK
  <2>8. CASE NothingToCall(r)
    BY <2>1, <2>8 DEF NothingToCall, TypeOK
  <2>9. CASE Load(r)
    BY <2>1, <2>9, Kinds DEF Load, TypeOK
  <2>10. CASE Update(r)
    <3>1. r.ticket # None /\ req[r].pc = "loaded"
      BY <2>10, RequestType, ConstantsAssumption DEF Update
    <3>2. PICK new \in {"committed", "error"}, t \in {r.ticket, req[r].effect} :
            /\ new = "committed" => t = r.ticket
            /\ \/ req' = [req EXCEPT ![r].pc = new]
               \/ req' = [req EXCEPT ![r].pc = new, ![r].effect = t]
            /\ new = "committed" => req' = [req EXCEPT ![r].pc = new, ![r].effect = t]
      BY <2>10 DEF Update
    <3>3. /\ req'[r].pc = new /\ req'[r].earlier = req[r].earlier
          /\ new = "committed" => req'[r].effect = r.ticket
      BY <2>1, <3>2 DEF TypeOK, ProgressRecord
    <3> QED BY <2>1, <3>1, <3>3
  <2>11. CASE SaveKey(r) \/ KeyTaken(r) \/ SaveFails(r) \/ AnswerUnkeyed(r)
    BY <2>1, <2>11 DEF SaveKey, KeyTaken, SaveFails, AnswerUnkeyed, TypeOK
  <2> QED BY <1>1, <2>2, <2>3, <2>4, <2>5, <2>6, <2>7, <2>8, <2>9, <2>10, <2>11 DEF Step
<1>2. \A q \in Request : OwnFacts(q)' /\ (req'[q].pc \in Early => req[q].pc \in Early)
  <2>1. CASE \E r \in Request : Step(r)
    <3>1. PICK r \in Request : Step(r)
      BY <2>1
    <3>2. \A q \in Request \ {r} : req'[q] = req[q]
      BY <3>1, OwnProgress
    <3>3. \A q \in Request : OwnFacts(q)
      BY DEF Progress
    <3> QED BY <1>1, <3>1, <3>2, <3>3
  <2>2. CASE req' = req
    BY <2>2 DEF Progress
  <2> QED BY <2>1, <2>2 DEF Next, Transfer, Expire, Cleanup, vars
<1>3. ASSUME NEW q \in Request, q.kind \in Creating, req'[q].pc \in Early
      PROVE  rows'[q.ticket] = Absent
  <2>1. q.ticket \in Ticket /\ rows[q.ticket] = Absent
    BY <1>2, <1>3, RequestType, Kinds DEF Progress
  <2>2. ASSUME NEW r \in Request, Insert(r), r.ticket = q.ticket
        PROVE  FALSE
    <3>1. r = q
      BY <1>3, <2>2, ConstantsAssumption DEF Insert
    <3> QED BY <1>3, <2>2, <3>1 DEF Insert, TypeOK
  <2> QED BY <2>1, <2>2, RowsStep
<1> QED BY <1>2, <1>3 DEF Progress

LEMMA NumbersStep ==
  ASSUME IInv, [Next]_vars
  PROVE  NumbersGrow'
<1> USE DEF IInv
<1>1. TypeOK' /\ Progress'
  BY TypeStep, ProgressStep
<1>2. ASSUME NEW r \in Request, ReadNumber(r)
      PROVE  NumbersGrow'
  <2>1. r.ticket \in Ticket /\ rows[r.ticket] = Absent /\ r.location \in Location
    BY <1>2, RequestType, Kinds DEF ReadNumber, Progress
  <2>2. /\ born' = [born EXCEPT ![r.ticket] = At(r.location)] /\ rows' = rows
        /\ req'[r].number = NextNumber(r.location)
        /\ \A q \in Request \ {r} : req'[q] = req[q]
    BY <1>2 DEF ReadNumber, TypeOK
  <2>3. \A t \in At(r.location) : rows[t] # Absent /\ rows[t].number < NextNumber(r.location)
    BY <2>1, NextNumberIsGreater, ConstantsAssumption DEF At, Absent
  <2>4. \A u \in Ticket : \A t \in born'[u] :
          rows[t] # Absent /\ (rows[u] # Absent => rows[t].number < rows[u].number)
    BY <2>1, <2>2, <2>3 DEF NumbersGrow, TypeOK
  <2>5. ASSUME NEW q \in Request, q.kind \in Creating, req'[q].pc = "loaded",
               NEW t \in born'[q.ticket]
        PROVE  rows[t].number < req'[q].number
    <3>1. q.ticket \in Ticket
      BY <2>5, RequestType, Kinds
    <3>2. CASE q = r
      BY <2>1, <2>2, <2>3, <3>2 DEF TypeOK
    <3>3. CASE q # r
      <4>1. q.ticket # r.ticket
        BY <1>2, <2>5, <3>3, ConstantsAssumption DEF ReadNumber
      <4> QED BY <2>1, <2>2, <2>5, <3>1, <3>3, <4>1 DEF NumbersGrow, TypeOK
    <3> QED BY <3>2, <3>3
  <2> QED BY <2>2, <2>4, <2>5 DEF NumbersGrow
<1>3. ASSUME ~ \E r \in Request : ReadNumber(r)
      PROVE  NumbersGrow'
  <2>1. born' = born
    BY <1>3 DEF Next, Step, Replay, Conflict, Miss, Insert, Call, NothingToCall, Load, Update,
                SaveKey, KeyTaken, SaveFails, AnswerUnkeyed, Transfer, Expire, Cleanup, vars
  <2>2. ASSUME NEW q \in Request, q.kind \in Creating, req'[q].pc = "loaded"
        PROVE  req'[q] = req[q]
    <3>1. ASSUME Step(q)
          PROVE  FALSE
      BY <1>3, <2>2, <3>1, Kinds DEF Step, Replay, Conflict, Miss, Insert, Call, NothingToCall,
                        Load, Update, SaveKey, KeyTaken, SaveFails, AnswerUnkeyed, TypeOK
    <3> QED BY <3>1, OwnProgress DEF Next, Transfer, Expire, Cleanup, vars
  <2>3. ASSUME NEW u \in Ticket, NEW t \in born[u]
        PROVE  /\ rows'[t] # Absent /\ rows'[t].number = rows[t].number
               /\ rows'[u] # Absent => rows'[t].number < rows'[u].number
    <3>1. t \in Ticket /\ rows'[t] # Absent /\ rows'[t].number = rows[t].number
      BY RowsStep DEF NumbersGrow, TypeOK
    <3>2. CASE rows[u] # Absent
      BY <3>1, <3>2, RowsStep DEF NumbersGrow
    <3>3. CASE rows[u] = Absent /\ rows'[u] # Absent
      <4>1. PICK r \in Request : Insert(r) /\ r.ticket = u /\ rows'[u].number = req[r].number
        BY <3>3, RowsStep
      <4> QED BY <3>1, <4>1 DEF NumbersGrow, Insert
    <3> QED BY <3>1, <3>2, <3>3
  <2>4. ASSUME NEW q \in Request, q.kind \in Creating, req'[q].pc = "loaded",
               NEW t \in born[q.ticket]
        PROVE  rows'[t].number < req'[q].number
    <3>1. q.ticket \in Ticket
      BY <2>4, RequestType, Kinds
    <3> QED BY <2>2, <2>3, <2>4, <3>1 DEF NumbersGrow
  <2> QED BY <2>1, <2>3, <2>4 DEF NumbersGrow
<1> QED BY <1>2, <1>3

LEMMA KeysStep ==
  ASSUME IInv, [Next]_vars
  PROVE  SavedKeysAreTrue' /\ AnswersAreRemembered'
<1> USE DEF IInv
<1>1. ASSUME NEW r \in Request, SaveKey(r)
      PROVE  SavedKeysAreTrue' /\ AnswersAreRemembered'
  <2> DEFINE row == [hash |-> Hash(r), ticket |-> req[r].effect, by |-> r, expired |-> FALSE]
  <2>1. /\ KeyOf(r) \in Tenant \X Key /\ Keyed(r) /\ keys[KeyOf(r)] = NoKey
        /\ keys' = [keys EXCEPT ![KeyOf(r)] = row]
        /\ req'[r].pc = "answered" /\ req'[r].effect = req[r].effect /\ lapsed' = lapsed
        /\ \A q \in Request \ {r} : req'[q] = req[q]
    BY <1>1, RequestType DEF SaveKey, Saved, Taken, TypeOK
  <2>2. row # NoKey
    BY <1>1, ConstantsAssumption DEF NoKey, SaveKey, Progress
  <2>3. row.by = r /\ row.ticket = req[r].effect /\ ~row.expired
    OBVIOUS
  <2> HIDE DEF row
  <2>4. keys'[KeyOf(r)] = row /\ \A k \in (Tenant \X Key) \ {KeyOf(r)} : keys'[k] = keys[k]
    BY <2>1 DEF TypeOK
  <2>5. SavedKeysAreTrue'
    <3> SUFFICES ASSUME NEW k \in Tenant \X Key, keys'[k] # NoKey
                 PROVE  LET q == keys'[k].by
                        IN /\ Keyed(q) /\ KeyOf(q) = k
                           /\ req'[q].pc = "answered" /\ req'[q].effect = keys'[k].ticket
      BY DEF SavedKeysAreTrue
    <3>1. CASE k = KeyOf(r)
      BY <2>1, <2>3, <2>4, <3>1
    <3>2. CASE k # KeyOf(r)
      <4>1. keys'[k] = keys[k] /\ keys[k].by \in Request
        BY <2>4, <3>2, KeyRowType DEF KeyRow
      <4>2. keys[k].by # r
        BY <1>1, <4>1 DEF SavedKeysAreTrue, SaveKey
      <4> QED BY <2>1, <4>1, <4>2 DEF SavedKeysAreTrue
    <3> QED BY <3>1, <3>2
  <2>6. AnswersAreRemembered'
    <3> SUFFICES ASSUME NEW q \in Request \ lapsed, Keyed(q), req'[q].pc = "answered",
                        req'[q].effect # None
                 PROVE  /\ keys'[KeyOf(q)] # NoKey /\ keys'[KeyOf(q)].by = q
                        /\ ~keys'[KeyOf(q)].expired
      BY <2>1 DEF AnswersAreRemembered
    <3>1. CASE q = r
      BY <2>2, <2>3, <2>4, <3>1
    <3>2. CASE q # r
      <4>1. keys[KeyOf(q)] # NoKey /\ keys[KeyOf(q)].by = q /\ ~keys[KeyOf(q)].expired
        BY <2>1, <3>2 DEF AnswersAreRemembered
      <4>2. KeyOf(q) \in Tenant \X Key /\ KeyOf(q) # KeyOf(r)
        BY <2>1, <4>1, RequestType
      <4> QED BY <2>4, <4>1, <4>2
    <3> QED BY <3>1, <3>2
  <2> QED BY <2>5, <2>6
<1>2. ASSUME NEW r \in Request, Step(r), ~SaveKey(r)
      PROVE  SavedKeysAreTrue' /\ AnswersAreRemembered'
  <2>1. keys' = keys /\ lapsed' = lapsed
    BY <1>2 DEF Step, Replay, Conflict, Miss, ReadNumber, Insert, Call, NothingToCall, Load,
                Update, KeyTaken, SaveFails, AnswerUnkeyed
  <2>2. SavedKeysAreTrue'
    BY <2>1, KeyRowType, WhatIsDoneStays DEF SavedKeysAreTrue, KeyRow
  <2>3. ~(Keyed(r) /\ req'[r].pc = "answered" /\ req'[r].effect # None)
    BY <1>2 DEF Step, Replay, Conflict, Miss, ReadNumber, Insert, Call, NothingToCall, Load,
                Update, KeyTaken, SaveFails, AnswerUnkeyed, TypeOK, Progress
  <2>4. AnswersAreRemembered'
    BY <1>2, <2>1, <2>3, OwnProgress DEF AnswersAreRemembered
  <2> QED BY <2>2, <2>4
<1>3. ASSUME NEW k \in Tenant \X Key, Expire(k)
      PROVE  SavedKeysAreTrue' /\ AnswersAreRemembered'
  <2>1. /\ req' = req /\ lapsed' = lapsed \cup {keys[k].by}
        /\ keys[k] \in KeyRow /\ keys'[k] = [keys[k] EXCEPT !.expired = TRUE]
        /\ \A j \in (Tenant \X Key) \ {k} : keys'[j] = keys[j]
    BY <1>3, KeyRowType DEF Expire, TypeOK
  <2>2. keys'[k].by = keys[k].by /\ keys'[k].ticket = keys[k].ticket
    BY <2>1 DEF KeyRow
  <2>3. SavedKeysAreTrue'
    BY <1>3, <2>1, <2>2 DEF SavedKeysAreTrue, Expire
  <2>4. AnswersAreRemembered'
    BY <2>1, RequestType DEF AnswersAreRemembered
  <2> QED BY <2>3, <2>4
<1>4. CASE Cleanup
  <2>1. /\ req' = req /\ lapsed' = lapsed
        /\ \A k \in Tenant \X Key : keys'[k] = IF Deletable(keys[k]) THEN NoKey ELSE keys[k]
    BY <1>4 DEF Cleanup, TypeOK
  <2>2. SavedKeysAreTrue'
    BY <2>1 DEF SavedKeysAreTrue
  <2>3. AnswersAreRemembered'
    BY <2>1, RequestType DEF AnswersAreRemembered, Deletable
  <2> QED BY <2>2, <2>3
<1>5. CASE UNCHANGED <<keys, lapsed, req>>
  BY <1>5 DEF SavedKeysAreTrue, AnswersAreRemembered
<1> QED BY <1>1, <1>2, <1>3, <1>4, <1>5 DEF Next, Transfer, vars

LEMMA LapsedStep ==
  ASSUME IInv, [Next]_vars
  PROVE  LapsedKeysAreExpired'
<1> USE DEF IInv, LapsedKeysAreExpired
<1>1. ASSUME NEW r \in Request, SaveKey(r)
      PROVE  LapsedKeysAreExpired'
  <2>1. r \notin lapsed
    BY <1>1 DEF SaveKey
  <2>2. /\ KeyOf(r) \in Tenant \X Key /\ keys'[KeyOf(r)].by = r
        /\ \A k \in (Tenant \X Key) \ {KeyOf(r)} : keys'[k] = keys[k]
        /\ lapsed' = lapsed /\ Step(r)
    BY <1>1, RequestType DEF SaveKey, Saved, Step, TypeOK
  <2>3. \A q \in lapsed : req'[q].pc = "answered"
    BY <2>1, <2>2, OwnProgress DEF TypeOK
  <2> QED BY <2>1, <2>2, <2>3
<1>2. ASSUME NEW k \in Tenant \X Key, Expire(k)
      PROVE  LapsedKeysAreExpired'
  <2>1. /\ req' = req /\ lapsed' = lapsed \cup {keys[k].by} /\ keys[k] # NoKey
        /\ keys[k] \in KeyRow /\ keys'[k] = [keys[k] EXCEPT !.expired = TRUE]
        /\ \A j \in (Tenant \X Key) \ {k} : keys'[j] = keys[j]
    BY <1>2, KeyRowType DEF Expire, TypeOK
  <2>2. keys'[k].expired
    BY <2>1 DEF KeyRow
  <2>3. req[keys[k].by].pc = "answered"
    BY <2>1 DEF SavedKeysAreTrue
  <2>4. \A j \in (Tenant \X Key) \ {k} : keys[j] # NoKey => keys[j].by # keys[k].by
    BY <2>1 DEF SavedKeysAreTrue
  <2> QED BY <2>1, <2>2, <2>3, <2>4
<1>3. CASE Cleanup
  <2>1. /\ req' = req /\ lapsed' = lapsed
        /\ \A k \in Tenant \X Key : keys'[k] = NoKey \/ keys'[k] = keys[k]
    BY <1>3 DEF Cleanup, TypeOK
  <2> QED BY <2>1
<1>4. CASE UNCHANGED <<keys, lapsed>>
  <2>1. \A q \in lapsed : req'[q].pc = "answered"
    BY <1>4, WhatIsDoneStays DEF TypeOK
  <2> QED BY <1>4, <2>1
<1> QED BY <1>1, <1>2, <1>3, <1>4
        DEF Next, Step, Replay, Conflict, Miss, ReadNumber, Insert, Call, NothingToCall, Load,
            Update, KeyTaken, SaveFails, AnswerUnkeyed, Transfer, vars

\* Who is replayed, or fails, finds a saved key, and its owner is another request
LEMMA HistoryStep ==
  ASSUME IInv, [Next]_vars
  PROVE  ReplaysAnswerForTheKey' /\ RefusedOnlyBesideARival'
<1> USE DEF IInv
<1> DEFINE Owner(r, q) == q \in Request \ {r} /\ Keyed(q) /\ KeyOf(q) = KeyOf(r)
<1>1. ASSUME NEW r \in Request, Keyed(r), keys[KeyOf(r)] # NoKey, req[r].pc # "answered"
      PROVE  \E q : /\ Owner(r, q) /\ req[q].effect = keys[KeyOf(r)].ticket
                    /\ req[q].effect # None
  <2>1. KeyOf(r) \in Tenant \X Key /\ keys[KeyOf(r)] \in KeyRow
    BY <1>1, RequestType, KeyRowType
  <2>2. keys[KeyOf(r)].by \in Request /\ keys[KeyOf(r)].ticket # None
    BY <2>1, ConstantsAssumption DEF KeyRow
  <2> QED BY <1>1, <2>1, <2>2 DEF SavedKeysAreTrue
<1>2. ASSUME NEW r \in Request, req'[r].pc = "answered", req'[r].effect = None,
             req'[r].answer # None
      PROVE  \E q : Owner(r, q) /\ req'[q].effect = req'[r].answer
  <2>1. CASE Step(r)
    <3>1. Replay(r)
      BY <1>2, <2>1 DEF Step, Replay, Conflict, Miss, ReadNumber, Insert, Call, NothingToCall,
                        Load, Update, SaveKey, KeyTaken, SaveFails, AnswerUnkeyed, TypeOK, Progress
    <3>2. /\ Keyed(r) /\ keys[KeyOf(r)] # NoKey
          /\ req[r].pc = "new" /\ req'[r].answer = keys[KeyOf(r)].ticket
      BY <3>1 DEF Replay, LiveRows, TypeOK
    <3> QED BY <1>1, <3>2, WhatIsDoneStays
  <2>2. CASE req'[r] = req[r]
    BY <1>2, <2>2, WhatIsDoneStays DEF ReplaysAnswerForTheKey
  <2> QED BY <2>1, <2>2, OwnProgress DEF Next, Transfer, Expire, Cleanup, vars
<1>3. ASSUME NEW r \in Request, req'[r].pc = "error", req'[r].effect # None
      PROVE  \E q : Owner(r, q) /\ req'[q].effect # None
  <2>1. CASE Step(r)
    <3>1. KeyTaken(r)
      BY <1>3, <2>1 DEF Step, Replay, Conflict, Miss, ReadNumber, Insert, Call, NothingToCall,
                        Load, Update, SaveKey, KeyTaken, SaveFails, AnswerUnkeyed, TypeOK, Progress
    <3>2. Keyed(r) /\ keys[KeyOf(r)] # NoKey /\ req[r].pc = "committed"
      BY <3>1 DEF KeyTaken, Taken
    <3> QED BY <1>1, <3>2, WhatIsDoneStays
  <2>2. CASE req'[r] = req[r]
    BY <1>3, <2>2, WhatIsDoneStays DEF RefusedOnlyBesideARival
  <2> QED BY <2>1, <2>2, OwnProgress DEF Next, Transfer, Expire, Cleanup, vars
<1> QED BY <1>2, <1>3 DEF ReplaysAnswerForTheKey, RefusedOnlyBesideARival

LEMMA Invariance == Spec => []IInv
<1>1. IInv /\ [Next]_vars => IInv'
  BY TypeStep, ProgressStep, NumbersStep, KeysStep, LapsedStep, HistoryStep DEF IInv
<1> QED BY <1>1, InvInit, PTL DEF Spec

----------------------------------------------------------------------------
\* Every variable of requests, keys and tickets has its type.
THEOREM RequestTypes == Spec => []TypeOK
<1>1. IInv => TypeOK
  BY DEF IInv
<1> QED BY <1>1, Invariance, PTL

\* Whatever overlaps, crashes or expires: a request sent after another one with
\* its key was answered does not do the work again within 24 hours.
THEOREM RetriesAfterAnAnswerAreSafe == Spec => []AtMostOnceAfterAnAnswer
<1>1. IInv => AtMostOnceAfterAnAnswer
  BY DEF IInv, Progress, AtMostOnceAfterAnAnswer
<1> QED BY <1>1, Invariance, PTL

\* A replay answers with a ticket that a request of the tenant changed under
\* the same key.
THEOREM ReplaysAreOfTheKey == Spec => []ReplaysAnswerForTheKey
<1>1. IInv => ReplaysAnswerForTheKey
  BY DEF IInv
<1> QED BY <1>1, Invariance, PTL

\* The save of a key is refused as a duplicate, after the work was committed, only
\* if another request did work under the key.
THEOREM RefusalsHaveRivals == Spec => []RefusedOnlyBesideARival
<1>1. IInv => RefusedOnlyBesideARival
  BY DEF IInv
<1> QED BY <1>1, Invariance, PTL

\* Tickets bear one number only if neither was there when the other's was read.
THEOREM DuplicatesHaveACause == Spec => []DuplicateNumbersHaveACause
<1>1. IInv => DuplicateNumbersHaveACause
  <2> SUFFICES ASSUME IInv, NEW t \in Ticket, NEW u \in Ticket,
                      rows[t] # Absent, rows[u] # Absent, rows[t].number = rows[u].number,
                      u \in born[t]
               PROVE  FALSE
    BY DEF DuplicateNumbersHaveACause
  <2>1. rows[u].number < rows[t].number
    BY DEF IInv, NumbersGrow
  <2> QED BY <2>1, RowType DEF IInv
<1> QED BY <1>1, Invariance, PTL

----------------------------------------------------------------------------
\* The refinement of IdempotencyPromise

\* A step that gives one request a new record
LEMMA OneRequestMoves ==
  ASSUME TypeOK, NEW r \in Request, NEW x, req' = [req EXCEPT ![r] = x]
  PROVE  /\ Phases' = [Phases EXCEPT ![r] = Phase(x.pc)]
         /\ Effects' = [Effects EXCEPT ![r] = x.effect]
         /\ Answers' = [Answers EXCEPT ![r] = x.answer]
BY DEF TypeOK, Phases, Effects, Answers

LEMMA PhaseValues ==
  /\ Phase("new") = "new" /\ Phase("missed") = "working" /\ Phase("loaded") = "working"
  /\ Phase("committed") = "done" /\ Phase("answered") = "answered"
  /\ Phase("error") = "failed" /\ Phase("unsaved") = "unrecorded"
BY DEF Phase

\* The answers that count for r are those of the owner of its key: if there is
\* no key, none counts,
LEMMA NothingBinds ==
  ASSUME IInv, NEW r \in Request, Keyed(r) => LiveRows(r) = {}
  PROVE  Promise!Binding(r) = {}
<1> SUFFICES ASSUME NEW q \in Promise!Binding(r)
             PROVE  FALSE
  OBVIOUS
<1>1. /\ q \in Rivals[r] /\ q \notin lapsed
      /\ Phases[q] = "answered" /\ Effects[q] # None
  BY DEF Promise!Binding, Promise!Answered
<1>2. q \in Request /\ Keyed(r) /\ Keyed(q) /\ KeyOf(q) = KeyOf(r)
  BY <1>1 DEF Rivals
<1>3. req[q].pc = "answered" /\ req[q].effect # None
  BY <1>1, <1>2 DEF Phases, Phase, Effects
<1>4. KeyOf(r) \in Tenant \X Key /\ keys[KeyOf(r)] # NoKey /\ ~keys[KeyOf(r)].expired
  BY <1>1, <1>2, <1>3, RequestType DEF IInv, AnswersAreRemembered
<1>5. keys[KeyOf(r)] \in LiveRows(r)
  BY <1>4 DEF LiveRows
<1> QED BY <1>2, <1>5

\* and if there is, its owner was answered, and counts while the key is live.
LEMMA OwnerBinds ==
  ASSUME IInv, NEW r \in Request, Keyed(r), keys[KeyOf(r)] # NoKey, req[r].pc # "answered"
  PROVE  LET q == keys[KeyOf(r)].by
         IN /\ q \in Promise!Answered(r) /\ Effects[q] = keys[KeyOf(r)].ticket
            /\ ~keys[KeyOf(r)].expired => q \in Promise!Binding(r)
<1> DEFINE q == keys[KeyOf(r)].by
<1>1. KeyOf(r) \in Tenant \X Key /\ keys[KeyOf(r)] \in KeyRow
  BY RequestType, KeyRowType DEF IInv
<1>2. /\ Keyed(q) /\ KeyOf(q) = KeyOf(r) /\ req[q].pc = "answered"
      /\ req[q].effect = keys[KeyOf(r)].ticket
  BY <1>1 DEF IInv, SavedKeysAreTrue
<1>3. q \in Request \ {r} /\ keys[KeyOf(r)].ticket \in Ticket
  BY <1>1, <1>2 DEF KeyRow
<1>4. Phases[q] = "answered" /\ Effects[q] = keys[KeyOf(r)].ticket /\ Effects[q] # None
  BY <1>2, <1>3, ConstantsAssumption DEF Phases, Phase, Effects
<1>5. q \in Rivals[r]
  BY <1>2, <1>3 DEF Rivals
<1>6. q \in Promise!Answered(r)
  BY <1>4, <1>5 DEF Promise!Answered
<1>7. ~keys[KeyOf(r)].expired => q \notin lapsed
  BY <1>1 DEF IInv, LapsedKeysAreExpired
<1> QED BY <1>4, <1>6, <1>7 DEF Promise!Binding

\* Steps that clients do not see
LEMMA Unseen ==
  ASSUME TypeOK, NEW r \in Request, NEW x, req' = [req EXCEPT ![r] = x],
         Phase(x.pc) = Phase(req[r].pc), x.effect = req[r].effect, x.answer = req[r].answer,
         lapsed' = lapsed
  PROVE  UNCHANGED Promise!vars
<1>1. /\ Phases' = [Phases EXCEPT ![r] = Phase(x.pc)]
      /\ Effects' = [Effects EXCEPT ![r] = x.effect]
      /\ Answers' = [Answers EXCEPT ![r] = x.answer]
  BY OneRequestMoves
<1>2. Phases[r] = Phase(x.pc) /\ Effects[r] = x.effect /\ Answers[r] = x.answer
  BY DEF Phases, Effects, Answers
<1>3. Phases' = Phases /\ Effects' = Effects /\ Answers' = Answers
  BY <1>1, <1>2 DEF Phases, Effects, Answers
<1> QED BY <1>3 DEF Promise!vars

\* Steps that bring a request to a new phase, and nothing else
LEMMA PhaseMoves ==
  ASSUME TypeOK, NEW r \in Request, NEW x, req' = [req EXCEPT ![r] = x],
         x.effect = req[r].effect, x.answer = req[r].answer
  PROVE  /\ Promise!Becomes(r, Phase(x.pc))
         /\ Effects' = Effects /\ Answers' = Answers
<1>1. /\ Phases' = [Phases EXCEPT ![r] = Phase(x.pc)]
      /\ Effects' = [Effects EXCEPT ![r] = x.effect]
      /\ Answers' = [Answers EXCEPT ![r] = x.answer]
  BY OneRequestMoves
<1>2. Effects' = Effects /\ Answers' = Answers
  BY <1>1 DEF Effects, Answers
<1> QED BY <1>1, <1>2 DEF Promise!Becomes

\* Every step of a request is one of the promise's, or invisible.
LEMMA RequestRefines ==
  ASSUME IInv, NEW r \in Request, Step(r)
  PROVE  [Promise!Next]_(Promise!vars)
<1> USE DEF IInv
<1>0. /\ req[r] \in ProgressRecord /\ Phases[r] = Phase(req[r].pc)
      /\ Effects[r] = req[r].effect
  BY RecordOf DEF Phases, Effects
<1>1. CASE Replay(r)
  <2>1. /\ req[r].pc = "new" /\ Keyed(r) /\ keys[KeyOf(r)] # NoKey
        /\ ~keys[KeyOf(r)].expired /\ lapsed' = lapsed
        /\ req' = [req EXCEPT ![r] = [@ EXCEPT !.pc = "answered",
                                               !.answer = keys[KeyOf(r)].ticket]]
    BY <1>1 DEF Replay, LiveRows
  <2> DEFINE q == keys[KeyOf(r)].by
             x == [req[r] EXCEPT !.pc = "answered", !.answer = keys[KeyOf(r)].ticket]
  <2>2. q \in Promise!Binding(r) /\ Effects[q] = keys[KeyOf(r)].ticket
    BY <2>1, OwnerBinds
  <2>3. x.pc = "answered" /\ x.effect = req[r].effect /\ x.answer = keys[KeyOf(r)].ticket
    BY <1>0 DEF ProgressRecord
  <2>4. req' = [req EXCEPT ![r] = x]
    BY <2>1
  <2> HIDE DEF x, q
  <2>5. /\ Phases' = [Phases EXCEPT ![r] = "answered"]
        /\ Effects' = [Effects EXCEPT ![r] = req[r].effect]
        /\ Answers' = [Answers EXCEPT ![r] = Effects[q]]
    <3>1. /\ Phases' = [Phases EXCEPT ![r] = Phase(x.pc)]
          /\ Effects' = [Effects EXCEPT ![r] = x.effect]
          /\ Answers' = [Answers EXCEPT ![r] = x.answer]
      BY <2>4, OneRequestMoves
    <3> QED BY <3>1, <2>2, <2>3, PhaseValues
  <2>6. Effects' = Effects
    BY <2>5 DEF Effects
  <2>7. Promise!Replay(r)
    BY <1>0, <2>1, <2>2, <2>5, <2>6 DEF Promise!Replay, Promise!Becomes, Phase
  <2> QED BY <2>7 DEF Promise!Next
<1>2. CASE Conflict(r)
  <2>1. /\ req[r].pc = "new" /\ Keyed(r) /\ keys[KeyOf(r)] # NoKey
        /\ ~keys[KeyOf(r)].expired /\ lapsed' = lapsed
        /\ req' = [req EXCEPT ![r] = [@ EXCEPT !.pc = "error"]]
    BY <1>2 DEF Conflict, LiveRows
  <2>2. Promise!Binding(r) # {}
    BY <2>1, OwnerBinds
  <2> DEFINE x == [req[r] EXCEPT !.pc = "error"]
  <2>3. Promise!Becomes(r, "failed") /\ Effects' = Effects /\ Answers' = Answers
    <3>1. x.pc = "error" /\ x.effect = req[r].effect /\ x.answer = req[r].answer
      BY <1>0 DEF ProgressRecord
    <3>2. req' = [req EXCEPT ![r] = x]
      BY <2>1
    <3> HIDE DEF x
    <3> QED BY <3>1, <3>2, PhaseMoves, PhaseValues
  <2>4. Promise!Fail(r)
    BY <1>0, <2>1, <2>2, <2>3 DEF Promise!Fail, Phase
  <2> QED BY <2>4 DEF Promise!Next
<1>3. CASE Miss(r)
  <2>1. /\ req[r].pc = "new" /\ (Keyed(r) => LiveRows(r) = {}) /\ lapsed' = lapsed
    BY <1>3 DEF Miss
  <2>2. PICK earlier : req' = [req EXCEPT ![r] = [@ EXCEPT !.pc = "missed", !.earlier = earlier]]
    BY <1>3 DEF Miss
  <2> DEFINE x == [req[r] EXCEPT !.pc = "missed", !.earlier = earlier]
  <2>3. Promise!Becomes(r, "working") /\ Effects' = Effects /\ Answers' = Answers
    <3>1. x.pc = "missed" /\ x.effect = req[r].effect /\ x.answer = req[r].answer
      BY <1>0 DEF ProgressRecord
    <3>2. req' = [req EXCEPT ![r] = x]
      BY <2>2
    <3> HIDE DEF x
    <3> QED BY <3>1, <3>2, PhaseMoves, PhaseValues
  <2>4. Promise!Begin(r)
    BY <1>0, <2>1, <2>3, NothingBinds DEF Promise!Begin, Phase
  <2> QED BY <2>4 DEF Promise!Next
<1>4. CASE ReadNumber(r)
  <2>1. /\ req[r].pc = "missed" /\ lapsed' = lapsed
        /\ req' = [req EXCEPT ![r] = [@ EXCEPT !.pc = "loaded",
                                               !.number = NextNumber(r.location)]]
    BY <1>4 DEF ReadNumber
  <2> DEFINE x == [req[r] EXCEPT !.pc = "loaded", !.number = NextNumber(r.location)]
  <2>2. x.pc = "loaded" /\ x.effect = req[r].effect /\ x.answer = req[r].answer
    BY <1>0 DEF ProgressRecord
  <2>3. req' = [req EXCEPT ![r] = x]
    BY <2>1
  <2> HIDE DEF x
  <2>4. Phase(x.pc) = Phase(req[r].pc)
    BY <2>1, <2>2, PhaseValues
  <2>5. UNCHANGED Promise!vars
    BY <2>1, <2>2, <2>3, <2>4, Unseen
  <2> QED BY <2>5
<1>5. ASSUME NEW t \in Ticket, req[r].pc \in {"missed", "loaded"}, lapsed' = lapsed,
             req' = [req EXCEPT ![r] = [@ EXCEPT !.pc = "committed", !.effect = t]]
      PROVE  [Promise!Next]_(Promise!vars)
  <2> DEFINE x == [req[r] EXCEPT !.pc = "committed", !.effect = t]
  <2>1. x.pc = "committed" /\ x.effect = t /\ x.answer = req[r].answer
    BY <1>0 DEF ProgressRecord
  <2>2. req' = [req EXCEPT ![r] = x]
    BY <1>5
  <2> HIDE DEF x
  <2>3. /\ Phases' = [Phases EXCEPT ![r] = "done"]
        /\ Effects' = [Effects EXCEPT ![r] = t]
        /\ Answers' = [Answers EXCEPT ![r] = req[r].answer]
    <3>1. /\ Phases' = [Phases EXCEPT ![r] = Phase(x.pc)]
          /\ Effects' = [Effects EXCEPT ![r] = x.effect]
          /\ Answers' = [Answers EXCEPT ![r] = x.answer]
      BY <2>2, OneRequestMoves
    <3> QED BY <3>1, <2>1, PhaseValues
  <2>4. Answers' = Answers
    BY <2>3 DEF Answers
  <2>5. Promise!Work(r, t)
    BY <1>0, <1>5, <2>3, <2>4 DEF Promise!Work, Promise!Becomes, Phase
  <2> QED BY <2>5 DEF Promise!Next
<1>6. CASE Insert(r)
  BY <1>5, <1>6, RequestType, Kinds DEF Insert
<1>7. CASE Call(r)
  BY <1>5, <1>7 DEF Call, Callable
<1>8. ASSUME req[r].pc \in {"missed", "loaded"}, lapsed' = lapsed, NEW new,
             req' = [req EXCEPT ![r] = [@ EXCEPT !.pc = new]], new \in {"answered", "error"}
      PROVE  [Promise!Next]_(Promise!vars)
  <2> DEFINE x == [req[r] EXCEPT !.pc = new]
  <2>1. Promise!Becomes(r, Phase(new)) /\ Effects' = Effects /\ Answers' = Answers
    <3>1. x.pc = new /\ x.effect = req[r].effect /\ x.answer = req[r].answer
      BY <1>0 DEF ProgressRecord
    <3>2. req' = [req EXCEPT ![r] = x]
      BY <1>8
    <3> HIDE DEF x
    <3> QED BY <3>1, <3>2, PhaseMoves
  <2>2. new = "answered" => Promise!Nothing(r)
    BY <1>0, <1>8, <2>1 DEF Promise!Nothing, Phase
  <2>3. new = "error" => Promise!Fail(r)
    BY <1>0, <1>8, <2>1 DEF Promise!Fail, Phase
  <2> QED BY <1>8, <2>2, <2>3 DEF Promise!Next
<1>9. CASE NothingToCall(r)
  BY <1>8, <1>9 DEF NothingToCall
<1>10. CASE Load(r)
  <2>1. /\ req[r].pc = "missed" /\ lapsed' = lapsed
        /\ \/ req' = [req EXCEPT ![r] = [@ EXCEPT !.pc = "loaded"]]
           \/ req' = [req EXCEPT ![r] = [@ EXCEPT !.pc = "error"]]
    BY <1>10 DEF Load
  <2>2. CASE req' = [req EXCEPT ![r] = [@ EXCEPT !.pc = "loaded"]]
    <3> DEFINE x == [req[r] EXCEPT !.pc = "loaded"]
    <3>1. x.pc = "loaded" /\ x.effect = req[r].effect /\ x.answer = req[r].answer
      BY <1>0 DEF ProgressRecord
    <3>2. req' = [req EXCEPT ![r] = x]
      BY <2>2
    <3> HIDE DEF x
    <3>3. Phase(x.pc) = Phase(req[r].pc)
      BY <2>1, <3>1, PhaseValues
    <3>4. UNCHANGED Promise!vars
      BY <2>1, <3>1, <3>2, <3>3, Unseen
    <3> QED BY <3>4
  <2> QED BY <1>8, <2>1, <2>2
<1>11. CASE Update(r)
  <2>1. req[r].pc = "loaded" /\ r.ticket \in Ticket /\ lapsed' = lapsed
    BY <1>11, RequestType DEF Update
  <2>2. \/ req' = [req EXCEPT ![r] = [@ EXCEPT !.pc = "committed", !.effect = r.ticket]]
        \/ req' = [req EXCEPT ![r] = [@ EXCEPT !.pc = "error"]]
    BY <1>11 DEF Update
  <2> QED BY <1>5, <1>8, <2>1, <2>2
<1>12. ASSUME req[r].pc = "committed", Keyed(r) => keys[KeyOf(r)] = NoKey, lapsed' = lapsed,
              req' = [req EXCEPT ![r] = [@ EXCEPT !.pc = "answered", !.answer = req[r].effect]]
       PROVE  [Promise!Next]_(Promise!vars)
  <2> DEFINE x == [req[r] EXCEPT !.pc = "answered", !.answer = req[r].effect]
  <2>1. x.pc = "answered" /\ x.effect = req[r].effect /\ x.answer = req[r].effect
    BY <1>0 DEF ProgressRecord
  <2>2. req' = [req EXCEPT ![r] = x]
    BY <1>12
  <2> HIDE DEF x
  <2>3. /\ Phases' = [Phases EXCEPT ![r] = "answered"]
        /\ Effects' = [Effects EXCEPT ![r] = req[r].effect]
        /\ Answers' = [Answers EXCEPT ![r] = Effects[r]]
    <3>1. /\ Phases' = [Phases EXCEPT ![r] = Phase(x.pc)]
          /\ Effects' = [Effects EXCEPT ![r] = x.effect]
          /\ Answers' = [Answers EXCEPT ![r] = x.answer]
      BY <2>2, OneRequestMoves
    <3> QED BY <3>1, <1>0, <2>1, PhaseValues
  <2>4. Effects' = Effects
    BY <2>3 DEF Effects
  <2>5. Promise!Binding(r) = {}
    <3>1. Keyed(r) => LiveRows(r) = {}
      BY <1>12 DEF LiveRows
    <3> QED BY <3>1, NothingBinds
  <2>6. Promise!Answer(r)
    BY <1>0, <1>12, <2>3, <2>4, <2>5 DEF Promise!Answer, Promise!Becomes, Phase
  <2> QED BY <2>6 DEF Promise!Next
<1>13. CASE SaveKey(r)
  BY <1>12, <1>13 DEF SaveKey, Taken
<1>14. CASE AnswerUnkeyed(r)
  BY <1>12, <1>14 DEF AnswerUnkeyed
<1>15. CASE KeyTaken(r)
  <2>1. /\ req[r].pc = "committed" /\ Keyed(r) /\ keys[KeyOf(r)] # NoKey /\ lapsed' = lapsed
        /\ req' = [req EXCEPT ![r] = [@ EXCEPT !.pc = "error"]]
    BY <1>15 DEF KeyTaken, Taken
  <2>2. Promise!Answered(r) # {}
    BY <2>1, OwnerBinds
  <2> DEFINE x == [req[r] EXCEPT !.pc = "error"]
  <2>3. Promise!Becomes(r, "failed") /\ Effects' = Effects /\ Answers' = Answers
    <3>1. x.pc = "error" /\ x.effect = req[r].effect /\ x.answer = req[r].answer
      BY <1>0 DEF ProgressRecord
    <3>2. req' = [req EXCEPT ![r] = x]
      BY <2>1
    <3> HIDE DEF x
    <3> QED BY <3>1, <3>2, PhaseMoves, PhaseValues
  <2>4. Promise!Fail(r)
    BY <1>0, <2>1, <2>2, <2>3 DEF Promise!Fail, Phase
  <2> QED BY <2>4 DEF Promise!Next
<1>16. CASE SaveFails(r)
  <2> DEFINE x == [req[r] EXCEPT !.pc = "unsaved"]
  <2>1. /\ req[r].pc = "committed" /\ lapsed' = lapsed /\ req' = [req EXCEPT ![r] = x]
    BY <1>16 DEF SaveFails
  <2>2. x.pc = "unsaved" /\ x.effect = req[r].effect /\ x.answer = req[r].answer
    BY <1>0 DEF ProgressRecord
  <2> HIDE DEF x
  <2>3. Promise!Becomes(r, "unrecorded") /\ Effects' = Effects /\ Answers' = Answers
    BY <2>1, <2>2, PhaseMoves, PhaseValues
  <2>4. Promise!Lose(r)
    BY <1>0, <2>1, <2>3 DEF Promise!Lose, Phase
  <2> QED BY <2>4 DEF Promise!Next
<1> QED BY <1>1, <1>2, <1>3, <1>4, <1>6, <1>7, <1>9, <1>10, <1>11, <1>13, <1>14, <1>15,
           <1>16 DEF Step

LEMMA StepRefines == IInv /\ [Next]_vars => [Promise!Next]_(Promise!vars)
<1> SUFFICES ASSUME IInv, [Next]_vars
             PROVE  [Promise!Next]_(Promise!vars)
  OBVIOUS
<1>1. ASSUME NEW k \in Tenant \X Key, Expire(k)
      PROVE  [Promise!Next]_(Promise!vars)
  <2> DEFINE q == keys[k].by
  <2>1. /\ keys[k] # NoKey /\ lapsed' = lapsed \cup {q} /\ req' = req
        /\ keys[k] \in KeyRow
    BY <1>1, KeyRowType DEF Expire, IInv
  <2>2. /\ q \in Request /\ req[q].pc = "answered" /\ req[q].effect \in Ticket
    BY <2>1 DEF KeyRow, IInv, SavedKeysAreTrue
  <2>3. Phases[q] = "answered" /\ Effects[q] # None
    BY <2>2, ConstantsAssumption DEF Phases, Phase, Effects
  <2>4. Phases' = Phases /\ Effects' = Effects /\ Answers' = Answers
    BY <2>1 DEF Phases, Effects, Answers
  <2>5. Promise!Lapse(q)
    BY <2>1, <2>3, <2>4 DEF Promise!Lapse
  <2> QED BY <2>2, <2>5 DEF Promise!Next
<1>2. CASE UNCHANGED <<req, lapsed>>
  BY <1>2 DEF Promise!vars, Phases, Effects, Answers
<1>3. (\E t \in Ticket, l \in Location, v \in Service : Transfer(t, l, v)) \/ Cleanup \/ UNCHANGED vars
        => UNCHANGED <<req, lapsed>>
  BY DEF Transfer, Cleanup, vars
<1> QED BY <1>1, <1>2, <1>3, RequestRefines DEF Next

\* Requests that look a key up, work, and save the key in three transactions,
\* whatever overlaps, dies or lapses in between, are seen by their clients to
\* keep the promise: for a day, an answer binds every other request of its key.
THEOREM KeysKeepThePromise == Spec => KeepsThePromise
<1>1. Init => Promise!Init
  BY DEF Init, Promise!Init, Phases, Phase, Effects, Answers, New
<1> QED BY <1>1, StepRefines, Invariance, PTL DEF Spec, KeepsThePromise, Promise!Spec

----------------------------------------------------------------------------
\* What else the promise of docs/security.md would take

\* The request has looked its key up in vain and is not yet answered.
Busy(r) == req[r].pc \in {"missed", "loaded", "committed"}

\* Clients send a key again only after the answer: no retry overlaps, and none
\* follows a request that died on its way to the answer.
OneAtATime ==
  \A r, q \in Request :
    Keyed(r) /\ Keyed(q) /\ KeyOf(r) = KeyOf(q) /\ Busy(r) /\ Busy(q) => r = q

\* A key that has expired is used again only once the cleanup has deleted it.
ExpiredKeysRest ==
  \A r \in Request : Keyed(r) /\ Busy(r) => ~keys[KeyOf(r)].expired

\* No save fails for a reason other than the unique constraint: the keys have at
\* most 255 characters, and the database answers.
SavesSucceed ==
  \A r \in Request : req[r].pc # "unsaved"

\* By the first two the key of a request at work is free,
BusyKeysAreFree ==
  \A r \in Request : Keyed(r) /\ Busy(r) => keys[KeyOf(r)] = NoKey

\* so that no save finds its key taken by another request.
NoKeyIsTaken ==
  \A r \in Request : Keyed(r) /\ req[r].effect # None => req[r].pc # "error"

\* A request that is at work was so before, or has just missed its key.
LEMMA BusyBefore ==
  ASSUME IInv, [Next]_vars, NEW r \in Request, Busy(r)', ~Busy(r)
  PROVE  Miss(r)
<1>1. ASSUME NEW q \in Request, Step(q), q # r
      PROVE  FALSE
  BY <1>1, OwnProgress DEF Busy
<1>2. CASE Step(r)
  BY <1>2 DEF Step, Replay, Conflict, ReadNumber, Insert, Call, NothingToCall,
              Load, Update, SaveKey, KeyTaken, SaveFails, AnswerUnkeyed, TypeOK, Busy, IInv
<1>3. CASE req' = req
  BY <1>3 DEF Busy
<1> QED BY <1>1, <1>2, <1>3 DEF Next, Transfer, Expire, Cleanup, vars

LEMMA BusyKeysStep ==
  ASSUME IInv, OneAtATime, BusyKeysAreFree, [Next]_vars, ExpiredKeysRest'
  PROVE  BusyKeysAreFree'
<1> SUFFICES ASSUME NEW r \in Request, Keyed(r), Busy(r)'
             PROVE  keys'[KeyOf(r)] = NoKey
  BY DEF BusyKeysAreFree
<1> USE DEF IInv
<1>1. KeyOf(r) \in Tenant \X Key
  BY RequestType
<1>2. ASSUME ~Busy(r)
      PROVE  keys'[KeyOf(r)] = NoKey
  <2>1. Miss(r)
    BY <1>2, BusyBefore
  <2>2. LiveRows(r) = {} /\ keys' = keys
    BY <2>1 DEF Miss
  <2>3. keys[KeyOf(r)] = NoKey \/ keys[KeyOf(r)].expired
    BY <1>1, <2>2 DEF LiveRows
  <2>4. ~keys'[KeyOf(r)].expired
    BY DEF ExpiredKeysRest
  <2> QED BY <2>2, <2>3, <2>4
<1>3. ASSUME Busy(r)
      PROVE  keys'[KeyOf(r)] = NoKey
  <2>1. keys[KeyOf(r)] = NoKey
    BY <1>3 DEF BusyKeysAreFree
  <2>2. ASSUME NEW q \in Request, SaveKey(q)
        PROVE  keys'[KeyOf(r)] = NoKey
    <3>1. /\ Keyed(q) /\ Busy(q) /\ KeyOf(q) \in Tenant \X Key
          /\ keys' = [keys EXCEPT ![KeyOf(q)] =
               [hash |-> Hash(q), ticket |-> req[q].effect, by |-> q, expired |-> FALSE]]
      BY <2>2, RequestType DEF SaveKey, Saved, Busy
    <3>2. ~Busy(q)'
      BY <2>2 DEF SaveKey, Busy, TypeOK
    <3>3. KeyOf(q) # KeyOf(r)
      BY <1>3, <3>1, <3>2 DEF OneAtATime
    <3> QED BY <1>1, <2>1, <3>1, <3>3 DEF TypeOK
  <2>3. ASSUME NEW k \in Tenant \X Key, Expire(k)
        PROVE  keys'[KeyOf(r)] = NoKey
    BY <1>1, <2>1, <2>3 DEF Expire, TypeOK
  <2>4. CASE Cleanup
    BY <1>1, <2>1, <2>4 DEF Cleanup, TypeOK
  <2>5. CASE keys' = keys
    BY <2>1, <2>5
  <2> QED BY <2>2, <2>3, <2>4, <2>5
          DEF Next, Step, Replay, Conflict, Miss, ReadNumber, Insert, Call, NothingToCall,
              Load, Update, KeyTaken, SaveFails, AnswerUnkeyed, Transfer, vars
<1> QED BY <1>2, <1>3

LEMMA AnsweredStep ==
  ASSUME IInv, BusyKeysAreFree, NoKeyIsTaken, [Next]_vars
  PROVE  NoKeyIsTaken'
<1> SUFFICES ASSUME NEW r \in Request, Keyed(r), req'[r].effect # None, req'[r].pc = "error"
             PROVE  FALSE
  BY DEF NoKeyIsTaken
<1>1. CASE Step(r)
  <2>1. KeyTaken(r)
    BY <1>1 DEF Step, Replay, Conflict, Miss, ReadNumber, Insert, Call, NothingToCall,
                Load, Update, SaveKey, KeyTaken, SaveFails, AnswerUnkeyed, TypeOK, Progress, IInv
  <2> QED BY <2>1 DEF KeyTaken, Taken, Busy, BusyKeysAreFree
<1>2. CASE req'[r] = req[r]
  BY <1>2 DEF NoKeyIsTaken
<1> QED BY <1>1, <1>2, OwnProgress DEF Next, Transfer, Expire, Cleanup, vars

LEMMA NoneTwice ==
  ASSUME IInv, OneAtATime, BusyKeysAreFree, NoKeyIsTaken, SavesSucceed
  PROVE  NoDuplicateTicket
<1> SUFFICES ASSUME NEW r \in Request \ lapsed, NEW q \in Request \ lapsed,
                    Keyed(r), Keyed(q), KeyOf(r) = KeyOf(q),
                    req[r].effect # None, req[q].effect # None
             PROVE  r = q
  BY DEF NoDuplicateTicket
<1>1. \A x \in {r, q} : Busy(x) \/ req[x].pc = "answered"
  BY DEF IInv, TypeOK, Pc, Progress, NoKeyIsTaken, SavesSucceed, Busy
<1>2. \A x \in {r, q} : req[x].pc = "answered"
                          => keys[KeyOf(x)] # NoKey /\ keys[KeyOf(x)].by = x
  BY DEF IInv, AnswersAreRemembered
<1>3. \A x \in {r, q} : Busy(x) => keys[KeyOf(x)] = NoKey
  BY DEF BusyKeysAreFree
<1> QED BY <1>1, <1>2, <1>3 DEF OneAtATime

LEMMA FreeKeys ==
  Spec /\ [](OneAtATime /\ ExpiredKeysRest)
    => [](NoKeyIsTaken /\ (SavesSucceed => NoDuplicateTicket))
<1>1. Init => BusyKeysAreFree /\ NoKeyIsTaken
  BY DEF Init, BusyKeysAreFree, NoKeyIsTaken, Busy, New
<1>2. IInv /\ OneAtATime /\ BusyKeysAreFree /\ NoKeyIsTaken /\ [Next]_vars
        /\ ExpiredKeysRest' => (BusyKeysAreFree /\ NoKeyIsTaken)'
  BY BusyKeysStep, AnsweredStep
<1>3. IInv /\ OneAtATime /\ BusyKeysAreFree /\ NoKeyIsTaken
        => (SavesSucceed => NoDuplicateTicket)
  BY NoneTwice
<1> QED BY <1>1, <1>2, <1>3, Invariance, PTL DEF Spec

\* The promise of docs/security.md holds for clients that wait for the answer
\* before they send a key again, leave an expired key alone until it is deleted,
\* and send keys that can be saved: what the run finds comes from one of the
\* three, and nothing else.
THEOREM NoDuplicateForPatientClients ==
  Spec /\ [](OneAtATime /\ ExpiredKeysRest /\ SavesSucceed) => []NoDuplicateTicket
BY FreeKeys, PTL

\* For clients that do the first two no save ever finds its key taken, however
\* their other saves end: work of theirs that is committed, and not answered, has
\* met a crash or a save that fails for reasons of its own.
THEOREM PatientClientsFindTheirKeysFree ==
  Spec /\ [](OneAtATime /\ ExpiredKeysRest) => []NoKeyIsTaken
BY FreeKeys, PTL

----------------------------------------------------------------------------
\* What else ticket numbers would take to be unique

\* At a location no two tickets have one number.
NumbersAreUnique ==
  \A t, u \in Ticket :
    /\ t # u /\ rows[t] # Absent /\ rows[u] # Absent
    /\ rows[t].location = rows[u].location
    => rows[t].number # rows[u].number

\* Whoever inserts a ticket read its number when all that are there now were
\* there already, as under a lock on the location; and nobody transfers one to
\* another location.
NumbersAreCurrent ==
  /\ \A r \in Request : Insert(r) => At(r.location) \subseteq born[r.ticket]
  /\ \A t \in Ticket, l \in Location, v \in Service :
       Transfer(t, l, v) => rows[t].location = l

\* Nothing but a transfer to another location changes where a ticket is.
LEMMA PlacesStay ==
  ASSUME IInv, [Next]_vars, NumbersAreCurrent,
         NEW t \in Ticket, rows[t] # Absent
  PROVE  rows'[t].location = rows[t].location
<1> USE DEF IInv
<1>1. rows[t] \in Row
  BY RowType
<1>2. ASSUME NEW r \in Request, Insert(r)
      PROVE  rows'[t].location = rows[t].location
  <2>1. r.ticket # t
    BY <1>2 DEF Insert, Progress
  <2> QED BY <1>2, <2>1 DEF Insert, TypeOK
<1>3. ASSUME NEW r \in Request, Call(r) \/ Update(r)
      PROVE  rows'[t].location = rows[t].location
  <2>1. \/ rows' = rows
        \/ \E u \in Ticket : \E status : rows' = [rows EXCEPT ![u].status = status]
    BY <1>3, RequestType, Kinds DEF Call, Callable, Update
  <2> QED BY <1>1, <2>1 DEF TypeOK, Row
<1>4. ASSUME NEW u \in Ticket, NEW l \in Location, NEW v \in Service, Transfer(u, l, v)
      PROVE  rows'[t].location = rows[t].location
  <2>1. rows[u].location = l
    BY <1>4 DEF NumbersAreCurrent
  <2> QED BY <1>1, <1>4, <2>1 DEF Transfer, TypeOK, Row
<1>5. CASE rows' = rows
  BY <1>5
<1> QED BY <1>2, <1>3, <1>4, <1>5
        DEF Next, Step, Replay, Conflict, Miss, ReadNumber, NothingToCall, Load, SaveKey,
            KeyTaken, SaveFails, AnswerUnkeyed, Expire, Cleanup, vars

LEMMA UniqueStep ==
  ASSUME IInv, NumbersAreUnique, [Next]_vars, NumbersAreCurrent
  PROVE  NumbersAreUnique'
<1> USE DEF IInv
<1>1. ASSUME NEW t \in Ticket, NEW u \in Ticket, t # u, rows[t] # Absent, rows'[u] # Absent,
             rows'[t].location = rows'[u].location
      PROVE  rows'[t].number # rows'[u].number
  <2>1. rows'[t].location = rows[t].location /\ rows'[t].number = rows[t].number
    BY <1>1, PlacesStay, RowsStep
  <2>2. CASE rows[u] # Absent
    <3>1. rows'[u].location = rows[u].location /\ rows'[u].number = rows[u].number
      BY <2>2, PlacesStay, RowsStep
    <3> QED BY <1>1, <2>1, <2>2, <3>1 DEF NumbersAreUnique
  <2>3. CASE rows[u] = Absent
    <3>1. PICK r \in Request : Insert(r) /\ r.ticket = u /\ rows'[u].number = req[r].number
      BY <1>1, <2>3, RowsStep
    <3>2. rows'[u].location = r.location
      BY <3>1 DEF Insert, TypeOK
    <3>3. t \in born[u]
      BY <1>1, <2>1, <3>1, <3>2 DEF NumbersAreCurrent, At
    <3>4. rows[t].number < req[r].number
      BY <3>1, <3>3 DEF NumbersGrow, Insert
    <3>5. rows[t].number \in Nat /\ req[r].number \in Nat
      BY RowType DEF TypeOK
    <3> QED BY <2>1, <3>1, <3>4, <3>5
  <2> QED BY <2>2, <2>3
<1>2. ASSUME NEW t \in Ticket, NEW u \in Ticket, t # u, rows'[t] # Absent, rows'[u] # Absent
      PROVE  rows[t] # Absent \/ rows[u] # Absent
  <2>1. ASSUME rows[t] = Absent, rows[u] = Absent
        PROVE  FALSE
    <3>1. PICK r \in Request : Insert(r) /\ r.ticket = t
      BY <1>2, <2>1, RowsStep
    <3>2. rows'[u] = rows[u]
      BY <1>2, <3>1 DEF Insert, TypeOK
    <3> QED BY <1>2, <2>1, <3>2
  <2> QED BY <2>1
<1> QED BY <1>1, <1>2 DEF NumbersAreUnique

\* The numbering is safe, as docs/data-model.md says, exactly as far as this:
\* if no ticket of the location is committed between the reading of a number
\* and its INSERT, which being in one transaction does not prevent, and no
\* ticket brings its number along from another location.
THEOREM NumbersUniqueWhenCurrent ==
  Spec /\ [][NumbersAreCurrent]_vars => []NumbersAreUnique
<1>1. Init => NumbersAreUnique
  BY DEF Init, NumbersAreUnique
<1>2. IInv /\ NumbersAreUnique /\ UNCHANGED vars => NumbersAreUnique'
  BY DEF NumbersAreUnique, vars
<1>3. IInv /\ NumbersAreUnique /\ [Next]_vars /\ [NumbersAreCurrent]_vars
        => NumbersAreUnique'
  BY <1>2, UniqueStep
<1> QED BY <1>1, <1>3, Invariance, PTL DEF Spec
==============

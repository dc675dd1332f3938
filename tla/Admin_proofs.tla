---------------------------- MODULE Admin_proofs ----------------------------
(***************************************************************************)
(* Proofs about Admin: names stay unique, patches change what they name,   *)
(* and the audit log tells what was committed.                             *)
(***************************************************************************)
EXTENDS Admin, TLAPS

\* The body of a create
LEMMA NoBody == << >> \in Bodies
<1>1. << >> \in [{} -> Name \cup BOOLEAN] /\ DOMAIN << >> = {}
  OBVIOUS
<1> QED BY <1>1 DEF Bodies

LEMMA OpenIsRequest ==
  ASSUME TypeOK, NEW s \in Session
  PROVE  /\ Open(s) => tx[s] \in Request
         /\ Flushed(s) => Open(s)
         /\ ~Open(s) => tx[s] = Idle
BY DEF TypeOK, Open, Flushed, Idle, Request

\* What an update leaves of a row
LEMMA ResultType ==
  ASSUME TypeOK, NEW x \in Request, x.op = "update" => rows[x.object] # None
  PROVE  /\ Result(x) \in Row
         /\ x.op = "update" =>
              /\ Result(x).owner = rows[x.object].owner
              /\ "name" \notin Changed(x) => Result(x).name = rows[x.object].name
              /\ "active" \notin Changed(x) => Result(x).active = rows[x.object].active
<1>1. CASE x.op = "create"
  BY <1>1 DEF Result, Request
<1>2. CASE x.op = "update"
  <2>1. rows[x.object] \in Row /\ x.row \in Row /\ x.body \in Bodies
    BY <1>2 DEF TypeOK, Request
  <2>2. /\ "name" \in DOMAIN x.body => x.body["name"] \in Name
        /\ "active" \in DOMAIN x.body => x.body["active"] \in BOOLEAN
    BY <2>1 DEF Bodies, Values
  <2>3. Held(x).name \in Name /\ Held(x).active \in BOOLEAN
    BY <2>1, <2>2 DEF Held, Row
  <2> DEFINE n == IF "name" \in Changed(x) THEN Held(x).name ELSE rows[x.object].name
             a == IF "active" \in Changed(x) THEN Held(x).active ELSE rows[x.object].active
  <2>4. Result(x) = [rows[x.object] EXCEPT !.name = n, !.active = a]
    BY <1>2 DEF Result
  <2>5. n \in Name /\ a \in BOOLEAN
    BY <2>1, <2>3 DEF Row
  <2> QED BY <1>2, <2>1, <2>4, <2>5 DEF Row
<1> QED BY <1>1, <1>2 DEF Request

----------------------------------------------------------------------------
\* Who creates an object has it to itself; who updates one finds it, and it is
\* no user or role
Alone ==
  \A s \in Session : Open(s) =>
    /\ tx[s].op = "create" =>
         /\ rows[tx[s].object] = None
         /\ \A q \in Session \ {s} : Open(q) => tx[q].object # tx[s].object
    /\ tx[s].op = "update" =>
         rows[tx[s].object] # None /\ Kind[tx[s].object] \notin {"User", "Role"}

LEMMA InitType == Init => TypeOK /\ Alone
BY ConstantsAssumption DEF Init, TypeOK, Alone, Idle, Open

\* The row a request commits
LEMMA Committed ==
  ASSUME TypeOK, Alone, NEW s \in Session, Open(s)
  PROVE  Result(tx[s]) \in Row
BY OpenIsRequest, ResultType DEF Alone

LEMMA BeginType ==
  ASSUME TypeOK, NEW s \in Session, NEW o \in Object, NEW actor \in Tenants,
         Create(s, o, actor) \/ \E body \in Patch : Update(s, o, actor, body)
  PROVE  /\ tx'[s] \in Request /\ tx'[s].pc = "flush" /\ tx'[s].object = o
         /\ tx'[s].op = "create" => rows[o] = None /\ \A q \in Session : Open(q) => tx[q].object # o
         /\ tx'[s].op = "update" => rows[o] # None /\ Kind[o] \notin {"User", "Role"}
         /\ ~Open(s) /\ \A q \in Session \ {s} : tx'[q] = tx[q]
         /\ UNCHANGED <<rows, audit, done>> /\ requests' \in 0..MaxRequests
<1> USE ConstantsAssumption
<1>1. requests \in 0..MaxRequests
  BY DEF TypeOK
<1>2. CASE Create(s, o, actor)
  <2>1. PICK name \in NewName, owner \in Owners(o) :
          Begin(s, [pc |-> "flush", n |-> requests + 1, op |-> "create", object |-> o,
                    actor |-> actor, body |-> << >>,
                    row |-> [name |-> name, active |-> TRUE, owner |-> owner]])
    BY <1>2 DEF Create
  <2>2. [name |-> name, active |-> TRUE, owner |-> owner] \in Row
    BY DEF Row, Owners
  <2>3. requests + 1 \in 1..MaxRequests
    BY <1>1, <2>1 DEF Begin
  <2> DEFINE x == [pc |-> "flush", n |-> requests + 1, op |-> "create", object |-> o,
                   actor |-> actor, body |-> << >>,
                   row |-> [name |-> name, active |-> TRUE, owner |-> owner]]
  <2>4. x \in Request
    BY <2>2, <2>3, NoBody DEF Request
  <2>5. tx' = [tx EXCEPT ![s] = x] /\ x.pc = "flush" /\ x.object = o /\ x.op = "create"
    BY <2>1 DEF Begin
  <2> HIDE DEF x
  <2>6. tx'[s] = x /\ \A q \in Session \ {s} : tx'[q] = tx[q]
    BY <2>5 DEF TypeOK
  <2>7. /\ ~Open(s) /\ UNCHANGED <<rows, audit, done>> /\ requests' = requests + 1
        /\ rows[o] = None /\ \A q \in Session : Open(q) => tx[q].object # o
    BY <1>2, <2>1 DEF Begin, Create
  <2> QED BY <2>3, <2>4, <2>5, <2>6, <2>7
<1>3. CASE \E body \in Patch : Update(s, o, actor, body)
  <2>1. PICK body \in Patch : Update(s, o, actor, body)
    BY <1>3
  <2> DEFINE x == [pc |-> "flush", n |-> requests + 1, op |-> "update", object |-> o,
                   actor |-> actor, body |-> body, row |-> rows[o]]
  <2>2. requests + 1 \in 1..MaxRequests /\ rows[o] \in Row
    BY <1>1, <2>1 DEF Begin, Update, TypeOK
  <2>3. x \in Request
    BY <2>2 DEF Request
  <2>4. tx' = [tx EXCEPT ![s] = x] /\ x.pc = "flush" /\ x.object = o /\ x.op = "update"
    BY <2>1 DEF Begin, Update
  <2> HIDE DEF x
  <2>5. tx'[s] = x /\ \A q \in Session \ {s} : tx'[q] = tx[q]
    BY <2>4 DEF TypeOK
  <2>6. /\ ~Open(s) /\ UNCHANGED <<rows, audit, done>> /\ requests' = requests + 1
        /\ rows[o] # None /\ Kind[o] \notin {"User", "Role"}
    BY <2>1 DEF Begin, Update
  <2> QED BY <2>2, <2>3, <2>4, <2>5, <2>6
<1> QED BY <1>2, <1>3

\* What the other actions do to sessions and rows
LEMMA EndEffect ==
  ASSUME TypeOK, Alone, NEW s \in Session, Flush(s) \/ Commit(s) \/ Abort(s) \/ BreakDeadlock(s)
  PROVE  LET x == tx[s]
         IN /\ x \in Request /\ x.object \in Object
            /\ tx' = [tx EXCEPT ![s] = Idle] \/ tx' = [tx EXCEPT ![s].pc = "written"]
            /\ \A q \in Session \ {s} : tx'[q] = tx[q]
            /\ Open(s)' => Flush(s) /\ tx'[s] = [x EXCEPT !.pc = "written"] /\ rows' = rows
            /\ rows' = rows \/ (Commit(s) /\ rows' = [rows EXCEPT ![x.object] = Result(x)])
            /\ requests' = requests
<1> DEFINE x == tx[s]
<1>1. Open(s)
  BY OpenIsRequest DEF Flush, Commit, Abort, BreakDeadlock, Waiting, WaitsFor
<1>2. x \in Request /\ x.object \in Object
  BY <1>1, OpenIsRequest DEF Request
<1>3. tx' = [tx EXCEPT ![s] = Idle] \/ (Flush(s) /\ tx' = [tx EXCEPT ![s].pc = "written"])
  BY DEF Flush, Commit, Abort, BreakDeadlock, Rollback
<1>4. \A q \in Session \ {s} : tx'[q] = tx[q]
  BY <1>3 DEF TypeOK
<1>5. tx'[s] = Idle \/ (Flush(s) /\ tx'[s] = [x EXCEPT !.pc = "written"])
  BY <1>3 DEF TypeOK
<1>6. ~Open(s)' \/ tx'[s] # Idle
  BY DEF Open, Idle
<1>7. /\ rows' = rows \/ (Commit(s) /\ rows' = [rows EXCEPT ![x.object] = Result(x)])
      /\ Flush(s) => rows' = rows
      /\ requests' = requests
  BY DEF Flush, Commit, Abort, BreakDeadlock
<1> QED BY <1>2, <1>3, <1>4, <1>5, <1>6, <1>7

LEMMA TypeStep ==
  ASSUME TypeOK, Alone, [Next]_vars
  PROVE  TypeOK' /\ Alone'
<1> USE ConstantsAssumption
<1>1. ASSUME NEW s \in Session, NEW o \in Object, NEW actor \in Tenants,
             Create(s, o, actor) \/ \E body \in Patch : Update(s, o, actor, body)
      PROVE  TypeOK' /\ Alone'
  <2>1. /\ tx' = [tx EXCEPT ![s] = tx'[s]] /\ tx'[s] \in Request
        /\ tx'[s].object = o /\ ~Open(s) /\ \A q \in Session \ {s} : tx'[q] = tx[q]
        /\ tx'[s].op = "create" => rows[o] = None /\ \A q \in Session : Open(q) => tx[q].object # o
        /\ tx'[s].op = "update" => rows[o] # None /\ Kind[o] \notin {"User", "Role"}
        /\ UNCHANGED <<rows, audit, done>> /\ requests' \in 0..MaxRequests
    <3>1. \E x : tx' = [tx EXCEPT ![s] = x]
      BY <1>1 DEF Create, Update, Begin
    <3>2. tx' = [tx EXCEPT ![s] = tx'[s]]
      BY <3>1 DEF TypeOK
    <3> QED BY <1>1, <3>2, BeginType
  <2>2. TypeOK'
    BY <2>1 DEF TypeOK
  <2>3. \A q \in Session \ {s} : Open(q)' <=> Open(q)
    BY <2>1 DEF Open
  <2>4. \A q \in Session : Open(q) /\ tx[q].object = o /\ tx[q].op = "create" => rows[o] = None
    BY DEF Alone
  <2>5. \A q \in Session : Open(q) => tx[q].op \in {"create", "update"}
    BY OpenIsRequest DEF Request
  <2>6. tx'[s].op \in {"create", "update"}
    BY <2>1 DEF Request
  <2>7. Alone'
    <3> SUFFICES ASSUME NEW q \in Session, Open(q)'
                 PROVE  Alone!(q)'
      BY DEF Alone
    <3>1. CASE q = s
      BY <2>1, <2>3, <2>4, <3>1
    <3>2. CASE q # s
      <4>1. Open(q) /\ tx'[q] = tx[q] /\ Alone!(q)
        BY <2>1, <2>3, <3>2 DEF Alone
      <4>2. tx[q].op = "create" => tx[q].object # o
        <5>1. ASSUME tx[q].op = "create", tx[q].object = o
              PROVE  FALSE
          BY <2>1, <2>6, <4>1, <5>1
        <5> QED BY <5>1
      <4> QED BY <2>1, <2>3, <4>1, <4>2
    <3> QED BY <3>1, <3>2
  <2> QED BY <2>2, <2>7
<1>2. ASSUME NEW s \in Session, Flush(s) \/ Commit(s) \/ Abort(s) \/ BreakDeadlock(s)
      PROVE  TypeOK' /\ Alone'
  <2> DEFINE x == tx[s]
  <2>1. /\ x \in Request /\ x.object \in Object
        /\ tx' = [tx EXCEPT ![s] = Idle] \/ tx' = [tx EXCEPT ![s].pc = "written"]
        /\ \A q \in Session \ {s} : tx'[q] = tx[q]
        /\ Open(s)' => Flush(s) /\ tx'[s] = [x EXCEPT !.pc = "written"] /\ rows' = rows
        /\ rows' = rows \/ (Commit(s) /\ rows' = [rows EXCEPT ![x.object] = Result(x)])
        /\ requests' = requests
    BY <1>2, EndEffect
  <2>2. Open(s)
    BY <1>2, OpenIsRequest DEF Flush, Commit, Abort, BreakDeadlock, Waiting, WaitsFor
  <2>3. Result(x) \in Row
    BY <2>2, Committed
  <2>4. /\ rows' \in [Object -> Row \cup {None}]
        /\ \A o \in Object : rows[o] # None => rows'[o] # None
        /\ \A o \in Object : o # x.object => rows'[o] = rows[o]
    BY <2>1, <2>3 DEF TypeOK
  <2>5. tx' \in [Session -> Request \cup {Idle}]
    <3>1. [x EXCEPT !.pc = "written"] \in Request
      BY <2>1 DEF Request
    <3> QED BY <2>1, <3>1 DEF TypeOK
  <2>6. /\ audit' \subseteq [n : 1..MaxRequests, action : {"create", "update"}, object : Object,
                            before : Row \cup {None}]
        /\ done' \subseteq [n : 1..MaxRequests, op : {"create", "update"}, object : Object,
                            row : Row, at : 0..MaxRequests]
    <3>1. CASE Commit(s)
      <4>1. /\ x.n \in 1..MaxRequests /\ x.op \in {"create", "update"} /\ x.object \in Object
            /\ Before(x) \in Row \cup {None} /\ requests \in 0..MaxRequests
        BY <2>1 DEF Request, Before, TypeOK
      <4>2. /\ [n |-> x.n, action |-> x.op, object |-> x.object, before |-> Before(x)]
                 \in [n : 1..MaxRequests, action : {"create", "update"}, object : Object,
                      before : Row \cup {None}]
            /\ [n |-> x.n, op |-> x.op, object |-> x.object, row |-> Result(x), at |-> requests]
                 \in [n : 1..MaxRequests, op : {"create", "update"}, object : Object,
                      row : Row, at : 0..MaxRequests]
        BY <2>3, <4>1
      <4> QED BY <3>1, <4>2 DEF Commit, TypeOK
    <3>2. CASE ~Commit(s)
      BY <1>2, <3>2 DEF Flush, Abort, BreakDeadlock, TypeOK
    <3> QED BY <3>1, <3>2
  <2>7. TypeOK'
    BY <2>1, <2>4, <2>5, <2>6 DEF TypeOK
  <2>8. Alone'
    <3> SUFFICES ASSUME NEW q \in Session, Open(q)'
                 PROVE  Alone!(q)'
      BY DEF Alone
    <3>1. \A p \in Session : Open(p)' => Open(p)
      BY <2>1, <2>2 DEF Open
    <3>2. \A p \in Session : Open(p)' => tx'[p].object = tx[p].object /\ tx'[p].op = tx[p].op
      BY <2>1 DEF Request
    <3>3. Alone!(q) /\ Open(q)
      BY <3>1 DEF Alone
    <3>4. tx[q].object \in Object
      BY <3>3, OpenIsRequest DEF Request
    <3>5. tx[q].op = "create" => rows'[tx[q].object] = None
      BY <2>1, <2>2, <2>4, <3>3, <3>4
    <3> QED BY <2>4, <3>1, <3>2, <3>3, <3>4, <3>5
  <2> QED BY <2>7, <2>8
<1>3. CASE UNCHANGED vars
  BY <1>3 DEF vars, TypeOK, Alone, Open
<1> QED BY <1>1, <1>2, <1>3 DEF Next

----------------------------------------------------------------------------
\* A session that holds an index entry for a new key, until it commits
NewKey(s) == Flushed(s) /\ "name" \in Changed(tx[s])

\* No two rows have one key, no new key is that of a row, no two are the same
KeysAreApart ==
  /\ \A o, p \in Object :
       rows[o] # None /\ rows[p] # None => ~SameKey(o, rows[o], p, rows[p])
  /\ \A s \in Session : NewKey(s) =>
       /\ \A o \in Object :
            rows[o] # None => ~SameKey(tx[s].object, Result(tx[s]), o, rows[o])
       /\ \A q \in Session : NewKey(q) =>
            ~SameKey(tx[s].object, Result(tx[s]), tx[q].object, Result(tx[q]))

\* Only the key of a row counts, and it counts both ways
LEMMA SameKeyIsOfKeys ==
  ASSUME NEW o, NEW p, NEW a, NEW b, NEW c, NEW d,
         a.name = c.name, a.owner = c.owner, b.name = d.name, b.owner = d.owner
  PROVE  /\ SameKey(o, a, p, b) <=> SameKey(o, c, p, d)
         /\ SameKey(o, a, p, b) <=> SameKey(p, b, o, a)
BY DEF SameKey, Keyed

\* Where a request stands does not matter to what it writes
LEMMA SameWrites ==
  ASSUME NEW x, NEW y,
         x.op = y.op, x.body = y.body, x.row = y.row, x.object = y.object
  PROVE  Changed(x) = Changed(y) /\ Result(x) = Result(y)
<1>1. Changed(x) = Changed(y)
  BY DEF Changed
<1>2. Held(x) = Held(y)
  BY DEF Held
<1> QED BY <1>1, <1>2 DEF Result

LEMMA InitKeys == Init => KeysAreApart
BY StoredAssumption DEF Init, KeysAreApart, NewKey, Flushed, Idle

\* Two sessions with new keys cannot flush the same one: the second waits
LEMMA FlushedIsApart ==
  ASSUME TypeOK, Alone, KeysAreApart, NEW s \in Session, Flush(s), Open(s)',
         "name" \in Changed(tx[s])
  PROVE  /\ \A o \in Object :
              rows[o] # None => ~SameKey(tx[s].object, Result(tx[s]), o, rows[o])
         /\ \A q \in Session \ {s} : NewKey(q) =>
              ~SameKey(tx[s].object, Result(tx[s]), tx[q].object, Result(tx[q]))
<1>1. ~Taken(tx[s])
  <2>1. Taken(tx[s]) => tx'[s] = Idle
    BY DEF Flush, Rollback, TypeOK
  <2> QED BY <2>1 DEF Open, Idle
<1>2. Open(s) /\ tx[s].pc = "flush"
  BY OpenIsRequest DEF Flush, Request, Open, Flushed
<1>3. \A q \in Session \ {s} : NewKey(q) =>
        ~SameKey(tx[s].object, Result(tx[s]), tx[q].object, Result(tx[q]))
  BY <1>2 DEF Flush, Waiting, WaitsFor, NewKey
<1> QED BY <1>1, <1>3 DEF Taken

LEMMA KeysStep ==
  ASSUME TypeOK, Alone, KeysAreApart, [Next]_vars
  PROVE  KeysAreApart'
<1> USE ConstantsAssumption
<1>1. ASSUME NEW s \in Session, NEW o \in Object, NEW actor \in Tenants,
             Create(s, o, actor) \/ \E body \in Patch : Update(s, o, actor, body)
      PROVE  KeysAreApart'
  <2>1. /\ tx'[s].pc = "flush" /\ \A q \in Session \ {s} : tx'[q] = tx[q]
        /\ rows' = rows
    BY <1>1, BeginType
  <2>2. \A q \in Session : NewKey(q)' => q # s /\ NewKey(q) /\ tx'[q] = tx[q]
    BY <2>1 DEF NewKey, Flushed, Changed
  <2>3. \A x : Result(x)' = Result(x)
    BY <2>1 DEF Result, Held, Changed
  <2> QED BY <2>1, <2>2, <2>3 DEF KeysAreApart
<1>2. ASSUME NEW s \in Session, Flush(s)
      PROVE  KeysAreApart'
  <2> DEFINE x == tx[s]
  <2>1. /\ \A q \in Session \ {s} : tx'[q] = tx[q]
        /\ Open(s)' => tx'[s] = [x EXCEPT !.pc = "written"]
        /\ x \in Request
    BY <1>2, EndEffect
  <2>r. rows' = rows
    BY <1>2 DEF Flush
  <2>2. Open(s)' => /\ tx'[s].object = x.object /\ Result(tx'[s]) = Result(x)
                    /\ Changed(tx'[s]) = Changed(x)
    <3>1. Open(s)' => /\ tx'[s].object = x.object /\ tx'[s].op = x.op
                      /\ tx'[s].body = x.body /\ tx'[s].row = x.row
      BY <2>1 DEF Request
    <3> QED BY <3>1, SameWrites
  <2>3. \A y : Result(y)' = Result(y)
    BY <2>r DEF Result, Held, Changed
  <2>4. NewKey(s)' => Open(s)' /\ "name" \in Changed(x)
    <3>1. NewKey(s)' => Open(s)'
      BY DEF NewKey, Flushed, Open
    <3>2. NewKey(s)' => "name" \in Changed(tx'[s])
      BY DEF NewKey, Changed
    <3> QED BY <2>2, <3>1, <3>2
  <2>5. \A q \in Session \ {s} : NewKey(q)' => NewKey(q)
    BY <2>1 DEF NewKey, Flushed, Changed
  <2>6. Result(tx[s])' = Result(tx'[s]) /\ \A q \in Session \ {s} : Result(tx[q])' = Result(tx[q])
    <3>1. Result(tx[s])' = Result(tx'[s])
      BY <2>r DEF Result
    <3>2. ASSUME NEW q \in Session \ {s}
          PROVE  Result(tx[q])' = Result(tx[q])
      <4>1. tx'[q] = tx[q]
        BY <2>1
      <4> QED BY <2>r, <4>1 DEF Result, Held, Changed
    <3> QED BY <3>1, <3>2
  <2>7. ASSUME NewKey(s)'
        PROVE  /\ Result(tx[s])' = Result(x) /\ tx'[s].object = x.object
               /\ \A o \in Object :
                    rows[o] # None => ~SameKey(x.object, Result(x), o, rows[o])
               /\ \A q \in Session \ {s} : NewKey(q) =>
                    ~SameKey(x.object, Result(x), tx[q].object, Result(tx[q]))
    BY <1>2, <2>2, <2>4, <2>6, <2>7, FlushedIsApart
  <2>8. \A q \in Session \ {s} : NewKey(s)' /\ NewKey(q) =>
           ~SameKey(tx[q].object, Result(tx[q]), x.object, Result(x))
    BY <2>7, SameKeyIsOfKeys
  <2>9. ~SameKey(x.object, Result(x), x.object, Result(x))
    BY DEF SameKey
  <2> HIDE DEF x
  <2>10. ASSUME NEW p \in Session, NewKey(p)'
         PROVE  /\ \A o \in Object :
                     rows'[o] # None => ~SameKey(tx'[p].object, Result(tx[p])', o, rows'[o])
                /\ \A q \in Session : NewKey(q)' =>
                     ~SameKey(tx'[p].object, Result(tx[p])', tx'[q].object, Result(tx[q])')
    <3>1. CASE p = s
      BY <2>1, <2>r, <2>5, <2>6, <2>7, <2>9, <2>10, <3>1
    <3>2. CASE p # s
      <4>1. NewKey(p) /\ tx'[p] = tx[p] /\ Result(tx[p])' = Result(tx[p])
        BY <2>1, <2>5, <2>6, <2>10, <3>2
      <4>2. /\ \A o \in Object :
                 rows[o] # None => ~SameKey(tx[p].object, Result(tx[p]), o, rows[o])
            /\ \A q \in Session : NewKey(q) =>
                 ~SameKey(tx[p].object, Result(tx[p]), tx[q].object, Result(tx[q]))
        BY <4>1 DEF KeysAreApart
      <4> QED BY <2>1, <2>r, <2>5, <2>6, <2>7, <2>8, <3>2, <4>1, <4>2
    <3> QED BY <3>1, <3>2
  <2>11. \A o, p \in Object :
           rows'[o] # None /\ rows'[p] # None => ~SameKey(o, rows'[o], p, rows'[p])
    BY <2>r DEF KeysAreApart
  <2> QED BY <2>10, <2>11 DEF KeysAreApart, SameKey, Keyed
<1>3. ASSUME NEW s \in Session, tx' = [tx EXCEPT ![s] = Idle], rows' = rows
      PROVE  KeysAreApart'
  <2>1. \A q \in Session : NewKey(q)' => NewKey(q) /\ tx'[q] = tx[q]
    BY <1>3 DEF NewKey, Flushed, Changed, Idle, TypeOK
  <2>2. \A q \in Session : tx'[q] = tx[q] => Result(tx[q])' = Result(tx[q])
    <3> SUFFICES ASSUME NEW q \in Session, tx'[q] = tx[q]
                 PROVE  Result(tx[q])' = Result(tx[q])
      OBVIOUS
    <3> QED BY <1>3 DEF Result, Held, Changed
  <2> QED BY <1>3, <2>1, <2>2 DEF KeysAreApart, SameKey, Keyed
<1>4. ASSUME NEW s \in Session, Commit(s),
             tx' = [tx EXCEPT ![s] = Idle], rows' = [rows EXCEPT ![tx[s].object] = Result(tx[s])]
      PROVE  KeysAreApart'
  <2> DEFINE x == tx[s]
  <2>1. \A q \in Session : NewKey(q)' => q # s /\ NewKey(q) /\ tx'[q] = tx[q] /\ Open(q)
    BY <1>4 DEF NewKey, Flushed, Changed, Idle, TypeOK, Open
  <2>2. /\ Open(s) /\ x \in Request /\ x.object \in Object /\ Alone!(s)
    BY <1>4, OpenIsRequest DEF Commit, Alone, Request
  <2>3. x.op = "update" => rows[x.object] # None
    BY <2>2
  <2>4. /\ Result(x) \in Row
        /\ x.op = "update" => Result(x).owner = rows[x.object].owner
        /\ x.op = "update" /\ "name" \notin Changed(x) => Result(x).name = rows[x.object].name
        /\ x.op = "create" => "name" \in Changed(x)
    BY <2>2, <2>3, ResultType DEF Changed, Attribute
  <2>5. /\ rows'[x.object] = Result(x)
        /\ \A o \in Object : o # x.object => rows'[o] = rows[o]
        /\ x.op \in {"create", "update"}
    BY <1>4, <2>2 DEF TypeOK, Request
  <2>6. ASSUME NEW q \in Session, NewKey(q)'
        PROVE  /\ Result(tx[q])'.name = Result(tx[q]).name
               /\ Result(tx[q])'.owner = Result(tx[q]).owner
    <3> DEFINE y == tx[q]
               n(row) == IF "name" \in Changed(y) THEN Held(y).name ELSE row.name
               a(row) == IF "active" \in Changed(y) THEN Held(y).active ELSE row.active
               left(row) == [row EXCEPT !.name = n(row), !.active = a(row)]
    <3>1. Open(q) /\ "name" \in Changed(y) /\ tx'[q] = y /\ q # s
      BY <2>1, <2>6 DEF NewKey
    <3>2. y \in Request /\ Alone!(q)
      BY <3>1, OpenIsRequest DEF Alone
    <3>3. CASE y.op = "create"
      BY <3>1, <3>3 DEF Result
    <3>4. CASE y.op = "update"
      <4>1. Result(y) = left(rows[y.object]) /\ Result(tx[q])' = left(rows'[y.object])
        BY <3>1, <3>4 DEF Result, Held, Changed
      <4>2. /\ rows[y.object] \in Row /\ y.object \in Object /\ rows'[y.object] \in Row
            /\ rows'[y.object].owner = rows[y.object].owner
        <5>1. rows[y.object] \in Row /\ y.object \in Object
          BY <3>1, <3>2, <3>4 DEF TypeOK, Request
        <5>2. x.op = "create" => y.object # x.object
          BY <2>2, <3>1
        <5> QED BY <2>4, <2>5, <5>1, <5>2
      <4>3. n(rows[y.object]) = n(rows'[y.object])
        BY <3>1
      <4> HIDE DEF n, a, y
      <4> QED BY <4>1, <4>2, <4>3 DEF Row, y
    <3> QED BY <3>2, <3>3, <3>4 DEF Request
  <2>7. ASSUME "name" \in Changed(x)
        PROVE  NewKey(s)
    BY <1>4, <2>7 DEF NewKey, Commit
  <2> HIDE DEF x
  <2>8. ASSUME NEW o \in Object, NEW p \in Object, rows'[o] # None, rows'[p] # None
        PROVE  ~SameKey(o, rows'[o], p, rows'[p])
    <3>1. ASSUME NEW u \in Object, u # x.object, rows[u] # None
          PROVE  ~SameKey(x.object, Result(x), u, rows[u])
      <4>1. CASE "name" \in Changed(x)
        BY <2>7, <3>1, <4>1 DEF KeysAreApart, x
      <4>2. CASE "name" \notin Changed(x)
        <5>1. ~SameKey(x.object, rows[x.object], u, rows[u])
          BY <2>2, <2>3, <2>4, <2>5, <3>1, <4>2 DEF KeysAreApart
        <5> QED BY <2>4, <2>5, <4>2, <5>1, SameKeyIsOfKeys
      <4> QED BY <4>1, <4>2
    <3>2. CASE o # x.object /\ p # x.object
      BY <2>5, <2>8, <3>2 DEF KeysAreApart
    <3>3. CASE o = x.object /\ p # x.object
      BY <2>5, <2>8, <3>1, <3>3
    <3>4. CASE p = x.object /\ o # x.object
      BY <2>5, <2>8, <3>1, <3>4, SameKeyIsOfKeys
    <3>5. CASE o = p
      BY <3>5 DEF SameKey
    <3> QED BY <3>2, <3>3, <3>4, <3>5
  <2>9. ASSUME NEW p \in Session, NewKey(p)'
        PROVE  /\ \A o \in Object :
                    rows'[o] # None => ~SameKey(tx'[p].object, Result(tx[p])', o, rows'[o])
               /\ \A q \in Session : NewKey(q)' =>
                    ~SameKey(tx'[p].object, Result(tx[p])', tx'[q].object, Result(tx[q])')
    <3>1. NewKey(p) /\ tx'[p] = tx[p] /\ p # s
      BY <2>1, <2>9
    <3>2. ASSUME NEW o \in Object, rows'[o] # None
          PROVE  ~SameKey(tx[p].object, Result(tx[p]), o, rows'[o])
      <4>1. CASE o # x.object
        BY <2>5, <3>1, <3>2, <4>1 DEF KeysAreApart
      <4>2. CASE o = x.object /\ "name" \in Changed(x)
        BY <2>5, <2>7, <3>1, <4>2 DEF KeysAreApart, x
      <4>3. CASE o = x.object /\ "name" \notin Changed(x)
        <5>1. ~SameKey(tx[p].object, Result(tx[p]), o, rows[o])
          BY <2>2, <2>3, <2>4, <2>5, <3>1, <4>3 DEF KeysAreApart
        <5> QED BY <2>4, <2>5, <4>3, <5>1, SameKeyIsOfKeys
      <4> QED BY <4>1, <4>2, <4>3
    <3>3. ASSUME NEW o \in Object, rows'[o] # None
          PROVE  ~SameKey(tx'[p].object, Result(tx[p])', o, rows'[o])
      BY <2>6, <2>9, <3>1, <3>2, <3>3, SameKeyIsOfKeys
    <3>4. ASSUME NEW q \in Session, NewKey(q)'
          PROVE  ~SameKey(tx'[p].object, Result(tx[p])', tx'[q].object, Result(tx[q])')
      <4>1. NewKey(q) /\ tx'[q] = tx[q]
        BY <2>1, <3>4
      <4>2. ~SameKey(tx[p].object, Result(tx[p]), tx[q].object, Result(tx[q]))
        BY <3>1, <4>1 DEF KeysAreApart
      <4> QED BY <2>6, <2>9, <3>1, <3>4, <4>1, <4>2, SameKeyIsOfKeys
    <3> QED BY <3>3, <3>4
  <2> QED BY <2>8, <2>9 DEF KeysAreApart, SameKey, Keyed
<1>5. CASE UNCHANGED vars
  BY <1>5 DEF vars, KeysAreApart, NewKey, Flushed, Changed, Result, Held, SameKey, Keyed
<1>6. ASSUME NEW s \in Session, Commit(s) \/ Abort(s) \/ BreakDeadlock(s)
      PROVE  KeysAreApart'
  <2>1. \/ tx' = [tx EXCEPT ![s] = Idle] /\ rows' = rows
        \/ Commit(s) /\ tx' = [tx EXCEPT ![s] = Idle]
           /\ rows' = [rows EXCEPT ![tx[s].object] = Result(tx[s])]
    BY <1>6 DEF Commit, Abort, BreakDeadlock, Rollback
  <2> QED BY <2>1, <1>3, <1>4
<1> QED BY <1>1, <1>2, <1>5, <1>6 DEF Next

----------------------------------------------------------------------------
LEMMA AuditStep ==
  ASSUME TypeOK, Alone, AuditTellsWhatHappened, [Next]_vars
  PROVE  AuditTellsWhatHappened'
<1>1. CASE UNCHANGED <<audit, done>>
  BY <1>1 DEF AuditTellsWhatHappened
<1>2. ASSUME NEW s \in Session, Commit(s), ~Unserialisable(tx[s])
      PROVE  AuditTellsWhatHappened'
  <2> DEFINE x == tx[s]
             entry == [n |-> x.n, action |-> x.op, object |-> x.object, before |-> Before(x)]
             d == [n |-> x.n, op |-> x.op, object |-> x.object, row |-> Result(x),
                   at |-> requests]
  <2>1. /\ audit' = audit \cup (IF Audited(x) THEN {entry} ELSE {})
        /\ done' = done \cup {d}
    BY <1>2 DEF Commit
  <2>2. Open(s) /\ x \in Request /\ Alone!(s)
    BY <1>2, OpenIsRequest DEF Commit, Alone
  <2>3. Kind[x.object] \in {"Tenant", "User", "Role"} => Audited(x)
    BY <2>2 DEF Audited, Request
  <2>4. /\ entry.n = d.n /\ entry.object = d.object /\ entry.action = d.op
        /\ d.object = x.object
    OBVIOUS
  <2> HIDE DEF x, entry, d
  <2> QED BY <2>1, <2>3, <2>4 DEF AuditTellsWhatHappened
<1> QED BY <1>1, <1>2 DEF Next, Flush, Commit, Abort, BreakDeadlock, Create, Update, Begin, vars

----------------------------------------------------------------------------
\* What is in the table, and what an open update has read of it, is what was
\* stored at first or what a commit has left: for the update, before it began.
RowsAreOfThePast ==
  /\ \A o \in Object : rows[o] # None => HeldBefore(done, o, rows[o], requests + 1)
  /\ \A s \in Session : Open(s) /\ tx[s].op = "update"
       => HeldBefore(done, tx[s].object, tx[s].row, tx[s].n)

\* Nothing that was held before is forgotten.
LEMMA PastStays ==
  ASSUME NEW o, NEW row, NEW n \in Nat, NEW m \in Nat, n <= m, TypeOK, done \subseteq done',
         HeldBefore(done, o, row, n)
  PROVE  HeldBefore(done, o, row, m) /\ HeldBefore(done', o, row, m)
<1>1. \A d \in done : d.at \in Nat
  BY DEF TypeOK
<1> QED BY <1>1 DEF HeldBefore

LEMMA PastStep ==
  ASSUME TypeOK, Alone, RowsAreOfThePast, BeforeWasHeld, [Next]_vars
  PROVE  RowsAreOfThePast' /\ BeforeWasHeld'
<1> USE ConstantsAssumption
<1>0. requests \in Nat /\ (\A e \in audit : e.n \in Nat) /\ (\A s \in Session : Open(s) => tx[s].n \in Nat)
  BY OpenIsRequest DEF TypeOK, Request
<1>1. ASSUME NEW s \in Session, NEW o \in Object, NEW actor \in Tenants,
             Create(s, o, actor) \/ \E body \in Patch : Update(s, o, actor, body)
      PROVE  RowsAreOfThePast' /\ BeforeWasHeld'
  <2>1. /\ UNCHANGED <<rows, audit, done>> /\ \A q \in Session \ {s} : tx'[q] = tx[q]
        /\ tx'[s].object = o /\ (tx'[s].op = "update" => rows[o] # None)
    BY <1>1, BeginType
  <2>2. /\ requests' = requests + 1
        /\ tx'[s].op = "update" => tx'[s].row = rows[o] /\ tx'[s].n = requests + 1
    BY <1>1 DEF Create, Update, Begin, TypeOK
  <2>3. \A p \in Object : rows'[p] # None => HeldBefore(done', p, rows'[p], requests' + 1)
    BY <1>0, <2>1, <2>2, PastStays DEF RowsAreOfThePast
  <2>4. tx'[s].op = "update" => HeldBefore(done', tx'[s].object, tx'[s].row, tx'[s].n)
    BY <1>0, <2>1, <2>2, PastStays DEF RowsAreOfThePast
  <2>5. \A q \in Session \ {s} : Open(q)' /\ tx'[q].op = "update"
          => HeldBefore(done', tx'[q].object, tx'[q].row, tx'[q].n)
    BY <1>0, <2>1, PastStays DEF RowsAreOfThePast, Open
  <2>6. BeforeWasHeld'
    BY <1>0, <2>1, PastStays DEF BeforeWasHeld
  <2> QED BY <2>3, <2>4, <2>5, <2>6 DEF RowsAreOfThePast
<1>2. ASSUME NEW s \in Session, Flush(s) \/ Commit(s) \/ Abort(s) \/ BreakDeadlock(s)
      PROVE  RowsAreOfThePast' /\ BeforeWasHeld'
  <2> DEFINE x == tx[s]
             d == [n |-> x.n, op |-> x.op, object |-> x.object, row |-> Result(x),
                   at |-> requests]
             e == [n |-> x.n, action |-> x.op, object |-> x.object, before |-> Before(x)]
  <2>1. /\ x \in Request /\ x.object \in Object
        /\ \A q \in Session \ {s} : tx'[q] = tx[q]
        /\ Open(s)' => tx'[s] = [x EXCEPT !.pc = "written"]
        /\ requests' = requests
    BY <1>2, EndEffect
  <2>2. Open(s)
    BY <1>2, OpenIsRequest DEF Flush, Commit, Abort, BreakDeadlock, Waiting, WaitsFor
  <2>3. \/ UNCHANGED <<rows, audit, done>>
        \/ /\ rows' = [rows EXCEPT ![x.object] = Result(x)]
           /\ done' = done \cup {d} /\ audit' \subseteq audit \cup {e}
    BY <1>2 DEF Flush, Commit, Abort, BreakDeadlock
  <2>4. done \subseteq done'
    BY <2>3
  <2>5. Open(s)' => /\ tx'[s].op = x.op /\ tx'[s].object = x.object /\ tx'[s].row = x.row
                    /\ tx'[s].n = x.n
    BY <2>1 DEF Request
  <2>6. \A q \in Session : Open(q)' /\ tx'[q].op = "update"
          => HeldBefore(done', tx'[q].object, tx'[q].row, tx'[q].n)
    <3> SUFFICES ASSUME NEW q \in Session, Open(q)', tx'[q].op = "update"
                 PROVE  HeldBefore(done', tx'[q].object, tx'[q].row, tx'[q].n)
      OBVIOUS
    <3>1. /\ Open(q) /\ tx[q].op = "update" /\ tx'[q].object = tx[q].object
          /\ tx'[q].row = tx[q].row /\ tx'[q].n = tx[q].n
      BY <2>1, <2>2, <2>5 DEF Open
    <3>2. HeldBefore(done, tx[q].object, tx[q].row, tx[q].n)
      BY <3>1 DEF RowsAreOfThePast
    <3>3. HeldBefore(done', tx[q].object, tx[q].row, tx[q].n)
      BY <1>0, <2>4, <3>1, <3>2, PastStays
    <3> QED BY <3>1, <3>3
  <2>7. ASSUME NEW o \in Object, rows'[o] # None
        PROVE  HeldBefore(done', o, rows'[o], requests' + 1)
    <3>1. CASE rows'[o] = rows[o]
      <4>1. HeldBefore(done, o, rows[o], requests + 1)
        BY <2>7, <3>1 DEF RowsAreOfThePast
      <4>2. HeldBefore(done', o, rows[o], requests + 1)
        BY <1>0, <2>4, <4>1, PastStays
      <4> QED BY <2>1, <3>1, <4>2
    <3>2. CASE rows'[o] # rows[o]
      <4>1. d \in done' /\ d.object = o /\ d.row = rows'[o] /\ d.at < requests' + 1
        BY <1>0, <2>1, <2>3, <3>2 DEF TypeOK
      <4> QED BY <4>1 DEF HeldBefore
    <3> QED BY <3>1, <3>2
  <2>8. BeforeWasHeld'
    <3> SUFFICES ASSUME NEW a \in audit', a.action = "update"
                 PROVE  HeldBefore(done', a.object, a.before, a.n)
      BY DEF BeforeWasHeld
    <3>1. CASE a \in audit
      BY <1>0, <2>4, <3>1, PastStays DEF BeforeWasHeld
    <3>2. CASE a = e
      <4>1. a.object = x.object /\ a.before = x.row /\ a.n = x.n /\ x.op = "update"
        BY <3>2 DEF Before
      <4>2. HeldBefore(done, x.object, x.row, x.n)
        BY <2>2, <4>1 DEF RowsAreOfThePast
      <4> QED BY <1>0, <2>2, <2>4, <4>1, <4>2, PastStays
    <3> QED BY <2>3, <3>1, <3>2
  <2> QED BY <2>6, <2>7, <2>8 DEF RowsAreOfThePast
<1>3. CASE UNCHANGED vars
  BY <1>3 DEF vars, RowsAreOfThePast, BeforeWasHeld, HeldBefore, Open
<1> QED BY <1>1, <1>2, <1>3 DEF Next

----------------------------------------------------------------------------
\* The lock of a row: two sessions have not both written one
RowsAreLocked ==
  \A s, q \in Session :
    /\ s # q /\ Flushed(s) /\ Flushed(q) /\ tx[s].object = tx[q].object
    => Changed(tx[s]) = {} \/ Changed(tx[q]) = {}

LEMMA LocksStep ==
  ASSUME TypeOK, Alone, RowsAreLocked, [Next]_vars
  PROVE  RowsAreLocked'
<1>1. ASSUME NEW s \in Session, \A q \in Session \ {s} : tx'[q] = tx[q],
             Flushed(s)' => /\ tx'[s].object = tx[s].object
                            /\ Changed(tx'[s]) = Changed(tx[s])
                            /\ Changed(tx[s]) # {} =>
                                 \A q \in Session \ {s} :
                                   Flushed(q) /\ tx[s].object = tx[q].object
                                     => Changed(tx[q]) = {}
      PROVE  RowsAreLocked'
  <2>1. \A q \in Session : Changed(tx[q])' = Changed(tx'[q])
    BY DEF Changed
  <2>2. \A q \in Session \ {s} : Flushed(q)' => Flushed(q)
    BY <1>1 DEF Flushed
  <2>3. \A q \in Session \ {s} : Flushed(s)' /\ Flushed(q)' /\ tx'[s].object = tx'[q].object
          => Changed(tx'[s]) = {} \/ Changed(tx'[q]) = {}
    BY <1>1, <2>2
  <2>4. \A p, q \in Session \ {s} :
          p # q /\ Flushed(p)' /\ Flushed(q)' /\ tx'[p].object = tx'[q].object
          => Changed(tx'[p]) = {} \/ Changed(tx'[q]) = {}
    BY <1>1, <2>2 DEF RowsAreLocked
  <2> QED BY <2>1, <2>3, <2>4 DEF RowsAreLocked
<1>2. ASSUME NEW s \in Session, NEW o \in Object, NEW actor \in Tenants,
             Create(s, o, actor) \/ \E body \in Patch : Update(s, o, actor, body)
      PROVE  RowsAreLocked'
  <2>1. tx'[s].pc = "flush" /\ \A q \in Session \ {s} : tx'[q] = tx[q]
    BY <1>2, BeginType
  <2> QED BY <1>1, <2>1 DEF Flushed
<1>3. ASSUME NEW s \in Session, Flush(s)
      PROVE  RowsAreLocked'
  <2>1. /\ tx[s] \in Request /\ \A q \in Session \ {s} : tx'[q] = tx[q]
        /\ Open(s)' => tx'[s] = [tx[s] EXCEPT !.pc = "written"]
    BY <1>3, EndEffect
  <2>2. Flushed(s)' => /\ tx'[s].object = tx[s].object
                       /\ Changed(tx'[s]) = Changed(tx[s])
    <3>1. Flushed(s)' => Open(s)'
      BY DEF Flushed, Open
    <3>2. Flushed(s)' => /\ tx'[s].object = tx[s].object /\ tx'[s].op = tx[s].op
                         /\ tx'[s].body = tx[s].body /\ tx'[s].row = tx[s].row
      BY <2>1, <3>1 DEF Request
    <3> QED BY <3>2, SameWrites
  <2>3. /\ tx[s].pc = "flush" /\ Open(s)
        /\ \A q \in Session : ~WaitsFor(s, q)
    BY <1>3, <2>1 DEF Flush, Waiting, Flushed, Request
  <2>4. Changed(tx[s]) # {} =>
          \A q \in Session \ {s} :
            Flushed(q) /\ tx[s].object = tx[q].object => Changed(tx[q]) = {}
    BY <2>3 DEF WaitsFor
  <2> QED BY <1>1, <2>1, <2>2, <2>4
<1>4. ASSUME NEW s \in Session, Commit(s) \/ Abort(s) \/ BreakDeadlock(s)
      PROVE  RowsAreLocked'
  <2>1. tx' = [tx EXCEPT ![s] = Idle]
    BY <1>4 DEF Commit, Abort, BreakDeadlock, Rollback
  <2>2. ~Flushed(s)' /\ \A q \in Session \ {s} : tx'[q] = tx[q]
    BY <2>1 DEF Flushed, Idle, TypeOK
  <2> QED BY <1>1, <2>2
<1>5. CASE UNCHANGED vars
  BY <1>5 DEF vars, RowsAreLocked, Flushed, Changed
<1> QED BY <1>2, <1>3, <1>4, <1>5 DEF Next

\* Who is waited for has written, and who has written waits for its audit entry
LEMMA WaitsOnceWritten ==
  ASSUME TypeOK, NEW p \in Session, NEW q \in Session, WaitsFor(p, q)
  PROVE  /\ p # q /\ Flushed(q) /\ tx[q] \in Request
         /\ Flushed(p) => Audited(tx[p]) /\ Renames(tx[q], tx[p].actor)
BY OpenIsRequest DEF WaitsFor, Flushed

----------------------------------------------------------------------------
LEMMA Invariance == Spec => [](TypeOK /\ Alone /\ KeysAreApart /\ RowsAreLocked)
<1> DEFINE IInv == TypeOK /\ Alone /\ KeysAreApart /\ RowsAreLocked
<1>1. Init => IInv
  BY InitType, InitKeys DEF Init, RowsAreLocked, Flushed, Idle
<1>2. IInv /\ [Next]_vars => IInv'
  BY TypeStep, KeysStep, LocksStep
<1> QED BY <1>1, <1>2, PTL DEF Spec

\* Every variable of administration has its type.
THEOREM AdminTypes == Spec => []TypeOK
BY Invariance, PTL

\* However requests fail, break or deadlock, the audit log has the entries of
\* those that were committed, and no others.
THEOREM AuditIsTrue == Spec => []AuditTellsWhatHappened
<1>1. Init => AuditTellsWhatHappened
  BY DEF Init, AuditTellsWhatHappened
<1>2. TypeOK /\ Alone /\ AuditTellsWhatHappened /\ [Next]_vars => AuditTellsWhatHappened'
  BY AuditStep
<1> QED BY <1>1, <1>2, Invariance, PTL DEF Spec

\* Whatever overlaps, an audit entry's "before" was the committed row when the
\* request began.
THEOREM BeforeIsOfTheTable == Spec => []BeforeWasHeld
<1>1. Init => RowsAreOfThePast /\ BeforeWasHeld
  BY DEF Init, RowsAreOfThePast, BeforeWasHeld, HeldBefore, Open, Idle
<1>2. TypeOK /\ Alone /\ RowsAreOfThePast /\ BeforeWasHeld /\ [Next]_vars
        => RowsAreOfThePast' /\ BeforeWasHeld'
  BY PastStep
<1> QED BY <1>1, <1>2, Invariance, PTL DEF Spec

\* However many administrators create and rename at once, a unique name has one
\* owner.
THEOREM NamesStayUnique == Spec => []NamesAreUnique
<1>1. KeysAreApart => NamesAreUnique
  BY DEF KeysAreApart, NamesAreUnique, SameKey, Keyed
<1> QED BY <1>1, Invariance, PTL

\* Only those who give new names to tenants of others can wait for each other:
\* all of a ring have written, so each of them waits because one of the others
\* renames its actor's tenant, and the lock of that row has one owner.
THEOREM DeadlocksNeedRenames == Spec => []DeadlocksAreOfRenames
<1>1. TypeOK /\ RowsAreLocked => DeadlocksAreOfRenames
  <2> SUFFICES ASSUME TypeOK, RowsAreLocked, NEW P \in SUBSET Session,
                      \A p \in P : (\E q \in P : WaitsFor(p, q)) /\ (\E q \in P : WaitsFor(q, p)),
                      NEW p \in P
               PROVE  /\ tx[p].op = "update" /\ Kind[tx[p].object] = "Tenant"
                      /\ tx[p].object # tx[p].actor
                      /\ "name" \in DOMAIN tx[p].body /\ tx[p].body["name"] # tx[p].row.name
    BY DEF DeadlocksAreOfRenames
  <2>1. \A q \in P : q \in Session /\ Flushed(q) /\ tx[q] \in Request
    BY WaitsOnceWritten
  <2>2. PICK q \in P : WaitsFor(q, p)
    OBVIOUS
  <2>3. PICK o \in P : WaitsFor(p, o)
    OBVIOUS
  <2>4. Renames(tx[p], tx[q].actor)
    BY <2>1, <2>2, WaitsOnceWritten
  <2>5. Renames(tx[o], tx[p].actor) /\ o # p
    BY <2>1, <2>3, WaitsOnceWritten
  <2>6. tx[p].object # tx[p].actor
    <3>1. Changed(tx[p]) # {} /\ Changed(tx[o]) # {} /\ tx[o].object = tx[p].actor
      BY <2>4, <2>5 DEF Renames
    <3> QED BY <2>1, <2>5, <3>1 DEF RowsAreLocked
  <2>7. Kind[tx[p].object] = "Tenant"
    BY <2>1, <2>4 DEF Renames, Request, Tenants
  <2> QED BY <2>4, <2>6, <2>7 DEF Renames, Changed
<1> QED BY <1>1, Invariance, PTL

\* A patch that was read before another one was committed undoes none of it that
\* it does not name.
THEOREM PatchesAreNarrow == Spec => PatchesChangeWhatTheyName
<1> DEFINE Named == \A o \in Object : rows[o] # None =>
             \A a \in Attribute : rows'[o][a] # rows[o][a] =>
               \E s \in Session : /\ Flushed(s) /\ ~Open(s)'
                                  /\ tx[s].object = o /\ a \in DOMAIN tx[s].body
<1>1. TypeOK /\ Alone /\ [Next]_vars => [Named]_vars
  <2> SUFFICES ASSUME TypeOK, Alone, Next, NEW o \in Object, rows[o] # None,
                      NEW a \in Attribute, rows'[o][a] # rows[o][a]
               PROVE  \E s \in Session : /\ Flushed(s) /\ ~Open(s)'
                                         /\ tx[s].object = o /\ a \in DOMAIN tx[s].body
    OBVIOUS
  <2>1. PICK s \in Session : /\ Commit(s) /\ tx' = [tx EXCEPT ![s] = Idle]
                             /\ rows' = [rows EXCEPT ![tx[s].object] = Result(tx[s])]
    BY DEF Next, Flush, Commit, Abort, BreakDeadlock, Create, Update, Begin
  <2>2. Flushed(s) /\ Open(s) /\ tx[s] \in Request /\ Alone!(s)
    BY <2>1, OpenIsRequest DEF Commit, Alone
  <2>3. ~Open(s)'
    BY <2>1 DEF Open, Idle, TypeOK
  <2>4. tx[s].object = o /\ rows'[o] = Result(tx[s])
    BY <2>1, <2>2 DEF TypeOK, Request
  <2>5. tx[s].op = "update"
    BY <2>2, <2>4 DEF Request
  <2>6. a \in Changed(tx[s])
    BY <2>2, <2>4, <2>5, ResultType DEF Attribute
  <2> QED BY <2>2, <2>3, <2>4, <2>5, <2>6 DEF Changed
<1>2. [][Named]_vars => PatchesChangeWhatTheyName
  BY DEF PatchesChangeWhatTheyName
<1> HIDE DEF Named
<1> QED BY <1>1, <1>2, Invariance, PTL DEF Spec
=============================================================================

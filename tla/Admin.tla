------------------------------- MODULE Admin -------------------------------
(***************************************************************************)
(* Administration: requests that create and patch tenants, locations,      *)
(* users and the rest, and the audit log that some of them write, in the   *)
(* same transaction.                                                       *)
(*                                                                         *)
(* A patch reads the row without a lock, assigns the attributes it names,  *)
(* and flushes: the ORM writes the attributes whose value differs from     *)
(* what was read, and takes the row's lock.  The audit entry is inserted   *)
(* by the flush of the commit.  Its foreign key looks at the actor's       *)
(* tenant, and waits there for a transaction that renames that tenant,     *)
(* because tenants' names are unique.                                      *)
(*                                                                         *)
(* Everything else of a row, tenants' slugs, and requests refused for the  *)
(* actor's role are left out.                                              *)
(***************************************************************************)
EXTENDS Naturals, Sequences, FiniteSets, Relation

CONSTANTS
  Object, Session, Name,
  Kind,         \* the table of each object; Plain: services, counters, channels;
                \* Role: user_roles, the roles assigned to users
  Stored,       \* the rows there are at first (written by the seed script)
  Patch,        \* bound: the bodies of updates, see Bodies
  NewName,      \* bound: the names given to what is created
  None,
  MaxRequests   \* bound: requests

Attribute == {"name", "active"}

Values == [name |-> Name, active |-> BOOLEAN]

\* An update's body, without the attributes that are null
Bodies == {p \in UNION {[S -> Name \cup BOOLEAN] : S \in SUBSET Attribute} :
             \A a \in DOMAIN p : p[a] \in Values[a]}

\* What a row belongs to is its tenant, and for an assigned role, whose name is
\* that of the role, its user
Row == [name : Name, active : BOOLEAN, owner : Object \cup {None}]

ASSUME ConstantsAssumption ==
  /\ Kind \in [Object -> {"Tenant", "Location", "User", "Role", "Plain"}]
  /\ None \notin Object \cup Row
  /\ Stored \in [Object -> Row \cup {None}]
  /\ Patch \subseteq Bodies /\ NewName \subseteq Name
  /\ MaxRequests \in Nat

VARIABLES
  rows,      \* per object: its committed row, or None
  tx,        \* per session: the request it serves
  audit,     \* audit_log: the entries
  done,      \* history: the requests that were committed, with the row they left, and
             \* how many requests had been begun then (at)
  requests   \* how many of MaxRequests were begun

vars == <<rows, tx, audit, done, requests>>

Tenants == {o \in Object : Kind[o] = "Tenant"}

Idle == [pc |-> "idle"]

\* A request: to be flushed or flushed; its number; the actor's tenant; for an
\* update the row as read, for a create the whole row
Request == [pc : {"flush", "written"}, n : 1..MaxRequests, op : {"create", "update"},
            object : Object, actor : Tenants, body : Bodies, row : Row]

Init ==
  /\ rows = Stored
  /\ tx = [s \in Session |-> Idle]
  /\ audit = {} /\ done = {} /\ requests = 0

----------------------------------------------------------------------------
\* What a request reads and writes

Open(s) == tx[s].pc # "idle"
Flushed(s) == tx[s].pc = "written"

\* Mutant: an update writes every attribute of the object it loaded
BugChanged(x) == IF x.op = "create" \/ x.body # << >> THEN Attribute ELSE {}

\* The attributes an INSERT or UPDATE sets: of an update, those whose value
\* differs from the one read
Changed(x) ==
  IF x.op = "create" THEN Attribute ELSE {a \in DOMAIN x.body : x.body[a] # x.row[a]}

\* The object as the session holds it
Held(x) ==
  [x.row EXCEPT !.name = IF "name" \in DOMAIN x.body THEN x.body["name"] ELSE @,
                !.active = IF "active" \in DOMAIN x.body THEN x.body["active"] ELSE @]

\* Mutant: what the body does not name is written as null
BugResult(x) ==
  IF x.op = "create" THEN x.row
  ELSE [rows[x.object] EXCEPT
          !.name = IF "name" \in DOMAIN x.body THEN x.body["name"] ELSE None,
          !.active = IF "active" \in DOMAIN x.body THEN x.body["active"] ELSE @]

\* The row that the statement leaves, given the row that is there
Result(x) ==
  IF x.op = "create" THEN x.row
  ELSE [rows[x.object] EXCEPT
          !.name = IF "name" \in Changed(x) THEN Held(x).name ELSE @,
          !.active = IF "active" \in Changed(x) THEN Held(x).active ELSE @]

\* tenants.name, users (tenant, email) and user_roles (user, role) are unique
Keyed(o) == Kind[o] \in {"Tenant", "User", "Role"}

SameKey(o, row, p, other) ==
  /\ Keyed(o) /\ Kind[o] = Kind[p] /\ o # p
  /\ row.name = other.name /\ row.owner = other.owner

\* The rows there are at first are unique
ASSUME StoredAssumption ==
  \A o, p \in Object :
    Stored[o] # None /\ Stored[p] # None => ~SameKey(o, Stored[o], p, Stored[p])

\* The unique constraint refuses the row
Taken(x) ==
  \E o \in Object : /\ "name" \in Changed(x) /\ rows[o] # None
                    /\ SameKey(x.object, Result(x), o, rows[o])

\* Mutant: an update of a tenant is audited in a transaction of its own
BugAudited(x) == x.op = "create" /\ Kind[x.object] # "Plain"

\* Which requests call _audit
Audited(x) ==
  \/ x.op = "create" /\ Kind[x.object] \in {"Tenant", "Location", "User", "Role"}
  \/ x.op = "update" /\ Kind[x.object] = "Tenant"

\* Mutant: before is taken from the object after BaseRepository.update
BugBefore(x) == IF x.op = "update" THEN Held(x) ELSE None

\* before_json
Before(x) == IF x.op = "update" THEN x.row ELSE None

\* create_location's after holds a UUID, which the JSON column does not take
Unserialisable(x) == x.op = "create" /\ Kind[x.object] = "Location"

----------------------------------------------------------------------------
\* Waiting (row locks, the unique index, foreign keys)

Renames(x, t) == x.object = t /\ x.op = "update" /\ "name" \in Changed(x)

\* s waits for q, which has written and not committed
WaitsFor(s, q) ==
  LET x == tx[s]
      y == tx[q]
  IN /\ s # q /\ Open(s) /\ Flushed(q)
     /\ \/ /\ x.pc = "flush"
           /\ \/ x.object = y.object /\ Changed(x) # {} /\ Changed(y) # {}
              \/ /\ "name" \in Changed(x) /\ "name" \in Changed(y)
                 /\ \/ SameKey(x.object, Result(x), y.object, Result(y))
                    \/ y.op = "update" /\ SameKey(x.object, Result(x), y.object, rows[y.object])
              \/ x.op = "create" /\ Renames(y, x.row.owner)
              \/ y.op = "create" /\ Renames(x, y.row.owner)
        \/ /\ x.pc = "written" /\ Audited(x)
           /\ Renames(y, x.actor)

Waiting(s) == \E q \in Session : WaitsFor(s, q)

InCycle(s) == TransitiveClosure([p, q \in Session |-> WaitsFor(p, q)], Session)[s, s]

----------------------------------------------------------------------------
\* Requests

Begin(s, request) ==
  /\ ~Open(s) /\ requests < MaxRequests \* bound
  /\ requests' = requests + 1
  /\ tx' = [tx EXCEPT ![s] = request]
  /\ UNCHANGED <<rows, audit, done>>

\* get_or_404, and the assignment of what the body names
Update(s, o, actor, body) ==
  /\ rows[o] # None /\ Kind[o] \notin {"User", "Role"}
  /\ Begin(s, [pc |-> "flush", n |-> requests + 1, op |-> "update", object |-> o,
               actor |-> actor, body |-> body, row |-> rows[o]])

\* Whom a new row may belong to
Owners(o) ==
  IF Kind[o] = "Tenant" THEN {None}
  ELSE {p \in Object : rows[p] # None /\ Kind[p] = IF Kind[o] = "Role" THEN "User" ELSE "Tenant"}

\* create_... and assign_role: a new row, with an id nobody else has
Create(s, o, actor) ==
  /\ rows[o] = None /\ \A q \in Session : Open(q) => tx[q].object # o
  /\ \E name \in NewName, owner \in Owners(o) :
       Begin(s, [pc |-> "flush", n |-> requests + 1, op |-> "create", object |-> o,
                 actor |-> actor, body |-> << >>,
                 row |-> [name |-> name, active |-> TRUE, owner |-> owner]])

\* Mutant: an error leaves the transaction open
BugRollback(s) == tx' = tx

\* get_db: an error rolls the session back and closes it
Rollback(s) == tx' = [tx EXCEPT ![s] = Idle]

\* The INSERT or UPDATE, or the error of the unique constraint (a 500)
Flush(s) ==
  /\ Open(s) /\ ~Flushed(s) /\ ~Waiting(s)
  /\ IF Taken(tx[s]) THEN Rollback(s) ELSE tx' = [tx EXCEPT ![s].pc = "written"]
  /\ UNCHANGED <<rows, audit, done, requests>>

\* The audit entry is inserted and everything is committed, or, where the entry
\* cannot be written as JSON, nothing
Commit(s) ==
  LET x == tx[s]
      entry == [n |-> x.n, action |-> x.op, object |-> x.object, before |-> Before(x)]
  IN /\ Flushed(s) /\ ~Waiting(s)
     /\ IF Unserialisable(x)
        THEN Rollback(s) /\ UNCHANGED <<rows, audit, done>>
        ELSE /\ rows' = [rows EXCEPT ![x.object] = Result(x)]
             /\ audit' = audit \cup (IF Audited(x) THEN {entry} ELSE {})
             /\ done' = done \cup {[n |-> x.n, op |-> x.op, object |-> x.object,
                                    row |-> Result(x), at |-> requests]}
             /\ tx' = [tx EXCEPT ![s] = Idle]
     /\ UNCHANGED requests

\* The connection breaks, or the process stops
Abort(s) ==
  /\ Open(s) /\ Rollback(s)
  /\ UNCHANGED <<rows, audit, done, requests>>

\* PostgreSQL ends one transaction of a cycle
BreakDeadlock(s) ==
  /\ Waiting(s) /\ InCycle(s) /\ Rollback(s)
  /\ UNCHANGED <<rows, audit, done, requests>>

Next ==
  \E s \in Session :
    \/ Flush(s) \/ Commit(s) \/ Abort(s) \/ BreakDeadlock(s)
    \/ /\ ~Open(s)
       /\ \E o \in Object, actor \in Tenants :
            /\ Stored[actor] # None
            /\ Create(s, o, actor) \/ \E body \in Patch : Update(s, o, actor, body)

Spec ==
  /\ Init /\ [][Next]_vars
  /\ \A s \in Session : WF_vars(Flush(s)) /\ WF_vars(Commit(s)) /\ WF_vars(BreakDeadlock(s))

----------------------------------------------------------------------------
TypeOK ==
  /\ rows \in [Object -> Row \cup {None}]
  /\ tx \in [Session -> Request \cup {Idle}]
  /\ audit \subseteq [n : 1..MaxRequests, action : {"create", "update"}, object : Object,
                      before : Row \cup {None}]
  /\ done \subseteq [n : 1..MaxRequests, op : {"create", "update"}, object : Object,
                     row : Row, at : 0..MaxRequests]
  /\ requests \in 0..MaxRequests

\* The audit log has an entry for a change of a tenant, a new user or a role
\* assigned, exactly when the change was committed: a refused, broken or
\* deadlocked request leaves neither (_audit, in the request's transaction;
\* updates of locations are not audited).
AuditTellsWhatHappened ==
  /\ \A e \in audit : \E d \in done : d.n = e.n /\ d.object = e.object /\ d.op = e.action
  /\ \A d \in done : Kind[d.object] \in {"Tenant", "User", "Role"}
       => \E e \in audit : e.n = d.n

\* The row as stored at first, or as one of past left it that was committed
\* before the n-th request was begun
HeldBefore(past, o, row, n) ==
  row = Stored[o] \/ \E d \in past : d.object = o /\ d.row = row /\ d.at < n

\* What an audit entry of an update calls "before" was in the table when its
\* request began.  It need not be what the update replaced: patches that overlap
\* all tell of the row they read, but none of a row that was never committed, or
\* of its own result (update_tenant).
BeforeWasHeld ==
  \A e \in audit : e.action = "update" => HeldBefore(done, e.object, e.before, e.n)

\* No patch undoes another administrator's that it did not name: a commit
\* changes an attribute only of its own object, and only if its body names it,
\* although the row was read before the other patch (BaseRepository.update).
PatchesChangeWhatTheyName ==
  [][\A o \in Object : rows[o] # None =>
       \A a \in Attribute : rows'[o][a] # rows[o][a] =>
         \E s \in Session : /\ Flushed(s) /\ ~Open(s)'
                            /\ tx[s].object = o /\ a \in DOMAIN tx[s].body]_vars

\* Two tenants never have one name, two users of a tenant never one address, and
\* no user one role twice, whoever renames and creates at once.
NamesAreUnique ==
  \A o, p \in Object :
    /\ o # p /\ rows[o] # None /\ rows[p] # None
    /\ Kind[o] = Kind[p] /\ Kind[o] \in {"Tenant", "User", "Role"}
    => rows[o].name # rows[p].name \/ rows[o].owner # rows[p].owner

\* Requests wait in a ring (each for one of them, and each for it) only if all of
\* them give a new name to a tenant that is not the actor's own: creates, patches
\* of anything else and patches that change no name wait, but never for each
\* other (_audit's foreign key, the locks of UPDATE).
DeadlocksAreOfRenames ==
  \A P \in SUBSET Session :
    (\A p \in P : (\E q \in P : WaitsFor(p, q)) /\ (\E q \in P : WaitsFor(q, p)))
    => \A p \in P : LET x == tx[p] IN
         /\ x.op = "update" /\ Kind[x.object] = "Tenant" /\ x.object # x.actor
         /\ "name" \in DOMAIN x.body /\ x.body["name"] # x.row.name

\* Every request ends (they are finitely many here), also two that rename each
\* other's tenant and wait for each other, and those that waited for one that
\* failed.
EveryRequestEnds == []<>(\A s \in Session : ~Open(s))
=============================================================================

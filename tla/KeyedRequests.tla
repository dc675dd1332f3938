--------------------------- MODULE KeyedRequests ---------------------------
(***************************************************************************)
(* Idempotency keys and ticket numbers: what a request does besides        *)
(* changing the status of a ticket (TicketLifecycle).                      *)
(*                                                                         *)
(* A request with an Idempotency-Key looks the key up, does its work and   *)
(* commits, and only then saves the key, in a second transaction.  Other   *)
(* requests, with the same key or not, run between these steps.  The       *)
(* process may die or the client disconnect after any of them: that is a   *)
(* request which takes no further step, and no step is fair.  A creating   *)
(* request also reads the next number of its location before it inserts    *)
(* the ticket.                                                             *)
(*                                                                         *)
(* The row lock of an UPDATE and the order in which call-next takes the    *)
(* tickets are TicketLifecycle's: here a transaction's writes are seen at  *)
(* its commit, and call-next takes any ticket it may.                      *)
(***************************************************************************)
EXTENDS TicketFSM, Integers, FiniteSetsExt

CONSTANTS
  Request,    \* HTTP requests, as records (see ConstantsAssumption)
  Ticket, Location, Service, Tenant, Key,
  None        \* SQL NULL and Python's None

\* create_ticket, kiosk_create_ticket, call_next, start_service, complete_ticket
Creating == {"create", "kiosk"}
Kind == Creating \cup {"call_next", "start", "complete"}

ASSUME ConstantsAssumption ==
  /\ Request \subseteq [id : Nat, kind : Kind, tenant : Tenant, key : Key \cup {None},
                        location : Location, service : Service \cup {None},
                        ticket : Ticket \cup {None}]
  /\ None \notin Ticket \cup Key \cup Location \cup Status
  /\ IsFiniteSet(Ticket)
  \* start and complete name their ticket; a creating request makes up its id
  /\ \A r \in Request : r.kind # "call_next" => r.ticket # None
  /\ \A r, q \in Request : r.kind \in Creating /\ q.kind \in Creating
                             /\ r.ticket = q.ticket => r = q

VARIABLES
  rows,     \* tickets: the committed rows
  born,     \* history: per ticket, the tickets of its location when its number was read
  keys,     \* idempotency_keys
  lapsed,   \* history: the requests whose key was saved 24 hours ago
  req       \* how far each request has come

vars == <<rows, born, keys, lapsed, req>>

----------------------------------------------------------------------------
Absent == [status |-> "ABSENT", location |-> None, service |-> None, number |-> 0]

Row == [status : Status, location : Location, service : Service \cup {None},
        number : Nat \ {0}]

NoKey == [hash |-> <<>>, ticket |-> None, by |-> None, expired |-> FALSE]

\* _hash_body: what the SHA-256 tells apart.  The bodies of start and of
\* complete are both {"ticket_id": ...}; that of call-next has the service
\* filter and not the counter.
Hash(r) ==
  CASE r.kind \in Creating -> <<r.kind, r.location, r.service>>
    [] r.kind = "call_next" -> <<"service_id", r.service>>
    [] OTHER -> <<"ticket_id", r.ticket>>

KeyRow == [hash : {Hash(r) : r \in Request}, ticket : Ticket, by : Request,
           expired : BOOLEAN]

\* A request: where it is, the number it has read, the ticket its commit
\* changed (effect), the ticket it answered with (answer), and, as history,
\* the requests that had been answered for work of their own when it looked
\* its key up (earlier).
New == [pc |-> "new", number |-> 0, effect |-> None, answer |-> None, earlier |-> {}]

Pc == {"new", "missed", "loaded", "committed", "answered", "error", "unsaved"}

Init ==
  /\ rows = [t \in Ticket |-> Absent]
  /\ born = [t \in Ticket |-> {}]
  /\ keys = [k \in Tenant \X Key |-> NoKey]
  /\ lapsed = {}
  /\ req = [r \in Request |-> New]

KeyOf(r) == <<r.tenant, r.key>>

Keyed(r) == r.key # None

----------------------------------------------------------------------------
\* Looking the key up

\* Mutant: the SELECT forgets the tenant
BugLiveRows(r) ==
  {keys[k] : k \in {k \in Tenant \X Key : k[2] = r.key /\ keys[k] # NoKey
                                                     /\ ~keys[k].expired}}

\* get_idempotency_key: the row of the tenant's key, if expires_at > now()
LiveRows(r) ==
  {keys[k] : k \in {k \in Tenant \X Key : k = KeyOf(r) /\ keys[k] # NoKey
                                                     /\ ~keys[k].expired}}

\* Create and the kiosk take the row without looking at its hash
Accepts(r, row) == r.kind \in Creating \/ row.hash = Hash(r)

\* The requests a client has had an answer from, for work done under r's key
\* less than 24 hours ago
AnsweredBefore(r) ==
  {q \in Request \ lapsed : /\ Keyed(q) /\ KeyOf(q) = KeyOf(r)
                            /\ req[q].pc = "answered" /\ req[q].effect # None}

\* The key is known: the ticket is answered as it is now, and nothing is done
Replay(r) ==
  /\ req[r].pc = "new" /\ Keyed(r)
  /\ \E row \in LiveRows(r) :
       /\ Accepts(r, row)
       /\ req' = [req EXCEPT ![r].pc = "answered", ![r].answer = row.ticket]
  /\ UNCHANGED <<rows, born, keys, lapsed>>

\* 409: the key was saved for another body
Conflict(r) ==
  /\ req[r].pc = "new" /\ Keyed(r)
  /\ \E row \in LiveRows(r) : ~Accepts(r, row)
  /\ req' = [req EXCEPT ![r].pc = "error"]
  /\ UNCHANGED <<rows, born, keys, lapsed>>

Miss(r) ==
  /\ req[r].pc = "new"
  /\ Keyed(r) => LiveRows(r) = {}
  /\ req' = [req EXCEPT ![r].pc = "missed",
                        ![r].earlier = IF Keyed(r) THEN AnsweredBefore(r) ELSE {}]
  /\ UNCHANGED <<rows, born, keys, lapsed>>

----------------------------------------------------------------------------
\* Doing the work

At(l) == {t \in Ticket : rows[t].location = l}

\* Mutant: only the tickets still waiting are looked at
BugNextNumber(l) ==
  Max({0} \cup {rows[t].number : t \in {t \in At(l) : rows[t].status = "WAITING"}}) + 1

\* Mutant: MAX of no rows is NULL
BugNullNumber(l) ==
  IF At(l) = {} THEN None ELSE Max({rows[t].number : t \in At(l)}) + 1

\* next_number: COALESCE(MAX(number), 0) + 1 over the tickets of a location
NextNumber(l) == Max({0} \cup {rows[t].number : t \in At(l)}) + 1

\* The number is read; nothing keeps another request from reading the same
ReadNumber(r) ==
  /\ req[r].pc = "missed" /\ r.kind \in Creating
  /\ req' = [req EXCEPT ![r].pc = "loaded", ![r].number = NextNumber(r.location)]
  /\ born' = [born EXCEPT ![r.ticket] = At(r.location)]
  /\ UNCHANGED <<rows, keys, lapsed>>

\* INSERT INTO tickets and its CREATED event, COMMIT
Insert(r) ==
  /\ req[r].pc = "loaded" /\ r.kind \in Creating
  /\ rows' = [rows EXCEPT ![r.ticket] =
       [status |-> "WAITING", location |-> r.location, service |-> r.service,
        number |-> req[r].number]]
  /\ req' = [req EXCEPT ![r].pc = "committed", ![r].effect = r.ticket]
  /\ UNCHANGED <<born, keys, lapsed>>

Callable(r) ==
  {t \in Ticket : /\ rows[t].status = "WAITING" /\ rows[t].location = r.location
                  /\ r.service = None \/ rows[t].service = r.service}

\* call_next_ticket and its COMMIT
Call(r) ==
  /\ req[r].pc = "missed" /\ r.kind = "call_next"
  /\ \E t \in Callable(r) :
       /\ rows' = [rows EXCEPT ![t].status = "CALLED"]
       /\ req' = [req EXCEPT ![r].pc = "committed", ![r].effect = t]
  /\ UNCHANGED <<born, keys, lapsed>>

\* An empty queue is answered with null, and no key is saved
NothingToCall(r) ==
  /\ req[r].pc = "missed" /\ r.kind = "call_next" /\ Callable(r) = {}
  /\ req' = [req EXCEPT ![r].pc = "answered"]
  /\ UNCHANGED <<rows, born, keys, lapsed>>

Target(r) == IF r.kind = "start" THEN "IN_SERVICE" ELSE "COMPLETED"

\* get_or_404 and the check of transition(): 404, 409, or on to the UPDATE
Load(r) ==
  LET legal == TransitionAllowed(rows[r.ticket].status, Target(r))
  IN /\ req[r].pc = "missed" /\ r.kind \in {"start", "complete"}
     /\ req' = [req EXCEPT ![r].pc = IF legal THEN "loaded" ELSE "error"]
     /\ UNCHANGED <<rows, born, keys, lapsed>>

\* The UPDATE, if the trigger lets it through, and COMMIT
Update(r) ==
  LET t == r.ticket
  IN /\ req[r].pc = "loaded" /\ r.kind \in {"start", "complete"}
     /\ IF TriggerAccepts(rows[t].status, Target(r))
        THEN /\ rows' = [rows EXCEPT ![t].status = Target(r)]
             /\ req' = [req EXCEPT ![r].pc = "committed", ![r].effect = t]
        ELSE /\ req' = [req EXCEPT ![r].pc = "error"]
             /\ UNCHANGED rows
     /\ UNCHANGED <<born, keys, lapsed>>

----------------------------------------------------------------------------
\* Saving the key

\* Mutant: a column that is unique by itself
BugTaken(r) == \E k \in Tenant \X Key : k[2] = r.key /\ keys[k] # NoKey

\* uq_idempotency_tenant_key, which expired rows violate as well
Taken(r) == keys[KeyOf(r)] # NoKey

\* Mutant: save_idempotency_key without the commit after it
BugSaved(r) == keys

Saved(r) ==
  [keys EXCEPT ![KeyOf(r)] = [hash |-> Hash(r), ticket |-> req[r].effect, by |-> r,
                              expired |-> FALSE]]

\* save_idempotency_key and its COMMIT, then the answer
SaveKey(r) ==
  /\ req[r].pc = "committed" /\ Keyed(r) /\ ~Taken(r)
  /\ keys' = Saved(r)
  /\ req' = [req EXCEPT ![r].pc = "answered", ![r].answer = req[r].effect]
  /\ UNCHANGED <<rows, born, lapsed>>

\* IntegrityError: 500, although the work is committed
KeyTaken(r) ==
  /\ req[r].pc = "committed" /\ Keyed(r) /\ Taken(r)
  /\ req' = [req EXCEPT ![r].pc = "error"]
  /\ UNCHANGED <<rows, born, keys, lapsed>>

\* The save fails for any other reason: the header may be longer than the 255
\* characters of the column, the connection may be lost.  Again it is a 500
\* although the work is committed, and no row keeps a retry from the work.
SaveFails(r) ==
  /\ req[r].pc = "committed" /\ Keyed(r)
  /\ req' = [req EXCEPT ![r].pc = "unsaved"]
  /\ UNCHANGED <<rows, born, keys, lapsed>>

AnswerUnkeyed(r) ==
  /\ req[r].pc = "committed" /\ ~Keyed(r)
  /\ req' = [req EXCEPT ![r].pc = "answered", ![r].answer = req[r].effect]
  /\ UNCHANGED <<rows, born, keys, lapsed>>

----------------------------------------------------------------------------
\* What else happens

\* transfer_ticket, to another service and perhaps another location: the ticket
\* keeps its number
Transfer(t, l, v) ==
  /\ TransitionAllowed(rows[t].status, "TRANSFERRED")
  /\ rows' = [rows EXCEPT ![t].status = "WAITING", ![t].location = l, ![t].service = v]
  /\ UNCHANGED <<born, keys, lapsed, req>>

\* expires_at passes: 24 hours since the key was saved, so that the request
\* that saved it was sent even longer ago
Expire(k) ==
  /\ keys[k] # NoKey /\ ~keys[k].expired
  /\ keys' = [keys EXCEPT ![k].expired = TRUE]
  /\ lapsed' = lapsed \cup {keys[k].by}
  /\ UNCHANGED <<rows, born, req>>

\* Mutant: the comparison the wrong way round
BugDeletable(row) == row # NoKey /\ ~row.expired

Deletable(row) == row # NoKey /\ row.expired

\* cleanup_idempotency_keys: DELETE ... WHERE expires_at < now()
Cleanup ==
  /\ \E k \in DOMAIN keys : Deletable(keys[k])
  /\ keys' = [k \in DOMAIN keys |-> IF Deletable(keys[k]) THEN NoKey ELSE keys[k]]
  /\ UNCHANGED <<rows, born, lapsed, req>>

Step(r) ==
  \/ Replay(r) \/ Conflict(r) \/ Miss(r)
  \/ ReadNumber(r) \/ Insert(r) \/ Call(r) \/ NothingToCall(r) \/ Load(r) \/ Update(r)
  \/ SaveKey(r) \/ KeyTaken(r) \/ SaveFails(r) \/ AnswerUnkeyed(r)

Next ==
  \/ \E r \in Request : Step(r)
  \/ \E t \in Ticket, l \in Location, v \in Service : Transfer(t, l, v)
  \/ \E k \in Tenant \X Key : Expire(k)
  \/ Cleanup

\* beat starts the cleanup every day, and it is retried when it fails
Spec == Init /\ [][Next]_vars /\ WF_vars(Cleanup)

----------------------------------------------------------------------------
TypeOK ==
  /\ rows \in [Ticket -> Row \cup {Absent}]
  /\ lapsed \subseteq Request
  /\ born \in [Ticket -> SUBSET Ticket]
  /\ keys \in [Tenant \X Key -> KeyRow \cup {NoKey}]
  /\ req \in [Request -> [pc : Pc, number : Nat,
                          effect : Ticket \cup {None}, answer : Ticket \cup {None},
                          earlier : SUBSET Request]]

\* A request sent after another one with its key was answered does not do the
\* work again, until the key has expired (lookup and save of the key).  It is
\* what is left of the promise once overlaps and crashes are set aside.
AtMostOnceAfterAnAnswer ==
  \A r \in Request : req[r].effect # None => req[r].earlier = {}

\* A replay answers with a ticket that a request of the same tenant, with the
\* same key, has changed (get_idempotency_key, save_idempotency_key).
ReplaysAnswerForTheKey ==
  \A r \in Request :
    req[r].pc = "answered" /\ req[r].effect = None /\ req[r].answer # None
      => \E q \in Request \ {r} : /\ Keyed(q) /\ KeyOf(q) = KeyOf(r)
                                  /\ req[q].effect = req[r].answer

\* A request whose save of the key is refused as a duplicate, although its work
\* is committed, had a rival: another request of the tenant did work under the
\* same key, at the same time or more than 24 hours ago (the unique constraint of
\* idempotency_keys).  A save that fails otherwise ("unsaved") needs none.
RefusedOnlyBesideARival ==
  \A r \in Request :
    req[r].pc = "error" /\ req[r].effect # None
      => \E q \in Request \ {r} : /\ Keyed(q) /\ KeyOf(q) = KeyOf(r)
                                  /\ req[q].effect # None

\* Two tickets have the same number only if neither was at the other's location
\* when the other's number was read: at one location, only if their numbers were
\* read before either was committed, or if one of them came by transfer, later
\* (next_number, transfer_ticket).
DuplicateNumbersHaveACause ==
  \A t, u \in Ticket :
    /\ t # u /\ rows[t] # Absent /\ rows[u] # Absent
    /\ rows[t].number = rows[u].number
    => t \notin born[u] /\ u \notin born[t]

\* An expired key, which no lookup finds and every save trips over, is deleted
\* in the end (cleanup_idempotency_keys).
ExpiredKeysAreDeleted ==
  \A k \in Tenant \X Key : keys[k].expired ~> ~keys[k].expired

----------------------------------------------------------------------------
\* What clients see of their requests: the lookups, numbers, loads and keys in
\* between are the code's means, which IdempotencyPromise does not have.
Phase(pc) ==
  CASE pc \in {"missed", "loaded"} -> "working"
    [] pc = "committed" -> "done"
    [] pc = "error" -> "failed"
    [] pc = "unsaved" -> "unrecorded"
    [] OTHER -> pc

Phases == [r \in Request |-> Phase(req[r].pc)]
Effects == [r \in Request |-> req[r].effect]
Answers == [r \in Request |-> req[r].answer]
Rivals == [r \in Request |-> {q \in Request \ {r} : /\ Keyed(r) /\ Keyed(q)
                                                    /\ KeyOf(q) = KeyOf(r)}]

Promise == INSTANCE IdempotencyPromise WITH
  phase <- Phases, effect <- Effects, answer <- Answers

\* The two transactions of a keyed request, and the lookup before them, keep
\* the promise: a key that is saved late, is found in use, or has expired loses
\* nobody's answer and makes nobody's work count twice.
KeepsThePromise == Promise!Spec

\* "Idempotency-Key header on POST /v1/tickets prevents duplicate ticket
\* creation" (docs/security.md), within the 24 hours of the key.
NoDuplicateTicket ==
  \A r, q \in Request \ lapsed :
    /\ r.kind \in Creating /\ q.kind \in Creating /\ Keyed(r) /\ Keyed(q)
    /\ KeyOf(r) = KeyOf(q) /\ req[r].effect # None /\ req[q].effect # None
    => r = q
=============================================================================

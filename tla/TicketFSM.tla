----------------------------- MODULE TicketFSM -----------------------------
(***************************************************************************)
(* The ticket state machine, twice: as the application checks it           *)
(* (state_machine/ticket_fsm.py) and as the database checks it (the        *)
(* BEFORE UPDATE trigger of migration 0003).  The two tables are written   *)
(* out separately because nothing in the code keeps them equal;            *)
(* TicketFSM_proofs shows how they relate.                                 *)
(***************************************************************************)

\* TicketStatus.ALL and TicketStatus.TERMINAL
Status == {"CREATED", "WAITING", "CALLED", "IN_SERVICE", "HOLD",
           "TRANSFERRED", "COMPLETED", "CANCELED", "NO_SHOW"}

Terminal == {"COMPLETED", "CANCELED", "NO_SHOW"}

\* EventType (NOTE_ADDED is declared but written by no code)
EventType == Status \cup {"NOTE_ADDED"}

----------------------------------------------------------------------------
\* The application's table and its pure functions

\* VALID_TRANSITIONS, as the pairs it allows; terminal statuses have none
ValidTransition ==
       {"CREATED"}     \X {"WAITING", "CANCELED"}
  \cup {"WAITING"}     \X {"CALLED", "CANCELED", "NO_SHOW"}
  \cup {"CALLED"}      \X {"IN_SERVICE", "WAITING", "NO_SHOW", "CANCELED"}
  \cup {"IN_SERVICE"}  \X {"COMPLETED", "HOLD", "TRANSFERRED", "CANCELED"}
  \cup {"HOLD"}        \X {"WAITING", "CANCELED"}
  \cup {"TRANSFERRED"} \X {"WAITING"}

ValidTransitions(from) == {to \in Status : <<from, to>> \in ValidTransition}

\* transition(current, target) returns instead of raising
TransitionAllowed(current, target) ==
  current \in Status /\ target \in ValidTransitions(current)

\* TRANSITION_EVENT: the literal entries, then the two filled in by the loop
TransitionEvent ==
  {<<"CREATED",     "WAITING",     "WAITING">>,
   <<"WAITING",     "CALLED",      "CALLED">>,
   <<"CALLED",      "IN_SERVICE",  "IN_SERVICE">>,
   <<"CALLED",      "WAITING",     "WAITING">>,
   <<"IN_SERVICE",  "COMPLETED",   "COMPLETED">>,
   <<"IN_SERVICE",  "HOLD",        "HOLD">>,
   <<"IN_SERVICE",  "TRANSFERRED", "TRANSFERRED">>,
   <<"HOLD",        "WAITING",     "WAITING">>,
   <<"TRANSFERRED", "WAITING",     "WAITING">>}
  \cup {<<p[1], p[2], p[2]>> :
          p \in ValidTransition \cap (Status \X {"CANCELED", "NO_SHOW"})}

\* event_type_for: the table's entry, or the target status where it has none
EventTypeFor(from, target) ==
  IF \E e \in EventType : <<from, target, e>> \in TransitionEvent
  THEN CHOOSE e \in EventType : <<from, target, e>> \in TransitionEvent
  ELSE target

----------------------------------------------------------------------------
\* Mutant: a trigger that knows the statuses but not which of them are final
BugTriggerAccepts(old, new) == old \in Status /\ new \in Status

\* The database's table: check_ticket_status_transition() lets the UPDATE of
\* a row from OLD.status to NEW.status through.  An UPDATE that leaves the
\* status as it is passes whatever the status is.
TriggerAccepts(old, new) ==
  \/ old = new
  \/ old = "CREATED"     /\ new \in {"WAITING", "CANCELED"}
  \/ old = "WAITING"     /\ new \in {"CALLED", "CANCELED", "NO_SHOW"}
  \/ old = "CALLED"      /\ new \in {"IN_SERVICE", "WAITING", "NO_SHOW", "CANCELED"}
  \/ old = "IN_SERVICE"  /\ new \in {"COMPLETED", "HOLD", "TRANSFERRED", "CANCELED"}
  \/ old = "HOLD"        /\ new \in {"WAITING", "CANCELED"}
  \/ old = "TRANSFERRED" /\ new = "WAITING"

\* The status a ticket has once an event of this type is logged: the log of a
\* new ticket starts with CREATED although its row is inserted as WAITING.
StatusAfter(type) == IF type = "CREATED" THEN "WAITING" ELSE type
=============================================================================

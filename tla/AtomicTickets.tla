--------------------------- MODULE AtomicTickets ---------------------------
(***************************************************************************)
(* What the ticket requests promise together: each of them, and each batch *)
(* of auto_no_show, is one indivisible step of the tickets it touches, and *)
(* extends the history of each by a path of the state machine.  There are  *)
(* no sessions, locks or stale reads here.  A request that loses a race    *)
(* may at most repeat the status the ticket already has.                   *)
(***************************************************************************)
EXTENDS TicketFSM, Sequences, Naturals

CONSTANT Ticket

VARIABLE history    \* the statuses each ticket has gone through, the last one current

Current(t) == history[t][Len(history[t])]

Init == history = [t \in Ticket |-> <<>>]

Arrive(t) ==
  /\ history[t] = <<>>
  /\ history' = [history EXCEPT ![t] = <<"WAITING">>]

\* Only a waiting ticket is called, and only one call gets it
Call(t) ==
  /\ history[t] # <<>> /\ Current(t) = "WAITING"
  /\ history' = [history EXCEPT ![t] = Append(@, "CALLED")]

Move(t, new) ==
  /\ history[t] # <<>>
  /\ new \in ValidTransitions(Current(t)) \cup {Current(t)}
  /\ history' = [history EXCEPT ![t] = Append(@, new)]

Transfer(t) ==
  /\ history[t] # <<>> /\ Current(t) = "IN_SERVICE"
  /\ history' = [history EXCEPT ![t] = @ \o <<"TRANSFERRED", "WAITING">>]

\* A batch of the worker: all of its tickets, or none
GiveUp(T) ==
  /\ \A t \in T : /\ history[t] # <<>>
                  /\ "NO_SHOW" \in ValidTransitions(Current(t)) \cup {Current(t)}
  /\ history' = [t \in Ticket |-> IF t \in T THEN Append(history[t], "NO_SHOW")
                                             ELSE history[t]]

Next ==
  \/ \E t \in Ticket :
       \/ Arrive(t) \/ Call(t) \/ Transfer(t)
       \/ \E new \in {"IN_SERVICE", "COMPLETED", "HOLD", "CANCELED", "NO_SHOW"} :
            Move(t, new)
  \/ \E T \in SUBSET Ticket : GiveUp(T)

Spec == Init /\ [][Next]_history
=============================================================================

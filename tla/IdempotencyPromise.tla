------------------------- MODULE IdempotencyPromise -------------------------
(***************************************************************************)
(* What a client with an Idempotency-Key can rely on, said without a table *)
(* of keys: only in terms of what requests have done and what has been     *)
(* answered.  For a day, the answer to a request that did its work binds   *)
(* every other request with its key: none of them begins the work, none is *)
(* answered for work of its own, and a replay gives that very answer.      *)
(* Nothing binds a request to one that was never answered; two of them may *)
(* do the work, and then one is answered at most.                          *)
(***************************************************************************)
CONSTANTS
  Request, Ticket,
  Rivals,     \* per request: the other requests of its tenant with its key
  None

VARIABLES
  phase,      \* per request: how far it has come
  effect,     \* the ticket that its work has changed, or None
  answer,     \* the ticket its client was told, or None
  lapsed      \* the requests whose answer is more than 24 hours old

vars == <<phase, effect, answer, lapsed>>

Init ==
  /\ phase = [r \in Request |-> "new"]
  /\ effect = [r \in Request |-> None]
  /\ answer = [r \in Request |-> None]
  /\ lapsed = {}

\* The rivals that were answered for work of their own
Answered(r) == {q \in Rivals[r] : phase[q] = "answered" /\ effect[q] # None}

\* Those whose answer still counts
Binding(r) == Answered(r) \ lapsed

Becomes(r, new) == phase' = [phase EXCEPT ![r] = new]

\* The work begins, unless another request has been answered for it
Begin(r) ==
  /\ phase[r] = "new" /\ Binding(r) = {}
  /\ Becomes(r, "working")
  /\ UNCHANGED <<effect, answer, lapsed>>

Work(r, t) ==
  /\ phase[r] = "working"
  /\ Becomes(r, "done") /\ effect' = [effect EXCEPT ![r] = t]
  /\ UNCHANGED <<answer, lapsed>>

\* There was nothing to do
Nothing(r) ==
  /\ phase[r] = "working"
  /\ Becomes(r, "answered")
  /\ UNCHANGED <<effect, answer, lapsed>>

\* Of the requests that did work, one is answered for it
Answer(r) ==
  /\ phase[r] = "done" /\ Binding(r) = {}
  /\ Becomes(r, "answered") /\ answer' = [answer EXCEPT ![r] = effect[r]]
  /\ UNCHANGED <<effect, lapsed>>

Replay(r) ==
  /\ phase[r] = "new"
  /\ \E q \in Binding(r) : answer' = [answer EXCEPT ![r] = effect[q]]
  /\ Becomes(r, "answered")
  /\ UNCHANGED <<effect, lapsed>>

\* A request fails at once beside an answer that counts, for its own reasons
\* before it has done anything, and after that only because of a rival's answer
Fail(r) ==
  /\ \/ phase[r] = "new" /\ Binding(r) # {}
     \/ phase[r] = "working"
     \/ phase[r] = "done" /\ Answered(r) # {}
  /\ Becomes(r, "failed")
  /\ UNCHANGED <<effect, answer, lapsed>>

\* The answer could not be recorded: the work is done, its client is told of a
\* failure, and nothing binds those who try again
Lose(r) ==
  /\ phase[r] = "done"
  /\ Becomes(r, "unrecorded")
  /\ UNCHANGED <<effect, answer, lapsed>>

Lapse(r) ==
  /\ phase[r] = "answered" /\ effect[r] # None
  /\ lapsed' = lapsed \cup {r}
  /\ UNCHANGED <<phase, effect, answer>>

Next ==
  \E r \in Request :
    \/ Begin(r) \/ Nothing(r) \/ Answer(r) \/ Replay(r) \/ Fail(r) \/ Lose(r) \/ Lapse(r)
    \/ \E t \in Ticket : Work(r, t)

Spec == Init /\ [][Next]_vars
=============================================================================

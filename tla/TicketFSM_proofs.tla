-------------------------- MODULE TicketFSM_proofs --------------------------
(***************************************************************************)
(* What the two copies of the state machine have to do with each other,    *)
(* and a fact about finite sets that the other proofs use.                 *)
(***************************************************************************)
EXTENDS TicketFSM, FiniteSetTheorems, TLAPS

\* The table's entries are pairs of known statuses.
LEMMA ValidTransitionsType ==
  \A from \in Status : ValidTransitions(from) \subseteq Status
BY DEF ValidTransitions

\* The application's table is closed where TicketStatus.TERMINAL says so.
LEMMA TerminalHasNoSuccessor ==
  \A from \in Status : from \in Terminal <=> ValidTransitions(from) = {}
BY DEF Status, Terminal, ValidTransitions, ValidTransition

\* The trigger of migration 0003 accepts what VALID_TRANSITIONS allows, and
\* besides that only an update that keeps the status.
THEOREM TriggerAgreesWithTable ==
  \A old, new \in Status :
    TriggerAccepts(old, new) <=> (old = new \/ TransitionAllowed(old, new))
BY DEF Status, TriggerAccepts, TransitionAllowed, ValidTransitions, ValidTransition

\* event_type_for returns the name of the target status for every pair, the
\* pairs without an entry included.
LEMMA EventTypeIsTarget ==
  \A from, target \in Status : EventTypeFor(from, target) = target
<1> SUFFICES ASSUME NEW from \in Status, NEW target \in Status
             PROVE  EventTypeFor(from, target) = target
  OBVIOUS
<1>1. \A e \in EventType : <<from, target, e>> \in TransitionEvent => e = target
  BY DEF TransitionEvent, ValidTransition, Status, EventType
<1>2. CASE \E e \in EventType : <<from, target, e>> \in TransitionEvent
  BY <1>1, <1>2 DEF EventTypeFor
<1>3. CASE ~ \E e \in EventType : <<from, target, e>> \in TransitionEvent
  BY <1>3 DEF EventTypeFor
<1> QED BY <1>2, <1>3

\* Whatever the previous status, what is logged is an event type.
LEMMA EventTypeForType ==
  ASSUME NEW from, NEW target \in Status
  PROVE  EventTypeFor(from, target) \in EventType
BY DEF EventTypeFor, EventType

\* Reading the log as statuses turns an event named after a status into that
\* status, except the one event that no transition writes.
LEMMA StatusAfterIsType ==
  \A type \in Status : type # "CREATED" => StatusAfter(type) = type
BY DEF StatusAfter

----------------------------------------------------------------------------
\* Of finitely many things one has the greatest measure.
LEMMA Greatest ==
  ASSUME NEW T, IsFiniteSet(T), NEW f \in [T -> Nat],
         NEW A, A \subseteq T, A # {}
  PROVE  \E m \in A : \A a \in A : f[a] <= f[m]
<1> DEFINE HasGreatest(B) == \E m \in B : \A a \in B : f[a] <= f[m]
           Bad == {B \in SUBSET T : B # {} /\ ~HasGreatest(B)}
<1>1. SUFFICES ASSUME Bad # {}
               PROVE  FALSE
  OBVIOUS
<1>2. Bad \subseteq FiniteSubsetsOf(T)
  BY FS_FiniteSubsetsOfFinite
<1>3. PICK B \in Bad : \A C \in Bad : ~(<<C, B>> \in StrictSubsetOrdering(T))
  <2> HIDE DEF Bad
  <2> QED BY <1>1, <1>2, FS_StrictSubsetOrderingWellFounded, WFMin
<1>4. PICK x \in B : TRUE
  OBVIOUS
<1>5. B \ {x} \notin Bad
  BY <1>3, <1>4 DEF StrictSubsetOrdering
<1>6. x \in T /\ B \subseteq T
  BY <1>3, <1>4
<1>7. CASE B \ {x} = {}
  <2>1. B = {x}
    BY <1>4, <1>7
  <2>2. HasGreatest(B)
    BY <1>6, <2>1
  <2> QED BY <1>3, <2>2
<1>8. CASE B \ {x} # {}
  <2>1. PICK m \in B \ {x} : \A a \in B \ {x} : f[a] <= f[m]
    BY <1>5, <1>6, <1>8
  <2>2. CASE f[x] <= f[m]
    <3>1. HasGreatest(B)
      BY <2>1, <2>2
    <3> QED BY <1>3, <3>1
  <2>3. CASE ~(f[x] <= f[m])
    <3>1. \A a \in B : f[a] <= f[x]
      BY <1>6, <2>1, <2>3
    <3>2. HasGreatest(B)
      BY <1>4, <3>1
    <3> QED BY <1>3, <3>2
  <2> QED BY <2>2, <2>3
<1> QED BY <1>7, <1>8
=============================================================================

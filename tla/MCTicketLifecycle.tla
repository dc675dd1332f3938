------------------------- MODULE MCTicketLifecycle -------------------------
(***************************************************************************)
(* Instances of TicketLifecycle for TLC.  Two locations with one counter   *)
(* each, so that a transfer changes which counter may call a ticket.       *)
(***************************************************************************)
EXTENDS TicketLifecycle, TLC

CONSTANTS t1, t2, c1, c2, l1, l2, s1, s2, v1

MCTicket == {t1, t2}
MCSession == {s1, s2}
MCLocation == {l1, l2}
MCCounter == {c1, c2}
MCCounterLocation == (c1 :> l1) @@ (c2 :> l2)

\* Both are created at one location, one of them for no particular service
MCOrigin == (t1 :> [location |-> l1, service |-> v1])
         @@ (t2 :> [location |-> l1, service |-> None])

\* t2 was created later but is more urgent, and has the smaller id
MCPriority == (t1 :> 7) @@ (t2 :> 2)
MCCreatedAt == (t1 :> 1) @@ (t2 :> 2)
MCPk == (t1 :> 7) @@ (t2 :> 2)

\* One ticket with a long history: called, served, transferred, called again,
\* and in requests still in flight, beside one that is created, called and served.
MCMaxEvents == (t1 :> 6) @@ (t2 :> 2)

\* The instance of the liveness run: one location, but two workers whose
\* batches overlap, and requests on either ticket of a batch.
MCOneCounter == {c1}
MCOneLocation == (c1 :> l1)
MCFewEvents == (t1 :> 7) @@ (t2 :> 3)

MCSymmetry == Permutations(MCSession)
=============================================================================

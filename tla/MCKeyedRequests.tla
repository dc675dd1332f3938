-------------------------- MODULE MCKeyedRequests --------------------------
(***************************************************************************)
(* Instances of KeyedRequests for TLC.                                     *)
(***************************************************************************)
EXTENDS KeyedRequests

CONSTANTS t1, t2, t3, l1, l2, v1, n1, n2, k1

Http(id, kind, tenant, key, location, service, ticket) ==
  [id |-> id, kind |-> kind, tenant |-> tenant, key |-> key, location |-> location,
   service |-> service, ticket |-> ticket]

\* A ticket created at the kiosk and once more by a retry with its key; a
\* tenant that uses the same key for a ticket of its own; a counter that calls
\* without a key, and uses that key to start and to complete.
MCRequest ==
  {Http(1, "kiosk",     n1, k1,   l1, None, t1),
   Http(2, "create",    n1, k1,   l1, v1,   t2),
   Http(3, "create",    n2, k1,   l2, None, t3),
   Http(4, "call_next", n1, None, l1, None, None),
   Http(5, "start",     n1, k1,   l1, None, t1),
   Http(6, "complete",  n1, k1,   l1, None, t1)}
=============================================================================

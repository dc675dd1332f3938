------------------------------ MODULE MCAdmin ------------------------------
(***************************************************************************)
(* Instances of Admin for TLC: two tenants and a user that there are; a    *)
(* location, a counter, another user and a role of the user to be created. *)
(***************************************************************************)
EXTENDS Admin, TLC

CONSTANTS a1, a2, l, c, u, v, r, s1, s2, n1, n2, n3, n4

MCKind == a1 :> "Tenant" @@ a2 :> "Tenant" @@ l :> "Location" @@ c :> "Plain" @@
          u :> "User" @@ v :> "User" @@ r :> "Role"

MCStored ==
  a1 :> [name |-> n1, active |-> TRUE, owner |-> None] @@
  a2 :> [name |-> n2, active |-> TRUE, owner |-> None] @@
  u :> [name |-> n3, active |-> TRUE, owner |-> a1] @@
  l :> None @@ c :> None @@ v :> None @@ r :> None

\* One attribute, both, both as they already are in a1, and none
MCPatch ==
  {[a \in {"name"} |-> n3],
   [a \in {"name", "active"} |-> IF a = "name" THEN n4 ELSE FALSE],
   [a \in {"name", "active"} |-> IF a = "name" THEN n1 ELSE TRUE],
   << >>}
=============================================================================

------------------------------ MODULE OwnerScope ------------------------------
(* Who may see a row.  An actor is a user or the machine that authenticates  *)
(* with the API key; a row belongs to a user or to nobody (Shared).          *)
CONSTANTS Users, Machine, Shared

Actors == Users \cup {Machine}
Owners == Users \cup {Shared}

CanAccess(owner, actor) == actor = Machine \/ owner \in {Shared, actor}

\* The filter of list queries, as the set of owners it lets through.
OwnerWhere(actor) == {o \in Owners : CanAccess(o, actor)}

OwnerIdOf(actor) == IF actor = Machine THEN Shared ELSE actor
=============================================================================

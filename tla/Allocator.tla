----------------------------- MODULE Allocator -----------------------------
(***************************************************************************)
(* What a pool of resources promises: a client has at most one resource at *)
(* a time, nobody else has it then, and it comes back.                     *)
(***************************************************************************)
CONSTANTS Clients, Resources, None

VARIABLE owner     \* the client that has a resource, or None

Init == owner = [r \in Resources |-> None]

Acquire(c, r) ==
  /\ owner[r] = None
  /\ \A q \in Resources : owner[q] # c
  /\ owner' = [owner EXCEPT ![r] = c]

Release(c, r) ==
  /\ owner[r] = c
  /\ owner' = [owner EXCEPT ![r] = None]

Next == \E c \in Clients, r \in Resources : Acquire(c, r) \/ Release(c, r)

Spec == Init /\ [][Next]_owner
=============================================================================

------------------------------- MODULE Lease -------------------------------
(***************************************************************************)
(* What withDistributedLock promises for one key.  The lock is a lease: it *)
(* is taken only when the key is free, the TTL may take it away from a     *)
(* callback that is still running, and a callback that ends gives back     *)
(* only a key it still owns.                                               *)
(***************************************************************************)
CONSTANTS Clients, None

VARIABLES
  owner,   \* the token stored under the key, or None
  inside,  \* clients whose callback is running
  lapsed   \* clients whose key expired before their callback ended

lease == <<owner, inside, lapsed>>

Init == owner = None /\ inside = {} /\ lapsed = {}

Enter(c) ==
  /\ owner = None /\ c \notin inside \cup lapsed
  /\ owner' = c /\ inside' = inside \cup {c}
  /\ UNCHANGED lapsed

Lapse ==
  /\ owner # None
  /\ owner' = None
  /\ lapsed' = lapsed \cup {owner}
  /\ UNCHANGED inside

\* The end of a callback, or the death of its process, which releases nothing.
Leave(c) ==
  /\ c \in inside
  /\ inside' = inside \ {c}
  /\ owner' \in {owner, IF owner = c THEN None ELSE owner}
  /\ UNCHANGED lapsed

Next == Lapse \/ \E c \in Clients : Enter(c) \/ Leave(c)

Spec == Init /\ [][Next]_lease

\* Two callbacks of one key run together only when the TTL ran out on one.
OneInside == \A a, b \in inside \ lapsed : a = b
=============================================================================

------------------------------ MODULE LeaseLock ------------------------------
(***************************************************************************)
(* What a distributed lock with a lease promises its callers.             *)
(*                                                                         *)
(* `owner` is the client the lock store records as holding the lease, or *)
(* None; `busy` is the set of clients that have entered their critical     *)
(* section and not left it.  A client enters only when the lease is free  *)
(* or already its own, leaving returns the lease, and a lease lapses only *)
(* when its owner is not inside.  A client may also drop out of its        *)
(* section without returning the lease (it crashed, or its release never   *)
(* reached the store), and the store may record a lease for a client that *)
(* never learned it got it.                                               *)
(***************************************************************************)
CONSTANTS Clients, None

VARIABLES owner, busy

vars == <<owner, busy>>

Init == owner = None /\ busy = {}

Enter(c) ==
    /\ c \notin busy /\ owner \in {None, c}
    /\ owner' = c /\ busy' = busy \cup {c}

Leave(c) ==
    /\ c \in busy
    /\ busy' = busy \ {c} /\ owner' = None

Abandon(c) ==
    /\ c \in busy
    /\ busy' = busy \ {c} /\ UNCHANGED owner

Claim(c) ==
    /\ owner = None /\ c \notin busy
    /\ owner' = c /\ UNCHANGED busy

Lapse ==
    /\ owner # None /\ owner \notin busy
    /\ owner' = None /\ UNCHANGED busy

Next ==
    \/ \E c \in Clients : Enter(c) \/ Leave(c) \/ Abandon(c) \/ Claim(c)
    \/ Lapse

Spec == Init /\ [][Next]_vars

\* Whoever is inside holds the lease, so at most one client is inside.
Exclusion == busy \subseteq {owner}

=============================================================================

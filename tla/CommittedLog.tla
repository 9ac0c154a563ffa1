---------------------------- MODULE CommittedLog ----------------------------
(***************************************************************************)
(* What a consumer group's committed offset on one partition promises.    *)
(*                                                                         *)
(* The partition holds the messages at Offsets = 0..End-1.  `delivered` is *)
(* the set of offsets that have been handed to the group's handler at      *)
(* least once; `committed` is the offset the group resumes from after a    *)
(* rebalance or restart.  Messages may be handed out any number of times,  *)
(* in any order, but the committed offset only moves forward, and only    *)
(* over messages that have been handed out: no message is skipped without  *)
(* the handler having seen it (at-least-once delivery).                   *)
(***************************************************************************)
EXTENDS Naturals

CONSTANT End

VARIABLES committed, delivered

vars == <<committed, delivered>>

Offsets == 0..(End - 1)

Init == committed = 0 /\ delivered = {}

Deliver(o) ==
    /\ delivered' = delivered \cup {o}
    /\ UNCHANGED committed

Advance(k) ==
    /\ committed < k
    /\ committed..(k - 1) \subseteq delivered
    /\ committed' = k
    /\ UNCHANGED delivered

Next == \/ \E o \in Offsets : Deliver(o)
        \/ \E k \in 1..End : Advance(k)

Spec == Init /\ [][Next]_vars

\* Everything below the committed offset has been handed out.
CommitCovered == \A o \in 0..(committed - 1) : o \in delivered

=============================================================================

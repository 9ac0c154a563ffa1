---------------------------- MODULE CdcCheckpoint ----------------------------
(***************************************************************************)
(* What the CDC engine promises about its checkpoints, for one topic       *)
(* (spec.md 4.1, 4.5, 4.6 and 8).                                          *)
(*                                                                         *)
(* `rows` is the source table (row versions with an id and a timestamp),  *)
(* changed freely by the application.  `delivered` is, per consumer group, *)
(* the row versions published in messages addressed to it.  `checkpoint`  *)
(* is the set of checkpoint records (group, id, ts).                       *)
(*                                                                         *)
(* The engine publishes current row versions to groups, seeds a           *)
(* checkpoint for groups that have none, all at one cursor, and advances  *)
(* the checkpoints of a set of groups.  A checkpoint is seeded or moved    *)
(* only to a cursor at or before which every row has been delivered to    *)
(* the group, and never moves backwards in (ts, id) order.                *)
(***************************************************************************)
EXTENDS Naturals

CONSTANTS
    Groups,   \* consumer groups of the topic
    Cursors   \* the (id, ts) cursors a checkpoint can hold

VARIABLES rows, checkpoint, delivered

vars == <<rows, checkpoint, delivered>>

\* cursor a lies strictly before cursor b in (ts, id) order
Before(a, b) == a.ts < b.ts \/ (a.ts = b.ts /\ a.id < b.id)

\* g has been sent every current row at or before cursor c
Covered(g, c) == \A r \in rows : ~Before(c, r) => r.v \in delivered[g]

Checkpointed == {t.group : t \in checkpoint}

Init ==
    /\ rows = {}
    /\ checkpoint = {}
    /\ delivered = [g \in Groups |-> {}]

\* the application inserts, updates or deletes rows
Write ==
    /\ rows' # rows
    /\ UNCHANGED <<checkpoint, delivered>>

\* one message per row of S, addressed to the groups G
Publish(G, S) ==
    /\ S \subseteq rows
    /\ delivered' = [g \in Groups |-> IF g \in G THEN delivered[g] \cup {r.v : r \in S}
                                                 ELSE delivered[g]]
    /\ UNCHANGED <<rows, checkpoint>>

\* full sync: records for groups without a checkpoint, all at cursor c
Seed(G, c) ==
    /\ G # {} /\ G \cap Checkpointed = {}
    /\ \A g \in G : Covered(g, c)
    /\ checkpoint' = checkpoint \cup {[group |-> g, id |-> c.id, ts |-> c.ts] : g \in G}
    /\ UNCHANGED <<rows, delivered>>

\* incremental sync: every record of the groups G moves forward to cursor c
Advance(G, c) ==
    /\ G # {} /\ G \subseteq Checkpointed
    /\ \A g \in G : Covered(g, c)
    /\ \A t \in checkpoint : t.group \in G => ~Before(c, t)
    /\ checkpoint' = {IF t.group \in G THEN [t EXCEPT !.id = c.id, !.ts = c.ts]
                                       ELSE t : t \in checkpoint}
    /\ UNCHANGED <<rows, delivered>>

Next ==
    \/ Write
    \/ \E G \in SUBSET Groups, S \in SUBSET rows : Publish(G, S)
    \/ \E G \in SUBSET Groups, c \in Cursors : Seed(G, c) \/ Advance(G, c)

Spec == Init /\ [][Next]_vars

=============================================================================

---------------------------- MODULE KafkaConsumer ----------------------------
(***************************************************************************)
(* The kafkax consumer (src/core/transport/mq/kafkax) of one consumer      *)
(* group on one partition of one topic.                                    *)
(*                                                                         *)
(* Each member is a process running consumerService.Start: its errgroup    *)
(* goroutine calls client.Consume in a loop (registerHandle), and in a     *)
(* session that was assigned the partition sarama runs                     *)
(* kafkaConsumer.ConsumeClaim, which hands each message to the handler and,*)
(* when the handler returns true, calls MarkMessage and then Commit        *)
(* (AutoCommit is disabled by getClient and by defaultOptions).  A session *)
(* starts at the group's committed offset (Offsets.Initial = OffsetOldest  *)
(* when nothing is committed, offset 0 here).                              *)
(*                                                                         *)
(* The group coordinator starts a new generation when the partition's     *)
(* owner is gone or has rejoined, and at other times (members joining and *)
(* leaving, bounded by MaxRebalances).  A session of an older generation  *)
(* has its context cancelled; the broker rejects its commits.  Processes  *)
(* crash (log.Panicf on a Consume error, or anything else) and restart;    *)
(* commits fail; crashes and failures are bounded by MaxFaults.            *)
(* consumerService.Stop cancels the service's context: the session ends,  *)
(* the loop sees ctx.Err() and returns, and Start closes the client.  A    *)
(* Stop takes a member out for good and shares the MaxFaults budget, so   *)
(* that one member of the group stays.                                     *)
(* Subscribe runs Start in a goroutine: until it has run init the member  *)
(* is "new", has no client and no cancel func, and a Stop then does       *)
(* nothing.  A Start whose registerHandle fails returns the error, which  *)
(* Subscribe's goroutine only logs: that member never consumes.           *)
(***************************************************************************)
EXTENDS Naturals

CONSTANTS
    Members,        \* processes of the consumer group
    None,           \* no member owns the partition
    End,            \* the partition holds the messages at offsets 0..End-1
    Outcomes,       \* what the handler may return (Wrap: FALSE on an error)
    MaxRebalances,  \* bound on rebalances not forced by a lost owner
    MaxFaults       \* bound on crashes, lost commits, nil messages and Stops

ASSUME /\ None \notin Members /\ End \in Nat
       /\ Outcomes \subseteq BOOLEAN /\ Outcomes # {}
       /\ MaxRebalances \in Nat /\ MaxFaults \in Nat

VARIABLES
    committed,   \* the group's committed offset for the partition (broker)
    gen,         \* the group's generation
    owner,       \* the member assigned the partition in generation gen
    st,          \* member -> "new" (Start has not run init), "down", "idle"
                 \*   (between Consume calls), "fetch"
                 \*   (in ConsumeClaim's select), "commit" (marked, Commit next)
                 \*   or "exited" (Start returned after Stop)
    stopping,    \* member -> Stop has cancelled its context
    sgen,        \* member -> the generation it last joined
    pos,         \* member -> offset of the next message its claim delivers
    marked,      \* member -> the session's marked offset (MarkMessage)
    delivered,   \* ghost: offsets handed to the handler at least once
    faults,      \* crashes, lost commits and nil messages so far
    rebalances   \* rebalances not forced by a lost owner so far

vars == <<committed, gen, owner, st, sgen, pos, marked, delivered, faults,
          rebalances, stopping>>

Offsets == 0..(End - 1)

Gone == {"down", "exited"}

\* not a member of the group: no client has called Consume
NotJoined == Gone \cup {"new"}

Up == {m \in Members : st[m] \notin NotJoined}

Fault == faults < MaxFaults /\ faults' = faults + 1

-----------------------------------------------------------------------------
Init ==
    /\ committed = 0
    /\ gen = 0
    /\ owner = None
    /\ st = [m \in Members |-> "new"]
    /\ sgen = [m \in Members |-> 0]
    /\ pos = [m \in Members |-> 0]
    /\ marked = [m \in Members |-> 0]
    /\ delivered = {}
    /\ faults = 0
    /\ rebalances = 0
    /\ stopping = [m \in Members |-> FALSE]

\* The coordinator must reassign the partition: nobody owns it, its owner's
\* session timed out or it left after Stop, or its owner came back under a
\* new member id (a stopped owner does not call Consume again).
RebalanceNeeded ==
    IF owner = None THEN TRUE
    ELSE st[owner] \in NotJoined \/ (st[owner] = "idle" /\ sgen[owner] = gen /\ ~stopping[owner])

\* A new generation, with the partition assigned to a live member.
Rebalance ==
    /\ Up # {}
    /\ RebalanceNeeded \/ rebalances < MaxRebalances
    /\ rebalances' = IF RebalanceNeeded THEN rebalances ELSE rebalances + 1
    /\ gen' = gen + 1
    /\ \E m \in Up : owner' = m
    /\ UNCHANGED <<committed, st, sgen, pos, marked, delivered, faults, stopping>>

\* Mutation: the session resumes one past the committed offset.
JoinPastCommitted(m) ==
    /\ st[m] = "idle" /\ owner = m /\ sgen[m] < gen
    /\ st' = [st EXCEPT ![m] = "fetch"]
    /\ sgen' = [sgen EXCEPT ![m] = gen]
    /\ pos' = [pos EXCEPT ![m] = committed + 1]
    /\ marked' = [marked EXCEPT ![m] = committed]
    /\ UNCHANGED <<committed, gen, owner, delivered, faults, rebalances, stopping>>

\* client.Consume joins the new generation; this member got the partition,
\* so sarama starts ConsumeClaim with the claim at the committed offset.
Join(m) ==
    /\ st[m] = "idle" /\ owner = m /\ sgen[m] < gen
    /\ st' = [st EXCEPT ![m] = "fetch"]
    /\ sgen' = [sgen EXCEPT ![m] = gen]
    /\ pos' = [pos EXCEPT ![m] = committed]
    /\ marked' = [marked EXCEPT ![m] = committed]
    /\ UNCHANGED <<committed, gen, owner, delivered, faults, rebalances, stopping>>

\* sarama's MarkOffset keeps the larger of the marked and the new offset
MarkMessage(m) == [marked EXCEPT ![m] = IF pos[m] + 1 > @ THEN pos[m] + 1 ELSE @]

\* ConsumeClaim's select takes the next message (even when the session's
\* context is already done: select picks among ready cases at random); the
\* handler returns true, and the message is marked.
HandleOk(m) ==
    /\ st[m] = "fetch" /\ pos[m] < End /\ TRUE \in Outcomes
    /\ delivered' = delivered \cup {pos[m]}
    /\ marked' = MarkMessage(m)
    /\ pos' = [pos EXCEPT ![m] = @ + 1]
    /\ st' = [st EXCEPT ![m] = "commit"]
    /\ UNCHANGED <<committed, gen, owner, sgen, faults, rebalances, stopping>>

\* The handler returns false: nothing is marked and the loop goes on to the
\* next message.
HandleFail(m) ==
    /\ st[m] = "fetch" /\ pos[m] < End /\ FALSE \in Outcomes
    /\ delivered' = delivered \cup {pos[m]}
    /\ pos' = [pos EXCEPT ![m] = @ + 1]
    /\ UNCHANGED <<committed, gen, owner, st, sgen, marked, faults, rebalances,
                   stopping>>

\* session.Commit() sends the marked offset; the coordinator accepts it only
\* from the current generation.  Commit reports failures on the Errors()
\* channel, which errHandle only logs; either way the loop goes on.
Commit(m) ==
    /\ st[m] = "commit"
    /\ \/ /\ committed' = IF sgen[m] = gen THEN marked[m] ELSE committed
          /\ UNCHANGED faults
       \/ Fault /\ UNCHANGED committed
    /\ st' = [st EXCEPT ![m] = "fetch"]
    /\ UNCHANGED <<gen, owner, sgen, pos, marked, delivered, rebalances, stopping>>

\* the session's context is done: a new generation, or Stop
SessionDone(m) == sgen[m] < gen \/ stopping[m]

\* Mutation: the goroutine returns after one Consume instead of looping, and
\* the member stops heartbeating.
EndSessionExit(m) ==
    /\ st[m] = "fetch" /\ SessionDone(m)
    /\ st' = [st EXCEPT ![m] = "down"]
    /\ UNCHANGED <<committed, gen, owner, sgen, pos, marked, delivered, faults,
                   rebalances, stopping>>

\* Mutation: ConsumeClaim's select watches only the generation, not the
\* service's context.
EndSessionOnRebalance(m) ==
    /\ st[m] = "fetch" /\ sgen[m] < gen
    /\ st' = [st EXCEPT ![m] = "idle"]
    /\ UNCHANGED <<committed, gen, owner, sgen, pos, marked, delivered, faults,
                   rebalances, stopping>>

\* The session's context is done: ConsumeClaim returns nil and Consume
\* returns; the loop checks ctx.Err() next (Exit when it was Stop).
EndSession(m) ==
    /\ st[m] = "fetch" /\ SessionDone(m)
    /\ st' = [st EXCEPT ![m] = "idle"]
    /\ UNCHANGED <<committed, gen, owner, sgen, pos, marked, delivered, faults,
                   rebalances, stopping>>

\* Once the context is done sarama closes the claim, so the select may
\* instead receive nil from the closed Messages channel; handle(nil)
\* dereferences it and the goroutine's panic ends the process.
NilMessage(m) ==
    /\ st[m] = "fetch" /\ SessionDone(m)
    /\ Fault
    /\ st' = [st EXCEPT ![m] = "down"]
    /\ UNCHANGED <<committed, gen, owner, sgen, pos, marked, delivered,
                   rebalances, stopping>>

\* The process dies (log.Panicf on a Consume error, or killed); its
\* membership in this generation is spent.
Crash(m) ==
    /\ st[m] \notin Gone
    /\ Fault
    /\ st' = [st EXCEPT ![m] = "down"]
    /\ sgen' = [sgen EXCEPT ![m] = gen]
    /\ UNCHANGED <<committed, gen, owner, pos, marked, delivered, rebalances, stopping>>

\* The process is started again and calls Subscribe.
Restart(m) ==
    /\ st[m] = "down"
    /\ st' = [st EXCEPT ![m] = "new"]
    /\ stopping' = [stopping EXCEPT ![m] = FALSE]
    /\ UNCHANGED <<committed, gen, owner, sgen, pos, marked, delivered, faults,
                   rebalances>>

\* Start: init sets s.cancel and the errgroup context, checkHandles passes,
\* and registerHandles creates the client and starts the Consume loop
Start(m) ==
    /\ st[m] = "new"
    /\ st' = [st EXCEPT ![m] = "idle"]
    /\ UNCHANGED <<committed, gen, owner, sgen, pos, marked, delivered, faults,
                   rebalances, stopping>>

\* registerHandle fails (a bad Version, or NewConsumerGroup cannot reach
\* the broker): Start returns the error and Subscribe's goroutine logs it
\* and returns; the service never consumes
StartFail(m) ==
    /\ st[m] = "new"
    /\ Fault
    /\ st' = [st EXCEPT ![m] = "exited"]
    /\ UNCHANGED <<committed, gen, owner, sgen, pos, marked, delivered,
                   rebalances, stopping>>

\* Stop before Start's goroutine has run init: s.cancel is nil, so Stop
\* returns nil and does nothing; the service starts afterwards anyway
StopEarly(m) ==
    /\ st[m] = "new"
    /\ UNCHANGED vars

\* consumerService.Stop: s.cancel() cancels the context of Consume and of
\* every session derived from it (a second Stop finds cancel nil)
Stop(m) ==
    /\ st[m] \notin NotJoined /\ ~stopping[m]
    /\ Fault
    /\ stopping' = [stopping EXCEPT ![m] = TRUE]
    /\ UNCHANGED <<committed, gen, owner, st, sgen, pos, marked, delivered,
                   rebalances>>

\* Consume has returned and ctx.Err() is set: the goroutine returns nil,
\* eg.Wait returns, Start closes the client and the member leaves the group
Exit(m) ==
    /\ st[m] = "idle" /\ stopping[m]
    /\ st' = [st EXCEPT ![m] = "exited"]
    /\ UNCHANGED <<committed, gen, owner, sgen, pos, marked, delivered, faults,
                   rebalances, stopping>>

Handle(m) == HandleOk(m) \/ HandleFail(m)

MemberStep(m) == Start(m) \/ Join(m) \/ Handle(m) \/ Commit(m) \/ EndSession(m) \/ Exit(m)

Next ==
    \/ Rebalance
    \/ \E m \in Members :
          MemberStep(m) \/ StartFail(m) \/ NilMessage(m) \/ Crash(m) \/ Restart(m)
          \/ Stop(m) \/ StopEarly(m)

Spec == Init /\ [][Next]_vars

\* Each live member's goroutine keeps running its loop, and the coordinator
\* reassigns a partition whose owner is gone (session timeout).  Faults,
\* restarts and optional rebalances get no fairness: they are bounded.
FairSpec ==
    /\ Spec
    /\ \A m \in Members : WF_vars(MemberStep(m))
    /\ WF_vars(RebalanceNeeded /\ Rebalance)

-----------------------------------------------------------------------------
(* Properties.                                                             *)

TypeOK ==
    /\ committed \in 0..End
    /\ gen \in Nat /\ owner \in Members \cup {None}
    /\ st \in [Members -> {"new", "down", "idle", "fetch", "commit", "exited"}]
    /\ stopping \in [Members -> BOOLEAN]
    /\ sgen \in [Members -> 0..gen]
    /\ pos \in [Members -> 0..End]
    /\ marked \in [Members -> 0..End]
    /\ delivered \subseteq Offsets
    /\ faults \in 0..MaxFaults /\ rebalances \in 0..MaxRebalances

Abstract == INSTANCE CommittedLog

\* The group's committed offset, through rebalances, stale sessions, crashes
\* and lost commits, only moves forward and never past a message that was
\* not handed to the handler: ConsumeClaim delivers at least once.
ConsumerSpec == Abstract!Spec

\* Every message of the partition is eventually handed to a handler, as
\* long as one member stays alive: the Consume loop rejoins after every
\* rebalance and the claim resumes from the committed offset.
AllDelivered == \A o \in Offsets : <>(o \in delivered)

\* A member whose service was stopped eventually leaves its Consume loop
\* (or dies): ConsumeClaim returns when the session's context is done,
\* even with no message left to read, and the loop then sees ctx.Err().
StopTerminates == \A m \in Members : stopping[m] ~> st[m] \in Gone

=============================================================================

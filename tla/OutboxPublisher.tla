-------------------------- MODULE OutboxPublisher --------------------------
(***************************************************************************)
(* The transactional outbox: decisions commit events, and publishers (the  *)
(* first step of each email worker, and the outbox-only command) turn the  *)
(* pending ones into notification_deliveries rows.                         *)
(*                                                                         *)
(* One run of a publisher is one transaction over a batch: it selects the  *)
(* pending events, looks for the delivery of each in turn, and commits all *)
(* inserts and status changes together.  Several publishers, new events    *)
(* and crashes come between its statements.                                *)
(***************************************************************************)
EXTENDS Naturals, FiniteSets

CONSTANTS
    Events,       \* outbox events, numbered in the order of created_at
    Publishers    \* processes that run publish_pending

VARIABLES
    event,        \* committed status of each outbox event
    deliveries,   \* delivery rows of each event
    running,      \* the publishers inside a transaction
    batch,        \* the events a publisher has selected
    checked,      \* those it has looked at
    inserts       \* those it is going to insert a delivery for

vars == <<event, deliveries, running, batch, checked, inserts>>

-----------------------------------------------------------------------------
EventPending(e) == event[e] = "pending"

(* Mistake: the table has no unique constraint *)
RowsNotConstrained(p) == TRUE

(* uq_notification_delivery_outbox, for all the rows of the batch *)
RowsAreNew(p) == \A e \in inserts[p] : deliveries[e] = 0

(* Mistake: every pending event is marked, whether in the batch or not *)
MarkedPending(p) == {e \in Events : EventPending(e)}

(* The events a commit marks as published *)
Marked(p) == batch[p]

Init ==
    /\ event = [e \in Events |-> "absent"]
    /\ deliveries = [e \in Events |-> 0]
    /\ running = {}
    /\ batch = [p \in Publishers |-> {}]
    /\ checked = [p \in Publishers |-> {}]
    /\ inserts = [p \in Publishers |-> {}]

(* record_outbox_event: a decision on an offer commits.  Decisions that      *)
(* overlap may commit in another order than that of their created_at.        *)
Record(e) ==
    /\ event[e] = "absent"
    /\ event' = [event EXCEPT ![e] = "pending"]
    /\ UNCHANGED <<deliveries, running, batch, checked, inserts>>

(* publish_pending: SELECT the pending events.  An empty batch commits      *)
(* nothing.                                                                 *)
SelectPending(p) ==
    /\ p \notin running
    /\ \E e \in Events : EventPending(e)
    /\ running' = running \cup {p}
    /\ batch' = [batch EXCEPT ![p] = {e \in Events : EventPending(e)}]
    /\ checked' = [checked EXCEPT ![p] = {}]
    /\ inserts' = [inserts EXCEPT ![p] = {}]
    /\ UNCHANGED <<event, deliveries>>

(* Mistake: the loop goes over the events that are pending by now *)
CheckNextPending(p, e) ==
    /\ p \in running
    /\ EventPending(e) /\ e \notin checked[p]
    /\ checked' = [checked EXCEPT ![p] = @ \cup {e}]
    /\ inserts' = [inserts EXCEPT ![p] =
                      IF deliveries[e] = 0 THEN @ \cup {e} ELSE @]
    /\ UNCHANGED <<event, deliveries, running, batch>>

(* Look for the delivery of the next event of the batch, oldest first *)
CheckNext(p, e) ==
    /\ p \in running
    /\ e \in batch[p] \ checked[p]
    /\ \A f \in batch[p] : f < e => f \in checked[p]
    /\ checked' = [checked EXCEPT ![p] = @ \cup {e}]
    /\ inserts' = [inserts EXCEPT ![p] =
                      IF deliveries[e] = 0 THEN @ \cup {e} ELSE @]
    /\ UNCHANGED <<event, deliveries, running, batch>>

Finish(p) ==
    /\ running' = running \ {p}
    /\ batch' = [batch EXCEPT ![p] = {}]
    /\ checked' = [checked EXCEPT ![p] = {}]
    /\ inserts' = [inserts EXCEPT ![p] = {}]

(* All inserts and status changes of the batch, or none *)
CommitBatch(p) ==
    /\ p \in running
    /\ checked[p] = batch[p]
    /\ RowsAreNew(p)
    /\ deliveries' = [e \in Events |-> IF e \in inserts[p]
                                       THEN deliveries[e] + 1
                                       ELSE deliveries[e]]
    /\ event' = [e \in Events |-> IF e \in Marked(p) THEN "published"
                                  ELSE event[e]]
    /\ Finish(p)

(* Mistake: after a conflict the same inserts are tried again *)
BatchFailsRetrying(p) ==
    /\ p \in running
    /\ checked[p] = batch[p]
    /\ ~RowsAreNew(p)
    /\ UNCHANGED vars

(* Another publisher has inserted one of the rows meanwhile: the            *)
(* IntegrityError undoes the whole batch and ends the process.              *)
BatchFails(p) ==
    /\ p \in running
    /\ checked[p] = batch[p]
    /\ ~RowsAreNew(p)
    /\ Finish(p)
    /\ UNCHANGED <<event, deliveries>>

(* The process dies before the commit *)
Crash(p) ==
    /\ p \in running
    /\ Finish(p)
    /\ UNCHANGED <<event, deliveries>>

Publish(p) ==
    \/ SelectPending(p)
    \/ \E e \in Events : CheckNext(p, e)
    \/ CommitBatch(p)
    \/ BatchFails(p)

Next == \/ \E e \in Events : Record(e)
        \/ \E p \in Publishers : Publish(p) \/ Crash(p)

Spec == Init /\ [][Next]_vars

(* A scheduler runs the publishers again and again.  A publisher may crash, *)
(* but one of them crashes finitely often.                                  *)
FairSpec == /\ Spec
            /\ \A p \in Publishers : WF_vars(Publish(p))
            /\ \E p \in Publishers : <>[][~Crash(p)]_vars

-----------------------------------------------------------------------------
(* Properties *)

TypeOK ==
    /\ event \in [Events -> {"absent", "pending", "published"}]
    /\ deliveries \in [Events -> Nat]
    /\ running \subseteq Publishers
    /\ batch \in [Publishers -> SUBSET Events]
    /\ checked \in [Publishers -> SUBSET Events]
    /\ inserts \in [Publishers -> SUBSET Events]
    /\ \A p \in Publishers : inserts[p] \subseteq checked[p]
                            /\ checked[p] \subseteq batch[p]

(* Whatever publishers race, crash or fail, an event never has two delivery *)
(* rows, so that no decision is notified twice by the outbox.               *)
OneDeliveryPerEvent == \A e \in Events : deliveries[e] <= 1

(* An event counts as published exactly when its delivery row exists: one   *)
(* committed while a batch is under way is not marked with it.              *)
PublishedIffMaterialised ==
    \A e \in Events : event[e] = "published" <=> deliveries[e] > 0

(* Every committed event gets its delivery row, although a conflict undoes  *)
(* a whole batch.                                                           *)
EveryEventMaterialises ==
    \A e \in Events : EventPending(e) ~> deliveries[e] > 0
=============================================================================

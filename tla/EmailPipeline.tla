---------------------------- MODULE EmailPipeline ----------------------------
(***************************************************************************)
(* From a committed decision to an email: the outbox publishers and the    *)
(* delivery workers together.  A run of the email worker first publishes   *)
(* and then delivers until it finds no row or loses a claim; the command   *)
(* that only publishes runs beside it.  The state of the deliveries is     *)
(* that of DeliveryWorker, the state of the publishers that of             *)
(* OutboxPublisher, which sees a delivery row as present or absent.        *)
(*                                                                         *)
(* Delivery d is the one of event d: rows are created in the order of      *)
(* their events, because decisions are taken to commit in the order of     *)
(* their created_at.                                                       *)
(***************************************************************************)
EXTENDS DeliveryWorker

CONSTANT OutboxOnly    \* processes of the command that only publishes

VARIABLES
    event, running, batch, checked, inserts,    \* see OutboxPublisher
    phase                                       \* what a run of a worker does

outbox == <<event, running, batch, checked, inserts>>
all == <<vars, outbox, phase>>

Materialised ==
    [d \in Deliveries |-> IF delivery[d].status = "absent" THEN 0 ELSE 1]

Outbox == INSTANCE OutboxPublisher WITH
              Events <- Deliveries,
              Publishers <- Workers \cup OutboxOnly,
              deliveries <- Materialised

-----------------------------------------------------------------------------
Enter(w, next) == phase' = [phase EXCEPT ![w] = next]

PipelineInit ==
    /\ Init
    /\ Outbox!Init
    /\ phase = [w \in Workers |-> "off"]

Record(d) ==
    /\ \A e \in Deliveries : e < d => event[e] # "absent"
    /\ UNCHANGED <<vars, phase>>
    /\ Outbox!Record(d)

(* The statements of publish_pending before its commit *)
Prepare(p) ==
    /\ UNCHANGED vars
    /\ Outbox!SelectPending(p) \/ \E e \in Deliveries : Outbox!CheckNext(p, e)

(* Mistake: the statuses are left to a second commit *)
CommitRows(p) ==
    /\ p \in running /\ checked[p] = batch[p]
    /\ Materialise(inserts[p])
    /\ Outbox!Finish(p)
    /\ UNCHANGED event

(* The rows that the commit inserts are those the workers may then claim *)
Commit(p) == Materialise(inserts[p]) /\ Outbox!CommitBatch(p)

Fail(p) == UNCHANGED vars /\ Outbox!BatchFails(p)

(* run_outbox_publisher *)
PublishOnly(p) ==
    /\ Prepare(p) \/ Commit(p) \/ Fail(p)
    /\ UNCHANGED phase

(* The scheduler runs the email worker *)
Start(w) == phase[w] = "off" /\ Enter(w, "publish") /\ UNCHANGED <<vars, outbox>>

(* run_email_worker publishes first; a conflict ends it before it delivers *)
PublishFirst(w) ==
    /\ phase[w] = "publish"
    /\ \/ Prepare(w) /\ UNCHANGED phase
       \/ /\ w \notin running /\ ~\E e \in Deliveries : Outbox!EventPending(e)
          /\ Enter(w, "deliver") /\ UNCHANGED <<vars, outbox>>
       \/ Commit(w) /\ Enter(w, "deliver")
       \/ Fail(w) /\ Enter(w, "off")

(* deliver_pending: no row, or a claim that was lost, ends the run *)
Deliver(w) ==
    /\ phase[w] = "deliver"
    /\ UNCHANGED outbox
    /\ \/ /\ Work(w)
          /\ Enter(w, IF pc[w] = "claim" /\ pc'[w] = "idle" THEN "off"
                      ELSE "deliver")
       \/ /\ pc[w] = "idle" /\ ~\E d \in Deliveries : Eligible(d, 0)
          /\ Enter(w, "off") /\ UNCHANGED vars

(* Mistake: the next process takes the worker_id of the one that died *)
DieKeepingName(w) ==
    /\ crashes < MaxCrashes /\ pc[w] # "idle"
    /\ crashes' = crashes + 1
    /\ Rest(w) /\ Enter(w, "off")
    /\ UNCHANGED <<delivery, sent, outbox>>

(* A process dies while it works on a row, while it publishes, or between   *)
(* two rows; with no row left, that is how a run ends anyway.               *)
DieWorking(w) == Crash(w) /\ Enter(w, "off") /\ UNCHANGED outbox

Die(p) ==
    /\ UNCHANGED vars
    /\ \/ p \in OutboxOnly /\ Outbox!Crash(p) /\ UNCHANGED phase
       \/ p \in Workers /\ Outbox!Crash(p) /\ Enter(p, "off")
       \/ /\ p \in Workers /\ phase[p] = "deliver" /\ pc[p] = "idle"
          /\ \E d \in Deliveries : Eligible(d, 0)
          /\ Enter(p, "off") /\ UNCHANGED outbox

Run(w) == Start(w) \/ PublishFirst(w) \/ Deliver(w)

PipelineTick == InTime /\ Tick /\ UNCHANGED <<outbox, phase>>

PipelineNext ==
    \/ \E d \in Deliveries : Record(d)
    \/ \E p \in OutboxOnly : PublishOnly(p) \/ Die(p)
    \/ \E w \in Workers : Run(w) \/ DieWorking(w) \/ Die(w)
    \/ PipelineTick

PipelineSpec == PipelineInit /\ [][PipelineNext]_all

(* The scheduler runs every worker again and again, and some worker, from   *)
(* some time on, dies only while it holds a row.  Nothing is asked of the   *)
(* command that only publishes.                                             *)
FairPipelineSpec ==
    /\ PipelineSpec
    /\ WF_all(PipelineTick)
    /\ \A w \in Workers : WF_all(Run(w))
    /\ \E w \in Workers : <>[][~Die(w)]_all

-----------------------------------------------------------------------------
(* Properties *)

(* Every recorded decision is told to its recipient or given up for good,   *)
(* although publishers undo whole batches, runs end at lost claims and      *)
(* conflicts, and workers die between the commits.                          *)
EveryDecisionSettles ==
    \A d \in Deliveries : event[d] = "pending" ~> [](delivery[d].status \in Settled)

(* No email is sent, and none recorded as sent, for a decision that is not  *)
(* committed or whose event still counts as unpublished.                    *)
OnlyPublishedIsSent ==
    \A d \in Deliveries : sent[d] > 0 => event[d] = "published"

(* The publishers that share their processes with workers are those of      *)
(* OutboxPublisher ...                                                      *)
ImplementsOutbox == Outbox!Spec

(* ... and the workers that start behind a publisher those of               *)
(* DeliveryWorker, whose rows appear in whole batches.                      *)
ImplementsDelivery == TimelySpec
=============================================================================

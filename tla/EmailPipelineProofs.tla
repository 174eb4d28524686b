-------------------------- MODULE EmailPipelineProofs --------------------------
(***************************************************************************)
(* Proofs about EmailPipeline: publishers and workers that share processes *)
(* and rows are the publishers of OutboxPublisher and the workers of       *)
(* DeliveryWorker, so that what is proved of either holds of the whole.    *)
(***************************************************************************)
EXTENDS EmailPipeline, DeliveryWorkerProofs

(* The theorems about OutboxPublisher, for the state of the pipeline *)
P == INSTANCE OutboxPublisherProofs WITH
         Events <- Deliveries,
         Publishers <- Workers \cup OutboxOnly,
         deliveries <- Materialised

Publishing == Workers \cup OutboxOnly

(* Rows that somebody works on or that were sent are there, and publishers  *)
(* insert rows of events.                                                   *)
Present ==
    /\ \A w \in Workers : pc[w] # "idle" => delivery[job[w]].status # "absent"
    /\ \A d \in Deliveries : sent[d] > 0 => delivery[d].status # "absent"
BatchTypes ==
    /\ batch \in [Publishing -> SUBSET Deliveries]
    /\ inserts \in [Publishing -> SUBSET Deliveries]

Joint == Inv /\ Present /\ BatchTypes

(* A step after which the same rows are there *)
KeepsRows == \A d \in Deliveries :
    delivery'[d].status = "absent" <=> delivery[d].status = "absent"

LEMMA SameMaterialised == KeepsRows => Materialised' = Materialised
BY DEF KeepsRows, Materialised

-----------------------------------------------------------------------------
(* The steps of the workers *)

LEMMA WorkKeepsRows ==
    ASSUME Inv, Present, NEW w \in Workers, Work(w)
    PROVE  KeepsRows /\ Present'
<1> USE DEF Present, KeepsRows
<1>1. TypeOK /\ \A v \in Workers : pc[v] # "idle" => job[v] \in Deliveries
    BY DEF Inv, WorkerOK
<1>2. ASSUME NEW d \in Deliveries, Select(w, d) PROVE KeepsRows /\ Present'
    BY <1>1, <1>2 DEF Select, Goto, TypeOK, Eligible
<1>3. CASE Claim(w)
    <2>1. job[w] \in Deliveries /\ delivery[job[w]].status # "absent"
        BY <1>1, <1>3 DEF Claim
    <2>2. Leased(w).status = "processing"
        BY DEF Leased
    <2>3. KeepsRows
        BY <1>1, <1>3, <2>1, <2>2 DEF Claim, TypeOK
    <2>4. sent' = sent /\ \A v \in Workers : pc'[v] # "idle" => pc[v] # "idle" /\ job'[v] = job[v]
        BY <1>1, <1>3 DEF Claim, Goto, Rest, TypeOK
    <2> QED
        BY <1>1, <2>3, <2>4
<1>4. CASE SendSucceeds(w) \/ SendFails(w)
    <2>1. delivery' = delivery /\ job' = job
        BY <1>4 DEF SendSucceeds, SendFails
    <2>2. \A v \in Workers : pc'[v] # "idle" => pc[v] # "idle"
        BY <1>1, <1>4 DEF SendSucceeds, SendFails, Goto, TypeOK
    <2>3. \A d \in Deliveries : d # job[w] => sent'[d] = sent[d]
        BY <1>1, <1>4 DEF SendSucceeds, SendFails, Accepted, TypeOK
    <2>4. delivery[job[w]].status # "absent"
        BY <1>4 DEF SendSucceeds, SendFails
    <2> QED
        BY <1>1, <2>1, <2>2, <2>3, <2>4
<1>5. CASE Mark(w) \/ FailWrite(w)
    <2>1. job[w] \in Deliveries /\ delivery[job[w]].status # "absent"
        BY <1>1, <1>5 DEF Mark, FailWrite
    <2>2. ASSUME NEW status \in {"delivered", "dead_letter", "retry"}
          PROVE  Released(delivery[job[w]], status).status = status
        BY <1>1, <2>1 DEF Released, TypeOK, Row
    <2>3. KeepsRows
        BY <1>1, <1>5, <2>1, <2>2 DEF Mark, FailWrite, TypeOK
    <2>4. sent' = sent /\ \A v \in Workers : pc'[v] # "idle" => pc[v] # "idle" /\ job'[v] = job[v]
        BY <1>1, <1>5 DEF Mark, FailWrite, Goto, Rest, TypeOK
    <2> QED
        BY <1>1, <2>3, <2>4
<1>6. CASE FailRead(w)
    BY <1>1, <1>6 DEF FailRead, Goto, Rest, TypeOK
<1> QED
    BY <1>2, <1>3, <1>4, <1>5, <1>6 DEF Work

LEMMA CrashKeepsRows ==
    ASSUME Inv, Present, NEW w \in Workers, Crash(w)
    PROVE  KeepsRows /\ Present'
<1>1. KeepsRows
    BY CrashedRow DEF KeepsRows
<1>2. sent' = sent /\ \A v \in Workers : pc'[v] # "idle" => pc[v] # "idle" /\ job'[v] = job[v]
    BY DEF Crash, Rest, Goto, Inv, TypeOK
<1> QED
    BY <1>1, <1>2 DEF Present, KeepsRows, Inv, WorkerOK

LEMMA TickKeepsRows ==
    ASSUME Inv, Present, Tick
    PROVE  KeepsRows /\ Present'
<1>1. KeepsRows
    BY TickedRow DEF KeepsRows, Inv
<1> QED
    BY <1>1 DEF Tick, Present, KeepsRows, Inv, WorkerOK

(* New rows appear, and none disappears *)
LEMMA MaterialiseKeepsPresent ==
    ASSUME Inv, Present, NEW S \in SUBSET Deliveries, Materialise(S)
    PROVE  Present'
<1>1. ASSUME NEW d \in Deliveries, delivery[d].status # "absent"
      PROVE  delivery'[d] = delivery[d]
    BY <1>1 DEF Materialise
<1> QED
    BY <1>1 DEF Materialise, local, Present, Inv, WorkerOK

-----------------------------------------------------------------------------
(* The steps of the publishers *)

LEMMA PublisherTypes ==
    ASSUME BatchTypes, NEW p \in Publishing,
           \/ Prepare(p) \/ Fail(p) \/ Outbox!Crash(p) \/ Commit(p)
    PROVE  BatchTypes'
<1> USE DEF BatchTypes, Publishing
<1>1. CASE Outbox!SelectPending(p)
    BY <1>1 DEF Outbox!SelectPending
<1>2. ASSUME NEW e \in Deliveries, Outbox!CheckNext(p, e) PROVE BatchTypes'
    BY <1>2 DEF Outbox!CheckNext
<1>3. CASE Outbox!Finish(p)
    BY <1>3 DEF Outbox!Finish
<1> QED
    BY <1>1, <1>2, <1>3
    DEF Prepare, Fail, Commit, Outbox!BatchFails, Outbox!Crash, Outbox!CommitBatch

(* What a step of either kind is to the two components *)
PublisherStep ==
    /\ UNCHANGED vars
    /\ \/ \E d \in Deliveries : Outbox!Record(d)
       \/ \E p \in Publishing : Prepare(p) \/ Fail(p) \/ Outbox!Crash(p)
CommitStep == \E p \in Publishing : Commit(p)
WorkerStep ==
    /\ UNCHANGED outbox
    /\ \/ \E w \in Workers : Work(w) \/ Crash(w)
       \/ InTime /\ Tick
       \/ UNCHANGED vars

LEMMA StepKinds == [PipelineNext]_all => PublisherStep \/ CommitStep \/ WorkerStep
<1> SUFFICES ASSUME [PipelineNext]_all
             PROVE  PublisherStep \/ CommitStep \/ WorkerStep
    OBVIOUS
<1> USE DEF PublisherStep, CommitStep, WorkerStep, Publishing
<1>1. ASSUME NEW d \in Deliveries, Record(d) PROVE PublisherStep
    BY <1>1 DEF Record
<1>2. ASSUME NEW p \in OutboxOnly, PublishOnly(p) PROVE PublisherStep \/ CommitStep
    BY <1>2 DEF PublishOnly, Prepare, Fail
<1>3. ASSUME NEW p \in Publishing, Die(p) PROVE PublisherStep \/ WorkerStep
    BY <1>3 DEF Die
<1>4. ASSUME NEW w \in Workers, Start(w) PROVE WorkerStep
    BY <1>4 DEF Start
<1>5. ASSUME NEW w \in Workers, PublishFirst(w)
      PROVE  PublisherStep \/ CommitStep \/ WorkerStep
    BY <1>5 DEF PublishFirst, Prepare, Fail
<1>6. ASSUME NEW w \in Workers, Deliver(w) PROVE WorkerStep
    BY <1>6 DEF Deliver
<1>7. ASSUME NEW w \in Workers, DieWorking(w) PROVE WorkerStep
    BY <1>7 DEF DieWorking
<1>8. CASE PipelineTick
    BY <1>8 DEF PipelineTick
<1>9. CASE UNCHANGED all
    BY <1>9 DEF all
<1> QED
    BY <1>1, <1>2, <1>3, <1>4, <1>5, <1>6, <1>7, <1>8, <1>9 DEF PipelineNext, Run

LEMMA InitJoint == PipelineInit => Joint
BY InitInv DEF PipelineInit, Init, Outbox!Init, Joint, Present, BatchTypes,
               Publishing

(* Each step is a step of both components, or leaves one of them alone *)
LEMMA StepOfBoth ==
    ASSUME Joint, [PipelineNext]_all
    PROVE  Joint' /\ [TimelyNext]_vars /\ [Outbox!Next]_(Outbox!vars)
<1> USE DEF Joint
<1>1. CASE PublisherStep
    <2>1. UNCHANGED vars
        BY <1>1 DEF PublisherStep
    <2>2. Inv' /\ Present'
        BY <2>1, StutterInv DEF vars, Present
    <2>3. BatchTypes'
        <3>1. ASSUME NEW d \in Deliveries, Outbox!Record(d) PROVE BatchTypes'
            BY <3>1 DEF Outbox!Record, BatchTypes
        <3> QED
            BY <1>1, <3>1, PublisherTypes DEF PublisherStep
    <2>4. Outbox!Next
        BY <1>1 DEF PublisherStep, Outbox!Next, Outbox!Publish, Prepare, Fail,
                    Publishing
    <2> QED
        BY <2>1, <2>2, <2>3, <2>4
<1>2. CASE CommitStep
    <2>1. PICK p \in Publishing : Commit(p)
        BY <1>2 DEF CommitStep
    <2>2. inserts[p] \in SUBSET Deliveries /\ Materialise(inserts[p])
        BY <2>1 DEF BatchTypes, Commit
    <2>3. Act
        BY <2>2 DEF Act
    <2>4. Inv' /\ Present'
        BY <2>2, <2>3, ActInv, MaterialiseKeepsPresent
    <2>5. BatchTypes'
        BY <2>1, PublisherTypes
    <2>6. Outbox!Next
        BY <2>1 DEF Commit, Outbox!Next, Outbox!Publish, Publishing
    <2> QED
        BY <2>3, <2>4, <2>5, <2>6 DEF TimelyNext
<1>3. CASE WorkerStep
    <2>1. [TimelyNext]_vars
        BY <1>3 DEF WorkerStep, TimelyNext, Act
    <2>2. Inv'
        BY <2>1, ActInv, TickInv, StutterInv DEF TimelyNext
    <2>3. Present' /\ KeepsRows
        <3>1. CASE UNCHANGED vars
            BY <3>1 DEF vars, Present, KeepsRows
        <3> QED
            BY <1>3, <3>1, WorkKeepsRows, CrashKeepsRows, TickKeepsRows
            DEF WorkerStep
    <2>4. UNCHANGED Outbox!vars
        BY <1>3, <2>3, SameMaterialised DEF WorkerStep, outbox, Outbox!vars
    <2>5. BatchTypes'
        BY <1>3 DEF WorkerStep, outbox, BatchTypes
    <2> QED
        BY <2>1, <2>2, <2>3, <2>4, <2>5
<1> QED
    BY <1>1, <1>2, <1>3, StepKinds

LEMMA JointInvariance == PipelineSpec => []Joint
BY InitJoint, StepOfBoth, PTL DEF PipelineSpec

-----------------------------------------------------------------------------
(* Theorems *)

(* Workers that start behind a publisher are those of DeliveryWorker: what  *)
(* is proved of TimelySpec holds of every row of the pipeline.              *)
THEOREM WorkersAreRefined == PipelineSpec => ImplementsDelivery
<1>1. PipelineInit => Init
    BY DEF PipelineInit
<1> QED
    BY <1>1, StepOfBoth, JointInvariance, PTL
    DEF PipelineSpec, ImplementsDelivery, TimelySpec

(* Publishers that share processes with workers are those of                *)
(* OutboxPublisher.                                                         *)
THEOREM PublishersAreRefined == PipelineSpec => ImplementsOutbox
<1>1. PipelineInit => Outbox!Init
    BY DEF PipelineInit
<1> QED
    BY <1>1, StepOfBoth, JointInvariance, PTL
    DEF PipelineSpec, ImplementsOutbox, Outbox!Spec

LEMMA SameSpec == Outbox!Spec <=> P!Spec
<1>1. Outbox!Init <=> P!Init
    BY DEF Outbox!Init, P!Init
<1>2. [Outbox!Next]_(Outbox!vars) <=> [P!Next]_(P!vars)
    BY DEF Outbox!Next, P!Next, Outbox!vars, P!vars, Outbox!Record, P!Record,
       Outbox!Publish, P!Publish, Outbox!Crash, P!Crash, Outbox!Finish, P!Finish,
       Outbox!SelectPending, P!SelectPending, Outbox!CheckNext, P!CheckNext,
       Outbox!CommitBatch, P!CommitBatch, Outbox!BatchFails, P!BatchFails,
       Outbox!RowsAreNew, P!RowsAreNew, Outbox!Marked, P!Marked,
       Outbox!EventPending, P!EventPending
<1> QED
    BY <1>1, <1>2, PTL DEF Outbox!Spec, P!Spec


(* An email is sent only for an event that is published: a row that was     *)
(* sent is there, and PublishedIffMaterialised holds of the publishers.     *)
THEOREM SentMeansPublished == PipelineSpec => []OnlyPublishedIsSent
<1>1. Present /\ P!PublishedIffMaterialised => OnlyPublishedIsSent
    BY DEF Present, P!PublishedIffMaterialised, OnlyPublishedIsSent, Materialised
<1>2. PipelineSpec => []P!PublishedIffMaterialised
    BY PublishersAreRefined, SameSpec, P!PublishedMeansMaterialised, PTL
    DEF ImplementsOutbox
<1>3. Joint => Present
    BY DEF Joint
<1> QED
    BY <1>1, <1>2, <1>3, JointInvariance, PTL

LEMMA TimelyIsSpec == TimelySpec => Spec
<1>1. TimelyNext => Next
    BY DEF TimelyNext, Next
<1> QED
    BY <1>1, PTL DEF TimelySpec, Spec

(* What run_email_worker does keeps what DeliveryWorker promises of its     *)
(* rows, whoever publishes beside it and wherever in a run a process dies:  *)
(* one worker at a time, results by the holder of the lease and for good,   *)
(* and no claim beyond the bound that has not cost a crash.                 *)
THEOREM WorkersKeepTheirWord ==
    PipelineSpec => /\ []OneWorkerPerRow /\ []ExcessNeedsCrash
                    /\ SuccessByHolder /\ SettledIsFinal
BY WorkersAreRefined, TimelyIsSpec, NeverTwoOnARow, OnlyCrashesExceed,
   HolderRecordsSuccess, SettledForGood, PTL
DEF ImplementsDelivery

(* From end to end: what the row of a decision says of its email is true of *)
(* the outbox and of the provider.  A row marked delivered had its email    *)
(* accepted, one given up has used its attempts, and either has its event   *)
(* published.                                                               *)
THEOREM OutcomesAreTrue ==
    PipelineSpec =>
       [](\A d \in Deliveries :
             /\ delivery[d].status = "delivered" =>
                   sent[d] > 0 /\ event[d] = "published"
             /\ delivery[d].status = "dead_letter" =>
                   delivery[d].attempts >= MaxAttempts /\ event[d] = "published")
<1> DEFINE True ==
       \A d \in Deliveries :
          /\ delivery[d].status = "delivered" =>
                sent[d] > 0 /\ event[d] = "published"
          /\ delivery[d].status = "dead_letter" =>
                delivery[d].attempts >= MaxAttempts /\ event[d] = "published"
<1>1. P!PublishedIffMaterialised /\ DeliveredWasSent /\ DeadLetterIsExhausted => True
    BY DEF P!PublishedIffMaterialised, DeliveredWasSent, DeadLetterIsExhausted,
           Materialised
<1>2. PipelineSpec => []P!PublishedIffMaterialised
    BY PublishersAreRefined, SameSpec, P!PublishedMeansMaterialised, PTL
    DEF ImplementsOutbox
<1>3. PipelineSpec => []DeliveredWasSent /\ []DeadLetterIsExhausted
    BY WorkersAreRefined, TimelyIsSpec, DeliveredMeansSent, GivenUpWhenExhausted, PTL
    DEF ImplementsDelivery
<1> HIDE DEF True
<1>4. PipelineSpec => []True
    BY <1>1, <1>2, <1>3, PTL
<1> QED
    BY <1>4 DEF True
=============================================================================

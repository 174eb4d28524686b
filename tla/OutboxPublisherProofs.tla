----------------------- MODULE OutboxPublisherProofs -----------------------
(***************************************************************************)
(* Proofs about OutboxPublisher: whatever the events and the publishers,   *)
(* an event has at most one delivery, and it is published exactly when it  *)
(* has one.                                                                *)
(***************************************************************************)
EXTENDS OutboxPublisher, TLAPS

-----------------------------------------------------------------------------
(* The inductive invariant *)

(* A batch only holds events that were committed, and an event the loop has *)
(* passed without an insert has its delivery already: deliveries are never  *)
(* removed, so this stays true while the other publishers commit.           *)
BatchOK ==
    \A p \in Publishers, e \in Events :
        /\ e \in batch[p] => event[e] # "absent"
        /\ e \in checked[p] \ inserts[p] => deliveries[e] > 0

Inv == TypeOK /\ BatchOK /\ OneDeliveryPerEvent /\ PublishedIffMaterialised

LEMMA InitInv == Init => Inv
BY DEF Init, Inv, TypeOK, BatchOK, OneDeliveryPerEvent,
       PublishedIffMaterialised

LEMMA RecordInv ==
    ASSUME Inv, NEW e \in Events, Record(e)
    PROVE  Inv'
BY DEF Record, Inv, TypeOK, BatchOK, OneDeliveryPerEvent,
       PublishedIffMaterialised

LEMMA SelectPendingInv ==
    ASSUME Inv, NEW p \in Publishers, SelectPending(p)
    PROVE  Inv'
<1> USE DEF Inv, SelectPending
<1>1. TypeOK'
  BY DEF TypeOK
<1>2. BatchOK'
  BY DEF BatchOK, TypeOK, EventPending
<1>3. (OneDeliveryPerEvent /\ PublishedIffMaterialised)'
  BY DEF OneDeliveryPerEvent, PublishedIffMaterialised
<1> QED
  BY <1>1, <1>2, <1>3

LEMMA CheckNextInv ==
    ASSUME Inv, NEW p \in Publishers, NEW e \in Events, CheckNext(p, e)
    PROVE  Inv'
<1> USE DEF Inv, CheckNext
<1>1. TypeOK'
  BY DEF TypeOK
<1>2. BatchOK'
  <2> SUFFICES ASSUME NEW q \in Publishers, NEW f \in Events
               PROVE  /\ f \in batch'[q] => event'[f] # "absent"
                      /\ f \in checked'[q] \ inserts'[q] => deliveries'[f] > 0
    BY DEF BatchOK
  <2>1. CASE q = p /\ f = e
    BY <2>1 DEF BatchOK, TypeOK
  <2>2. CASE ~(q = p /\ f = e)
    BY <2>2 DEF BatchOK, TypeOK
  <2> QED
    BY <2>1, <2>2
<1>3. (OneDeliveryPerEvent /\ PublishedIffMaterialised)'
  BY DEF OneDeliveryPerEvent, PublishedIffMaterialised
<1> QED
  BY <1>1, <1>2, <1>3

(* A transaction that ends without a commit: by a conflict or by a crash *)
LEMMA GiveUpInv ==
    ASSUME Inv, NEW p \in Publishers, Finish(p), UNCHANGED <<event, deliveries>>
    PROVE  Inv'
<1> USE DEF Inv, Finish
<1>1. TypeOK'
  BY DEF TypeOK
<1>2. BatchOK'
  BY DEF BatchOK, TypeOK
<1>3. (OneDeliveryPerEvent /\ PublishedIffMaterialised)'
  BY DEF OneDeliveryPerEvent, PublishedIffMaterialised
<1> QED
  BY <1>1, <1>2, <1>3

(* The commit.  An event of the batch is one the publisher inserts for, and *)
(* then it had no delivery (RowsAreNew), or one that has its delivery       *)
(* already (BatchOK).                                                       *)
LEMMA CommitBatchInv ==
    ASSUME Inv, NEW p \in Publishers, CommitBatch(p)
    PROVE  Inv'
<1> USE DEF Inv, CommitBatch, Marked
<1>1. TypeOK'
  BY DEF TypeOK, Finish
<1>2. ASSUME NEW e \in Events
      PROVE  /\ deliveries'[e] \in Nat
             /\ deliveries'[e] >= deliveries[e]
             /\ event'[e] = "absent" => event[e] = "absent"
             /\ deliveries'[e] <= 1
             /\ event'[e] = "published" <=> deliveries'[e] > 0
  <2> USE DEF TypeOK
  <2>1. CASE e \in inserts[p]
    <3>1. deliveries[e] = 0 /\ deliveries'[e] = 1
      BY <2>1 DEF RowsAreNew
    <3>2. e \in batch[p] /\ event'[e] = "published"
      BY <2>1
    <3> QED
      BY <3>1, <3>2
  <2>2. CASE e \in batch[p] /\ e \notin inserts[p]
    <3>1. deliveries[e] > 0 /\ deliveries'[e] = deliveries[e]
      BY <2>2 DEF BatchOK
    <3>2. event'[e] = "published" /\ deliveries[e] <= 1
      BY <2>2 DEF OneDeliveryPerEvent
    <3> QED
      BY <3>1, <3>2
  <2>3. CASE e \notin batch[p]
    <3>1. e \notin inserts[p]
      BY <2>3
    <3>2. deliveries'[e] = deliveries[e] /\ event'[e] = event[e]
      BY <2>3, <3>1
    <3> QED
      BY <3>2 DEF OneDeliveryPerEvent, PublishedIffMaterialised
  <2> QED
    BY <2>1, <2>2, <2>3
<1>3. BatchOK'
  <2> SUFFICES ASSUME NEW q \in Publishers, NEW e \in Events
               PROVE  /\ e \in batch'[q] => event'[e] # "absent"
                      /\ e \in checked'[q] \ inserts'[q] => deliveries'[e] > 0
    BY DEF BatchOK
  <2>1. CASE q = p
    BY <2>1 DEF Finish, TypeOK
  <2>2. CASE q # p
    <3>1. batch'[q] = batch[q] /\ checked'[q] = checked[q]
          /\ inserts'[q] = inserts[q]
      BY <2>2 DEF Finish, TypeOK
    <3>2. /\ e \in batch[q] => event[e] # "absent"
          /\ e \in checked[q] \ inserts[q] => deliveries[e] > 0
      BY DEF BatchOK
    <3>3. deliveries[e] \in Nat
      BY DEF TypeOK
    <3> QED
      BY <1>2, <3>1, <3>2, <3>3
  <2> QED
    BY <2>1, <2>2
<1>4. OneDeliveryPerEvent'
  BY <1>2 DEF OneDeliveryPerEvent
<1>5. PublishedIffMaterialised'
  BY <1>2 DEF PublishedIffMaterialised
<1> QED
  BY <1>1, <1>3, <1>4, <1>5

-----------------------------------------------------------------------------
(* Theorems *)

(* The inductive invariant: what a publisher knows of the events of its     *)
(* batch stays true while others commit, conflict and crash.                *)
THEOREM Invariance == Spec => []Inv
<1>1. Init => Inv
  BY InitInv
<1>2. Inv /\ [Next]_vars => Inv'
  <2> SUFFICES ASSUME Inv, [Next]_vars
               PROVE  Inv'
    OBVIOUS
  <2>1. ASSUME NEW e \in Events, Record(e)
        PROVE  Inv'
    BY <2>1, RecordInv
  <2>2. ASSUME NEW p \in Publishers, SelectPending(p)
        PROVE  Inv'
    BY <2>2, SelectPendingInv
  <2>3. ASSUME NEW p \in Publishers, NEW e \in Events, CheckNext(p, e)
        PROVE  Inv'
    BY <2>3, CheckNextInv
  <2>4. ASSUME NEW p \in Publishers, CommitBatch(p)
        PROVE  Inv'
    BY <2>4, CommitBatchInv
  <2>5. ASSUME NEW p \in Publishers, BatchFails(p) \/ Crash(p)
        PROVE  Inv'
    BY <2>5, GiveUpInv DEF BatchFails, Crash
  <2>6. CASE UNCHANGED vars
    BY <2>6 DEF vars, Inv, TypeOK, BatchOK, OneDeliveryPerEvent,
                PublishedIffMaterialised
  <2> QED
    BY <2>1, <2>2, <2>3, <2>4, <2>5, <2>6 DEF Next, Publish
<1> QED
  BY <1>1, <1>2, PTL DEF Spec

(* The variables stay in their types. *)
THEOREM TypeCorrect == Spec => []TypeOK
<1>1. Inv => TypeOK
  BY DEF Inv
<1> QED
  BY <1>1, Invariance, PTL

(* Whatever publishers race, crash or fail, no event has two deliveries:    *)
(* publish_pending never materialises a decision twice.                     *)
THEOREM OneDelivery == Spec => []OneDeliveryPerEvent
<1>1. Inv => OneDeliveryPerEvent
  BY DEF Inv
<1> QED
  BY <1>1, Invariance, PTL

(* publish_pending marks an event as published exactly when its delivery    *)
(* row exists, also when it commits a batch it has selected long before.    *)
THEOREM PublishedMeansMaterialised == Spec => []PublishedIffMaterialised
<1>1. Inv => PublishedIffMaterialised
  BY DEF Inv
<1> QED
  BY <1>1, Invariance, PTL
=============================================================================

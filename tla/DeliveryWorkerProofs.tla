------------------------ MODULE DeliveryWorkerProofs ------------------------
(***************************************************************************)
(* Proofs about DeliveryWorker: what a row says of its delivery is true    *)
(* whatever workers crash or overrun their leases, and workers that finish *)
(* within their leases do not disturb each other.                          *)
(***************************************************************************)
EXTENDS DeliveryWorker, FiniteSetTheorems, TLAPS

-----------------------------------------------------------------------------
(* The inductive invariant of Spec *)

(* What a worker knows: a row to work on, an accepted email before it marks *)
(* the row, and attempts that the row has reached since.                    *)
WorkerOK(w) ==
    /\ pc[w] # "idle" => job[w] \in Deliveries
    /\ pc[w] = "mark" => sent[job[w]] > 0
    /\ pc[w] = "write" => seen[w] <= delivery[job[w]].attempts

(* What a row says: only a row under lease has an owner, which is at work   *)
(* on it unless it has crashed; the outcome is what happened.               *)
RowOK(d) ==
    /\ delivery[d].status # "processing" => delivery[d].owner = NoOwner
    /\ \A w \in Workers : delivery[d].owner = w => Busy(w) /\ job[w] = d
    /\ delivery[d].status = "delivered" => sent[d] > 0
    /\ delivery[d].status = "dead_letter" => delivery[d].attempts >= MaxAttempts

Inv ==
    /\ TypeOK
    /\ \A w \in Workers : WorkerOK(w)
    /\ \A d \in Deliveries : RowOK(d)

USE DeliveriesAssumption, AttemptsAssumption, TimeAssumption, OwnerAssumption

(* The counters are numbers *)
LEMMA Counters ==
    ASSUME TypeOK
    PROVE  /\ \A d \in Deliveries : /\ delivery[d] \in Row
                                    /\ delivery[d].attempts \in Nat
                                    /\ delivery[d].attempts <= MaxAttempts + 1
                                    /\ sent[d] \in 0 .. 2
           /\ \A w \in Workers : seen[w] \in Nat
<1>1. ASSUME NEW d \in Deliveries
      PROVE  /\ delivery[d] \in Row
             /\ delivery[d].attempts \in 0 .. (MaxAttempts + 1)
             /\ sent[d] \in 0 .. 2
  BY DEF TypeOK, Row
<1>2. ASSUME NEW w \in Workers PROVE seen[w] \in 0 .. (MaxAttempts + 1)
  BY DEF TypeOK
<1> QED
  BY <1>1, <1>2

LEMMA InitInv == Init => Inv
BY DEF Init, Inv, TypeOK, WorkerOK, RowOK, Row, Statuses, PCs, Absent, NoJob

(* A committed batch leaves every row alone but the absent ones it inserts *)
LEMMA MaterialisedRow ==
    ASSUME TypeOK, NEW S \in SUBSET Deliveries, Materialise(S),
           NEW d \in Deliveries
    PROVE  /\ delivery' \in [Deliveries -> Row]
           /\ \/ delivery'[d] = delivery[d]
              \/ /\ delivery[d].status = "absent"
                 /\ delivery'[d] = [delivery[d] EXCEPT !.status = "pending"]
<1>1. ASSUME NEW e \in Deliveries
      PROVE  [delivery[e] EXCEPT !.status = "pending"] \in Row
  <2>1. delivery[e] \in Row
    BY DEF TypeOK
  <2> QED
    BY <2>1 DEF Row, Statuses
<1> QED
  BY <1>1 DEF TypeOK, Materialise

LEMMA MaterialiseInv ==
    ASSUME Inv, NEW S \in SUBSET Deliveries, Materialise(S)
    PROVE  Inv'
<1>1. UNCHANGED <<sent, pc, job, age, seen, crashes>>
  BY DEF Materialise, local
<1>2. TypeOK'
  BY <1>1, MaterialisedRow DEF Inv, TypeOK, Materialise, Row, Statuses
<1>3. ASSUME NEW e \in Deliveries
      PROVE  /\ delivery'[e].attempts = delivery[e].attempts
             /\ delivery'[e].owner = delivery[e].owner
             /\ \/ delivery'[e].status = delivery[e].status
                \/ delivery[e].status = "absent" /\ delivery'[e].status = "pending"
  <2>1. delivery[e] \in Row
    BY Counters DEF Inv
  <2>2. \/ delivery'[e] = delivery[e]
        \/ /\ delivery[e].status = "absent"
           /\ delivery'[e] = [delivery[e] EXCEPT !.status = "pending"]
    BY MaterialisedRow DEF Inv
  <2> QED
    BY <2>1, <2>2 DEF Row
<1>4. ASSUME NEW w \in Workers PROVE WorkerOK(w)'
  <2>1. WorkerOK(w)
    BY DEF Inv
  <2>2. pc[w] = "write" => seen[w] <= delivery'[job[w]].attempts
    BY <2>1, <1>3 DEF WorkerOK
  <2> QED
    BY <2>1, <2>2, <1>1 DEF WorkerOK
<1>5. ASSUME NEW e \in Deliveries PROVE RowOK(e)'
  <2>1. RowOK(e)
    BY DEF Inv
  <2>2. \A w \in Workers : delivery'[e].owner = w => Busy(w)' /\ job'[w] = e
    BY <2>1, <1>1, <1>3 DEF RowOK, Busy
  <2>3. /\ delivery'[e].status = "delivered" => sent[e] > 0
        /\ delivery'[e].status = "dead_letter" => delivery'[e].attempts >= MaxAttempts
        /\ delivery'[e].status # "processing" => delivery'[e].owner = NoOwner
    BY <2>1, <1>3 DEF RowOK
  <2> QED
    BY <2>2, <2>3, <1>1 DEF RowOK
<1> QED
  BY <1>2, <1>4, <1>5 DEF Inv

LEMMA SelectInv ==
    ASSUME Inv, NEW w \in Workers, NEW d \in Deliveries, Select(w, d)
    PROVE  Inv'
<1> USE DEF Inv, Select, Goto
<1>1. TypeOK'
  BY DEF TypeOK, PCs
<1>2. ASSUME NEW v \in Workers PROVE WorkerOK(v)'
  BY DEF TypeOK, WorkerOK, PCs
<1>3. ASSUME NEW e \in Deliveries PROVE RowOK(e)'
  BY DEF TypeOK, RowOK, Busy, PCs
<1> QED
  BY <1>1, <1>2, <1>3

(* The row that a claim writes *)
LEMMA LeasedRow ==
    ASSUME TypeOK, NEW w \in Workers, job[w] \in Deliveries
    PROVE  /\ Leased(w) \in Row
           /\ Leased(w).status = "processing" /\ Leased(w).owner = w
           /\ Leased(w).lease = Lease - age[w]
           /\ Leased(w).attempts >= delivery[job[w]].attempts
<1>1. delivery[job[w]].attempts \in 0 .. (MaxAttempts + 1)
  BY DEF TypeOK, Row
<1>2. Lease - age[w] \in (-MaxStall) .. Lease
  BY DEF TypeOK
<1> QED
  BY <1>1, <1>2 DEF Leased, Row, Statuses

LEMMA ClaimInv ==
    ASSUME Inv, NEW w \in Workers, Claim(w)
    PROVE  Inv'
<1> USE DEF Inv, Claim, Goto
<1>1. job[w] \in Deliveries
  BY DEF WorkerOK
<1>2. CASE ~Eligible(job[w], age[w])
  <2>1. delivery' = delivery /\ sent' = sent /\ crashes' = crashes /\ Rest(w)
    BY <1>2
  <2>2. TypeOK'
    BY <2>1 DEF TypeOK, Rest, PCs, Goto
  <2>3. ASSUME NEW v \in Workers PROVE WorkerOK(v)'
    BY <2>1 DEF TypeOK, WorkerOK, Rest, Goto
  <2>4. ASSUME NEW e \in Deliveries PROVE RowOK(e)'
    BY <2>1 DEF TypeOK, RowOK, Busy, Rest, Goto
  <2> QED
    BY <2>2, <2>3, <2>4
<1>3. CASE Eligible(job[w], age[w])
  <2>1. /\ delivery' = [delivery EXCEPT ![job[w]] = Leased(w)]
        /\ pc' = [pc EXCEPT ![w] = "send"]
        /\ age' = [age EXCEPT ![w] = 0]
        /\ UNCHANGED <<job, seen, sent, crashes>>
    BY <1>3
  <2>2. TypeOK'
    BY <1>1, <2>1, LeasedRow DEF TypeOK, PCs
  <2>3. ASSUME NEW v \in Workers PROVE WorkerOK(v)'
    <3>1. pc'[v] # "idle" => pc[v] # "idle" /\ job'[v] \in Deliveries
      BY <1>1, <2>1 DEF TypeOK, WorkerOK
    <3>2. pc'[v] = "mark" => sent'[job'[v]] > 0
      BY <2>1 DEF TypeOK, WorkerOK
    <3>3. ASSUME pc'[v] = "write" PROVE seen'[v] <= delivery'[job'[v]].attempts
      <4>1. /\ pc[v] = "write" /\ job[v] \in Deliveries
            /\ seen[v] <= delivery[job[v]].attempts
        BY <2>1, <3>3 DEF TypeOK, WorkerOK
      <4>2. CASE job[v] = job[w]
        <5>1. delivery'[job[v]].attempts = Leased(w).attempts
          BY <1>1, <2>1, <4>2 DEF TypeOK
        <5>2. Leased(w).attempts \in Nat
          BY <1>1, LeasedRow DEF Row
        <5>3. Leased(w).attempts >= delivery[job[v]].attempts
          BY <1>1, <4>2, LeasedRow
        <5>4. seen[v] \in Nat /\ delivery[job[v]].attempts \in Nat
          BY <4>1, Counters
        <5>5. seen[v] <= Leased(w).attempts
          BY <4>1, <5>2, <5>3, <5>4
        <5> QED
          BY <2>1, <5>1, <5>5
      <4>3. CASE job[v] # job[w]
        BY <1>1, <2>1, <4>1, <4>3 DEF TypeOK
      <4> QED
        BY <4>2, <4>3
    <3> QED
      BY <3>1, <3>2, <3>3 DEF WorkerOK
  <2>4. ASSUME NEW e \in Deliveries PROVE RowOK(e)'
    <3>1. CASE e = job[w]
      BY <1>1, <2>1, <3>1, LeasedRow DEF TypeOK, RowOK, Busy
    <3>2. CASE e # job[w]
      BY <1>1, <2>1, <3>2 DEF TypeOK, RowOK, Busy
    <3> QED
      BY <3>1, <3>2
  <2> QED
    BY <2>2, <2>3, <2>4
<1> QED
  BY <1>2, <1>3

LEMMA SendInv ==
    ASSUME Inv, NEW w \in Workers, SendSucceeds(w) \/ SendFails(w)
    PROVE  Inv'
<1> USE DEF Inv, Goto
<1>1. job[w] \in Deliveries /\ pc[w] = "send"
  BY DEF WorkerOK, SendSucceeds, SendFails
<1>2. /\ UNCHANGED <<delivery, job, age, seen, crashes>>
      /\ \/ pc' = [pc EXCEPT ![w] = "mark"] /\ Accepted(w)
         \/ pc' = [pc EXCEPT ![w] = "fail"] /\ (sent' = sent \/ Accepted(w))
  BY DEF SendSucceeds, SendFails
<1>3. /\ sent' \in [Deliveries -> 0 .. 2]
      /\ \A d \in Deliveries : sent[d] > 0 => sent'[d] > 0
      /\ Accepted(w) => sent'[job[w]] > 0
  <2>1. CASE Accepted(w)
    <3> DEFINE count == IF sent[job[w]] = 2 THEN 2 ELSE sent[job[w]] + 1
    <3>1. count \in 0 .. 2 /\ count > 0
      <4>1. sent[job[w]] \in 0 .. 2
        BY <1>1 DEF TypeOK
      <4> QED
        BY <4>1
    <3>2. sent' = [sent EXCEPT ![job[w]] = count]
      BY <2>1 DEF Accepted
    <3> HIDE DEF count
    <3>3. /\ sent' \in [Deliveries -> 0 .. 2] /\ sent'[job[w]] = count
          /\ \A d \in Deliveries \ {job[w]} : sent'[d] = sent[d]
      BY <1>1, <3>1, <3>2 DEF TypeOK
    <3> QED
      BY <3>1, <3>3
  <2>2. CASE sent' = sent /\ ~Accepted(w)
    BY <2>2 DEF TypeOK
  <2> QED
    BY <1>2, <2>1, <2>2
<1>4. TypeOK'
  BY <1>2, <1>3 DEF TypeOK, PCs
<1>5. ASSUME NEW v \in Workers PROVE WorkerOK(v)'
  <2>1. pc[v] # "idle" => job[v] \in Deliveries
    BY DEF WorkerOK
  <2>2. v # w => pc'[v] = pc[v]
    BY <1>2 DEF TypeOK
  <2>3. v = w => pc'[v] = "fail" \/ (pc'[v] = "mark" /\ Accepted(w))
    BY <1>2 DEF TypeOK
  <2> QED
    BY <1>1, <1>2, <1>3, <2>1, <2>2, <2>3 DEF WorkerOK
<1>6. ASSUME NEW e \in Deliveries PROVE RowOK(e)'
  BY <1>1, <1>2, <1>3 DEF TypeOK, RowOK, Busy
<1> QED
  BY <1>4, <1>5, <1>6

(* Mark and FailWrite give a row back with an outcome that is true of it *)
LEMMA ReleaseInv ==
    ASSUME Inv, NEW w \in Workers, Busy(w), job[w] \in Deliveries,
           NEW status \in {"retry", "delivered", "dead_letter"},
           status = "delivered" => sent[job[w]] > 0,
           status = "dead_letter" => delivery[job[w]].attempts >= MaxAttempts,
           delivery' = [delivery EXCEPT ![job[w]] = Released(@, status)],
           Rest(w), UNCHANGED <<sent, crashes>>
    PROVE  Inv'
<1> USE DEF Inv, Rest, Goto
<1> DEFINE d == job[w]
<1>0. delivery[d] \in Row
  BY DEF TypeOK
<1>1. /\ delivery'[d] = Released(delivery[d], status)
      /\ Released(delivery[d], status).status = status
      /\ Released(delivery[d], status).owner = NoOwner
      /\ Released(delivery[d], status).attempts = delivery[d].attempts
      /\ Released(delivery[d], status) \in Row
  <2>1. delivery'[d] = Released(delivery[d], status)
    BY DEF TypeOK
  <2>2. 0 \in (-MaxStall) .. Lease
    OBVIOUS
  <2> HIDE DEF d
  <2> QED
    BY <1>0, <2>1, <2>2 DEF Released, Row, Statuses
<1>2. TypeOK'
  BY <1>1 DEF TypeOK, PCs
<1>3. ASSUME NEW v \in Workers PROVE WorkerOK(v)'
  <2>1. \A e \in Deliveries : delivery'[e].attempts = delivery[e].attempts
    BY <1>1 DEF TypeOK
  <2> QED
    BY <2>1 DEF TypeOK, WorkerOK
<1>4. ASSUME NEW e \in Deliveries PROVE RowOK(e)'
  <2>1. CASE e = d
    BY <1>1, <2>1 DEF TypeOK, RowOK
  <2>2. CASE e # d
    BY <2>2 DEF TypeOK, RowOK, Busy
  <2> QED
    BY <2>1, <2>2
<1> HIDE DEF d
<1> QED
  BY <1>2, <1>3, <1>4

(* A worker that has lost its row goes back without a trace *)
LEMMA LeaveInv ==
    ASSUME Inv, NEW w \in Workers, job[w] \in Deliveries, ~HoldsLease(w),
           Rest(w), UNCHANGED <<delivery, sent, crashes>>
    PROVE  Inv'
<1> USE DEF Inv, Rest, Goto
<1>1. TypeOK'
  BY DEF TypeOK, PCs
<1>2. ASSUME NEW v \in Workers PROVE WorkerOK(v)'
  BY DEF TypeOK, WorkerOK
<1>3. ASSUME NEW e \in Deliveries PROVE RowOK(e)'
  <2>1. delivery[e].owner # w
    BY DEF RowOK, HoldsLease
  <2> QED
    BY <2>1 DEF TypeOK, RowOK, Busy
<1> QED
  BY <1>1, <1>2, <1>3

LEMMA MarkInv ==
    ASSUME Inv, NEW w \in Workers, Mark(w)
    PROVE  Inv'
<1>1. job[w] \in Deliveries /\ Busy(w) /\ sent[job[w]] > 0
  BY DEF Inv, WorkerOK, Mark, Busy
<1>2. CASE HoldsLease(w)
  BY <1>1, <1>2, ReleaseInv DEF Mark
<1>3. CASE ~HoldsLease(w)
  BY <1>1, <1>3, LeaveInv DEF Mark
<1> QED
  BY <1>2, <1>3

LEMMA FailReadInv ==
    ASSUME Inv, NEW w \in Workers, FailRead(w)
    PROVE  Inv'
<1> USE DEF Inv, Goto
<1>1. job[w] \in Deliveries
  BY DEF WorkerOK, FailRead
<1>2. CASE HoldsLease(w)
  <2>1. /\ seen' = [seen EXCEPT ![w] = delivery[job[w]].attempts]
        /\ pc' = [pc EXCEPT ![w] = "write"]
        /\ UNCHANGED <<delivery, sent, crashes, job, age>>
    BY <1>2 DEF FailRead
  <2>2. delivery[job[w]].attempts \in 0 .. (MaxAttempts + 1)
    BY <1>1 DEF TypeOK, Row
  <2>3. TypeOK'
    BY <2>1, <2>2 DEF TypeOK, PCs
  <2>4. ASSUME NEW v \in Workers PROVE WorkerOK(v)'
    BY <1>1, <2>1, <2>2 DEF TypeOK, WorkerOK
  <2>5. ASSUME NEW e \in Deliveries PROVE RowOK(e)'
    BY <1>1, <2>1 DEF TypeOK, RowOK, Busy
  <2> QED
    BY <2>3, <2>4, <2>5
<1>3. CASE ~HoldsLease(w)
  BY <1>1, <1>3, LeaveInv DEF FailRead
<1> QED
  BY <1>2, <1>3

LEMMA FailWriteInv ==
    ASSUME Inv, NEW w \in Workers, FailWrite(w)
    PROVE  Inv'
<1> DEFINE status == IF Exhausted(seen[w]) THEN "dead_letter" ELSE "retry"
<1>1. job[w] \in Deliveries /\ Busy(w) /\ seen[w] <= delivery[job[w]].attempts
  BY DEF Inv, WorkerOK, FailWrite, Busy
<1>2. status = "dead_letter" => delivery[job[w]].attempts >= MaxAttempts
  <2>1. seen[w] \in Nat /\ delivery[job[w]].attempts \in Nat
    BY <1>1, Counters DEF Inv
  <2> QED
    BY <1>1, <2>1 DEF Exhausted
<1>3. status \in {"retry", "delivered", "dead_letter"} /\ status # "delivered"
  OBVIOUS
<1>4. /\ delivery' = [delivery EXCEPT ![job[w]] = Released(@, status)]
      /\ Rest(w) /\ UNCHANGED <<sent, crashes>>
  BY DEF FailWrite
<1> HIDE DEF status
<1> QED
  BY <1>1, <1>2, <1>3, <1>4, ReleaseInv

(* What a crash leaves of a row *)
LEMMA CrashedRow ==
    ASSUME Inv, NEW w \in Workers, Crash(w), NEW d \in Deliveries
    PROVE  /\ delivery'[d] \in Row
           /\ delivery'[d].status = delivery[d].status
           /\ delivery'[d].attempts = delivery[d].attempts
           /\ delivery'[d].lease = delivery[d].lease
           /\ delivery'[d].owner # w
           /\ delivery[d].owner # w => delivery'[d].owner = delivery[d].owner
           /\ delivery[d].owner = w => delivery'[d].owner = Gone
<1>1. delivery[d] \in Row
  BY DEF Inv, TypeOK
<1>2. CASE delivery[d].owner = w
  <2>1. delivery'[d] = [delivery[d] EXCEPT !.owner = Gone]
    BY <1>2 DEF Crash
  <2> QED
    BY <1>1, <1>2, <2>1 DEF Row
<1>3. CASE delivery[d].owner # w
  BY <1>1, <1>3 DEF Crash
<1> QED
  BY <1>2, <1>3

LEMMA CrashInv ==
    ASSUME Inv, NEW w \in Workers, Crash(w)
    PROVE  Inv'
<1> USE DEF Rest, Goto
<1>1. TypeOK'
  <2>1. delivery' \in [Deliveries -> Row]
    <3>1. DOMAIN delivery' = Deliveries /\ delivery' = [d \in Deliveries |-> delivery'[d]]
      BY DEF Crash
    <3> QED
      BY <3>1, CrashedRow
  <2>2. crashes' \in 0 .. MaxCrashes
    BY DEF Inv, TypeOK, Crash
  <2> QED
    BY <2>1, <2>2 DEF Inv, TypeOK, Crash, PCs
<1>2. ASSUME NEW v \in Workers PROVE WorkerOK(v)'
  BY CrashedRow DEF Inv, TypeOK, WorkerOK, Crash
<1>3. ASSUME NEW e \in Deliveries PROVE RowOK(e)'
  <2>1. RowOK(e)
    BY DEF Inv
  <2>2. ASSUME NEW v \in Workers, delivery'[e].owner = v
        PROVE  Busy(v)' /\ job'[v] = e
    <3>1. v # w /\ delivery[e].owner = v
      BY <2>2, CrashedRow
    <3> QED
      BY <2>1, <3>1 DEF Inv, TypeOK, RowOK, Busy, Crash
  <2>3. sent' = sent
    BY DEF Crash
  <2>4. delivery'[e].status # "processing" => delivery'[e].owner = NoOwner
    BY <2>1, CrashedRow DEF RowOK
  <2> QED
    BY <2>1, <2>2, <2>3, <2>4, CrashedRow DEF RowOK
<1> QED
  BY <1>1, <1>2, <1>3 DEF Inv

(* What the clock changes of a row *)
LEMMA TickedRow ==
    ASSUME TypeOK, Tick, NEW d \in Deliveries
    PROVE  /\ delivery'[d] \in Row
           /\ delivery'[d].status = delivery[d].status
           /\ delivery'[d].attempts = delivery[d].attempts
           /\ delivery'[d].owner = delivery[d].owner
           /\ delivery'[d].lease >= delivery[d].lease - 1
           /\ delivery[d].status # "processing" => delivery'[d] = delivery[d]
<1>1. delivery[d] \in Row
  BY DEF TypeOK
<1>2. CASE delivery[d].status = "processing" /\ delivery[d].lease > -MaxStall
  <2>1. delivery'[d] = [delivery[d] EXCEPT !.lease = delivery[d].lease - 1]
    BY <1>2 DEF Tick
  <2> QED
    BY <1>1, <1>2, <2>1 DEF Row
<1>3. CASE ~(delivery[d].status = "processing" /\ delivery[d].lease > -MaxStall)
  <2>1. delivery'[d] = delivery[d]
    BY <1>3 DEF Tick
  <2>2. delivery[d].lease \in Int
    BY <1>1 DEF Row
  <2> QED
    BY <1>1, <2>1, <2>2
<1> QED
  BY <1>2, <1>3

LEMMA TickInv ==
    ASSUME Inv, Tick
    PROVE  Inv'
<1>1. TypeOK'
  <2>1. delivery' \in [Deliveries -> Row]
    <3>1. delivery' = [d \in Deliveries |-> delivery'[d]]
      BY DEF Tick
    <3> QED
      BY <3>1, TickedRow DEF Inv
  <2>2. age' \in [Workers -> 0 .. MaxStall]
    BY DEF Inv, TypeOK, Tick
  <2> QED
    BY <2>1, <2>2 DEF Inv, TypeOK, Tick
<1>2. ASSUME NEW v \in Workers PROVE WorkerOK(v)'
  BY TickedRow DEF Inv, TypeOK, WorkerOK, Tick
<1>3. ASSUME NEW e \in Deliveries PROVE RowOK(e)'
  BY TickedRow DEF Inv, TypeOK, RowOK, Busy, Tick
<1> QED
  BY <1>1, <1>2, <1>3 DEF Inv

LEMMA ActInv == Inv /\ Act => Inv'
<1> SUFFICES ASSUME Inv, Act PROVE Inv'
  OBVIOUS
<1>1. ASSUME NEW S \in SUBSET Deliveries, Materialise(S) PROVE Inv'
  BY <1>1, MaterialiseInv
<1>2. ASSUME NEW w \in Workers, NEW d \in Deliveries, Select(w, d) PROVE Inv'
  BY <1>2, SelectInv
<1>3. ASSUME NEW w \in Workers, Claim(w) PROVE Inv'
  BY <1>3, ClaimInv
<1>4. ASSUME NEW w \in Workers, SendSucceeds(w) \/ SendFails(w) PROVE Inv'
  BY <1>4, SendInv
<1>5. ASSUME NEW w \in Workers, Mark(w) PROVE Inv'
  BY <1>5, MarkInv
<1>6. ASSUME NEW w \in Workers, FailRead(w) PROVE Inv'
  BY <1>6, FailReadInv
<1>7. ASSUME NEW w \in Workers, FailWrite(w) PROVE Inv'
  BY <1>7, FailWriteInv
<1>8. ASSUME NEW w \in Workers, Crash(w) PROVE Inv'
  BY <1>8, CrashInv
<1> QED
  BY <1>1, <1>2, <1>3, <1>4, <1>5, <1>6, <1>7, <1>8 DEF Act, Work

LEMMA StutterInv == Inv /\ UNCHANGED vars => Inv'
BY DEF vars, Inv, TypeOK, WorkerOK, RowOK, Busy

-----------------------------------------------------------------------------
(* Theorems about Spec: no assumption on time *)

(* The inductive invariant: what workers know and what rows say is true     *)
(* whatever crashes and lost leases come between the statements of          *)
(* _claim_next, _mark_delivered and _fail.                                  *)
THEOREM Invariance == Spec => []Inv
<1>1. Inv /\ [Next]_vars => Inv'
  BY ActInv, TickInv, StutterInv DEF Next
<1> QED
  BY <1>1, InitInv, PTL DEF Spec

(* The variables stay in their types. *)
THEOREM TypeCorrect == Spec => []TypeOK
<1>1. Inv => TypeOK
  BY DEF Inv
<1> QED
  BY <1>1, Invariance, PTL

(* A row is marked delivered by _mark_delivered only if its email was       *)
(* accepted.                                                                *)
THEOREM DeliveredMeansSent == Spec => []DeliveredWasSent
<1>1. Inv => DeliveredWasSent
  BY DEF Inv, RowOK, DeliveredWasSent
<1> QED
  BY <1>1, Invariance, PTL

(* _fail gives a row up only after its last attempt, also when it writes to *)
(* a row that another worker has claimed since it was read.                 *)
THEOREM GivenUpWhenExhausted == Spec => []DeadLetterIsExhausted
<1>1. Inv => DeadLetterIsExhausted
  BY DEF Inv, RowOK, DeadLetterIsExhausted
<1> QED
  BY <1>1, Invariance, PTL

(* Only _mark_delivered of the worker that holds the lease records a        *)
(* success.                                                                 *)
THEOREM HolderRecordsSuccess == Spec => SuccessByHolder
<1> DEFINE Success == \A d \in Deliveries :
        delivery[d].status # "delivered" /\ delivery'[d].status = "delivered"
          => \E w \in Workers : /\ delivery[d].status = "processing"
                                /\ delivery[d].owner = w
                                /\ pc[w] = "mark" /\ job[w] = d
<1>1. Inv /\ [Next]_vars => Success
  <2> SUFFICES ASSUME Inv, [Next]_vars, NEW d \in Deliveries,
                      delivery[d].status # "delivered",
                      delivery'[d].status = "delivered"
               PROVE  \E w \in Workers : /\ delivery[d].status = "processing"
                                         /\ delivery[d].owner = w
                                         /\ pc[w] = "mark" /\ job[w] = d
    OBVIOUS
  <2> USE DEF Inv
  <2>1. ASSUME NEW w \in Workers, Mark(w)
        PROVE  HoldsLease(w) /\ pc[w] = "mark" /\ job[w] = d
    BY <2>1 DEF Mark, TypeOK
  <2>2. ASSUME NEW S \in SUBSET Deliveries, Materialise(S) PROVE FALSE
    BY <2>2 DEF Materialise, TypeOK, Row
  <2>3. ASSUME NEW w \in Workers, Claim(w) PROVE FALSE
    BY <2>3, LeasedRow DEF Claim, TypeOK, WorkerOK
  <2>4. ASSUME NEW w \in Workers, FailWrite(w) PROVE FALSE
    BY <2>4 DEF FailWrite, TypeOK, Released, Row
  <2>5. ASSUME NEW w \in Workers, Crash(w) PROVE FALSE
    BY <2>5, CrashedRow
  <2>6. ASSUME Tick PROVE FALSE
    BY <2>6, TickedRow
  <2>7. delivery' # delivery
    OBVIOUS
  <2> QED
    BY <2>1, <2>2, <2>3, <2>4, <2>5, <2>6, <2>7
    DEF Next, Act, Work, Select, SendSucceeds, SendFails, FailRead, vars,
        HoldsLease
<1>2. SuccessByHolder <=> [][Success]_vars
  BY DEF SuccessByHolder
<1> HIDE DEF Success
<1> QED
  BY <1>1, <1>2, Invariance, PTL DEF Spec

-----------------------------------------------------------------------------
(* Theorems about TimelySpec: no lease runs out while its holder works      *)

(* A worker that is at work holds the lease of its row, and one that is     *)
(* about to claim will not get a lease that has run out already.            *)
TimelyOK(w) ==
    /\ pc[w] = "claim" => age[w] < Lease
    /\ Busy(w) => HoldsLease(w) /\ delivery[job[w]].lease >= 1

TimelyInv == Inv /\ \A w \in Workers : TimelyOK(w)

(* What is known of a busy worker's row, whoever else acts *)
LEMMA BusyRow ==
    ASSUME TimelyInv, NEW v \in Workers, Busy(v)
    PROVE  /\ job[v] \in Deliveries
           /\ delivery[job[v]].status = "processing"
           /\ delivery[job[v]].owner = v
           /\ delivery[job[v]].lease \in Int
           /\ delivery[job[v]].lease >= 1
           /\ \A w \in Workers \ {v} : Busy(w) => job[w] # job[v]
<1>1. ASSUME NEW w \in Workers, Busy(w)
      PROVE  /\ job[w] \in Deliveries /\ HoldsLease(w)
             /\ delivery[job[w]].lease >= 1
  BY <1>1 DEF TimelyInv, TimelyOK, Inv, WorkerOK, Busy
<1>2. delivery[job[v]].lease \in Int
  <2>1. delivery[job[v]] \in Row
    BY <1>1, Counters DEF TimelyInv, Inv
  <2> QED
    BY <2>1 DEF Row
<1> QED
  BY <1>1, <1>2 DEF HoldsLease

LEMMA BusyNotEligible ==
    ASSUME TimelyInv, NEW v \in Workers, Busy(v), NEW elapsed \in Nat
    PROVE  ~Eligible(job[v], elapsed)
BY BusyRow DEF Eligible

LEMMA TimelyClaim ==
    ASSUME TimelyInv, NEW w \in Workers, Claim(w), NEW v \in Workers
    PROVE  TimelyOK(v)'
<1> USE DEF Goto, Rest
<1>1. job[w] \in Deliveries /\ age[w] \in Nat /\ age[w] < Lease /\ pc[w] = "claim"
  BY DEF TimelyInv, TimelyOK, Inv, WorkerOK, TypeOK, Claim
<1>2. CASE ~Eligible(job[w], age[w])
  BY <1>2 DEF TimelyInv, TimelyOK, Inv, TypeOK, Busy, HoldsLease, Claim
<1>3. CASE Eligible(job[w], age[w])
  <2>1. /\ delivery' = [delivery EXCEPT ![job[w]] = Leased(w)]
        /\ pc' = [pc EXCEPT ![w] = "send"]
        /\ age' = [age EXCEPT ![w] = 0]
        /\ job' = job
    BY <1>3 DEF Claim
  <2>2. CASE v = w
    <3>1. /\ delivery'[job[w]].status = "processing"
          /\ delivery'[job[w]].owner = w
          /\ delivery'[job[w]].lease = Lease - age[w]
      BY <1>1, <2>1, LeasedRow DEF TimelyInv, Inv, TypeOK
    <3> QED
      BY <1>1, <2>1, <2>2, <3>1 DEF TimelyInv, Inv, TypeOK, TimelyOK, HoldsLease
  <2>3. CASE v # w
    <3>1. pc'[v] = pc[v] /\ age'[v] = age[v] /\ job'[v] = job[v]
      BY <2>1, <2>3 DEF TimelyInv, Inv, TypeOK
    <3>2. Busy(v) => delivery'[job[v]] = delivery[job[v]]
      <4>1. Busy(v) => job[v] # job[w] /\ job[v] \in Deliveries
        BY <1>1, <1>3, BusyNotEligible, BusyRow
      <4> QED
        BY <1>1, <2>1, <4>1 DEF TimelyInv, Inv, TypeOK
    <3> QED
      BY <3>1, <3>2 DEF TimelyInv, TimelyOK, Busy, HoldsLease
  <2> QED
    BY <2>2, <2>3
<1> QED
  BY <1>2, <1>3

(* Mark and FailWrite change the worker's own row and no other *)
LEMMA TimelyRelease ==
    ASSUME TimelyInv, NEW w \in Workers, Mark(w) \/ FailWrite(w),
           NEW v \in Workers
    PROVE  TimelyOK(v)'
<1>1. Busy(w) /\ Rest(w)
  BY DEF Mark, FailWrite, Busy
<1>2. CASE v = w
  BY <1>1, <1>2 DEF TimelyInv, Inv, TypeOK, TimelyOK, Busy, Rest, Goto
<1>3. CASE v # w
  <2>1. pc'[v] = pc[v] /\ age'[v] = age[v] /\ job'[v] = job[v]
    BY <1>1, <1>3 DEF TimelyInv, Inv, TypeOK, Rest, Goto
  <2>2. \A e \in Deliveries \ {job[w]} : delivery'[e] = delivery[e]
    BY DEF TimelyInv, Inv, TypeOK, Mark, FailWrite
  <2>3. Busy(v) => job[v] \in Deliveries \ {job[w]}
    BY <1>1, <1>3, BusyRow
  <2> QED
    BY <2>1, <2>2, <2>3 DEF TimelyInv, TimelyOK, Busy, HoldsLease
<1> QED
  BY <1>2, <1>3

LEMMA TimelyCrash ==
    ASSUME TimelyInv, NEW w \in Workers, Crash(w), NEW v \in Workers
    PROVE  TimelyOK(v)'
<1>1. CASE v = w
  BY <1>1 DEF TimelyInv, Inv, TypeOK, TimelyOK, Busy, Crash, Rest, Goto
<1>2. CASE v # w
  <2>1. pc'[v] = pc[v] /\ age'[v] = age[v] /\ job'[v] = job[v]
    BY <1>2 DEF TimelyInv, Inv, TypeOK, Crash, Rest, Goto
  <2>2. Busy(v) => delivery'[job[v]] = delivery[job[v]]
    BY <1>2, BusyRow DEF Crash
  <2> QED
    BY <2>1, <2>2 DEF TimelyInv, TimelyOK, Busy, HoldsLease
<1> QED
  BY <1>1, <1>2

LEMMA TimelyTick ==
    ASSUME TimelyInv, InTime, Tick, NEW v \in Workers
    PROVE  TimelyOK(v)'
<1>1. pc' = pc /\ job' = job
  BY DEF Tick
<1>2. ASSUME pc[v] = "claim" PROVE age'[v] < Lease
  <2>1. age'[v] = age[v] + 1 /\ age[v] + 1 < Lease
    BY <1>2 DEF Tick, InTime
  <2> QED
    BY <2>1
<1>3. ASSUME Busy(v)
      PROVE  /\ delivery'[job[v]].status = "processing"
             /\ delivery'[job[v]].owner = v
             /\ delivery'[job[v]].lease >= 1
  <2>1. delivery[job[v]].lease \in Int /\ delivery[job[v]].lease > 1
    BY <1>3, BusyRow DEF InTime
  <2>2. /\ delivery'[job[v]] \in Row
        /\ delivery'[job[v]].status = "processing"
        /\ delivery'[job[v]].owner = v
        /\ delivery'[job[v]].lease >= delivery[job[v]].lease - 1
    BY <1>3, BusyRow, TickedRow DEF TimelyInv, Inv
  <2>3. delivery'[job[v]].lease \in Int
    BY <2>2 DEF Row
  <2> QED
    BY <2>1, <2>2, <2>3
<1> QED
  BY <1>1, <1>2, <1>3 DEF TimelyOK, Busy, HoldsLease

LEMMA TimelyStep == TimelyInv /\ [TimelyNext]_vars => TimelyInv'
<1> SUFFICES ASSUME TimelyInv, [TimelyNext]_vars PROVE TimelyInv'
  OBVIOUS
<1>1. Inv'
  BY ActInv, TickInv, StutterInv DEF TimelyInv, TimelyNext
<1>2. ASSUME NEW v \in Workers PROVE TimelyOK(v)'
  <2> USE DEF Goto, local
  <2>1. ASSUME NEW S \in SUBSET Deliveries, Materialise(S) PROVE TimelyOK(v)'
    <3>1. Busy(v) => delivery'[job[v]] = delivery[job[v]]
      BY <2>1, BusyRow DEF Materialise, TimelyInv, Inv, TypeOK
    <3> QED
      BY <2>1, <3>1 DEF Materialise, TimelyInv, TimelyOK, Busy, HoldsLease
  <2>2. ASSUME NEW w \in Workers, NEW d \in Deliveries, Select(w, d)
        PROVE  TimelyOK(v)'
    BY <2>2 DEF Select, TimelyInv, Inv, TypeOK, TimelyOK, Busy, HoldsLease
  <2>3. ASSUME NEW w \in Workers, SendSucceeds(w) \/ SendFails(w)
        PROVE  TimelyOK(v)'
    BY <2>3 DEF SendSucceeds, SendFails, TimelyInv, Inv, TypeOK, TimelyOK, Busy,
                HoldsLease
  <2>4. ASSUME NEW w \in Workers, FailRead(w) PROVE TimelyOK(v)'
    BY <2>4 DEF FailRead, Rest, TimelyInv, Inv, TypeOK, TimelyOK, Busy, HoldsLease
  <2>5. CASE UNCHANGED vars
    BY <2>5 DEF vars, TimelyInv, TimelyOK, Busy, HoldsLease
  <2> QED
    BY <2>1, <2>2, <2>3, <2>4, <2>5, TimelyClaim, TimelyRelease, TimelyCrash,
       TimelyTick
    DEF TimelyNext, Act, Work
<1> QED
  BY <1>1, <1>2 DEF TimelyInv

LEMMA TimelyInvariance == TimelySpec => []TimelyInv
<1>1. Init => TimelyInv
  BY InitInv DEF Init, TimelyInv, TimelyOK, Busy
<1> QED
  BY <1>1, TimelyStep, PTL DEF TimelySpec

(* While every worker keeps within its lease, _claim_next gives a row to    *)
(* one worker only.                                                         *)
THEOREM NeverTwoOnARow == TimelySpec => []OneWorkerPerRow
<1>1. TimelyInv => OneWorkerPerRow
  BY BusyRow DEF OneWorkerPerRow
<1> QED
  BY <1>1, TimelyInvariance, PTL

(* ... and no statement of a worker touches a row that is delivered or      *)
(* given up.                                                                *)
THEOREM SettledForGood == TimelySpec => SettledIsFinal
<1> DEFINE Final == \A d \in Deliveries :
        delivery[d].status \in Settled => delivery'[d] = delivery[d]
<1>1. TimelyInv /\ [TimelyNext]_vars => Final
  <2> SUFFICES ASSUME TimelyInv, [TimelyNext]_vars, NEW d \in Deliveries,
                      delivery[d].status \in Settled
               PROVE  delivery'[d] = delivery[d]
    OBVIOUS
  <2>1. TypeOK /\ delivery[d].status \notin {"absent", "pending", "retry", "processing"}
    BY DEF TimelyInv, Inv, Settled
  <2>2. ASSUME NEW S \in SUBSET Deliveries, Materialise(S) PROVE delivery'[d] = delivery[d]
    BY <2>1, <2>2 DEF Materialise, TypeOK
  <2>3. ASSUME NEW w \in Workers, Claim(w) PROVE delivery'[d] = delivery[d]
    BY <2>1, <2>3 DEF Claim, Eligible, TypeOK
  <2>4. ASSUME NEW w \in Workers, Mark(w) \/ FailWrite(w)
        PROVE  delivery'[d] = delivery[d]
    <3>1. job[w] \in Deliveries \ {d}
      BY <2>1, <2>4, BusyRow DEF Mark, FailWrite, Busy
    <3> QED
      BY <2>1, <2>4, <3>1 DEF Mark, FailWrite, TypeOK
  <2>5. ASSUME NEW w \in Workers, Crash(w) PROVE delivery'[d] = delivery[d]
    <3>1. delivery[d].owner # w
      BY <2>1 DEF TimelyInv, Inv, RowOK
    <3> QED
      BY <2>5, <3>1 DEF Crash
  <2>6. ASSUME Tick PROVE delivery'[d] = delivery[d]
    BY <2>1, <2>6, TickedRow
  <2> QED
    BY <2>2, <2>3, <2>4, <2>5, <2>6
    DEF TimelyNext, Act, Work, Select, SendSucceeds, SendFails, FailRead, vars
<1>2. SettledIsFinal <=> [][Final]_vars
  BY DEF SettledIsFinal
<1> HIDE DEF Final
<1> QED
  BY <1>1, <1>2, TimelyInvariance, PTL DEF TimelySpec

-----------------------------------------------------------------------------
(* Claims beyond the bound, in TimelySpec                                   *)

(* A row that waits for a claim has attempts left, a row under lease has an *)
(* owner, and what _fail has read is still so.                              *)
BudgetOK(d) ==
    /\ delivery[d].status \in {"absent", "pending", "retry"}
        => delivery[d].attempts < MaxAttempts
    /\ delivery[d].status = "processing" => delivery[d].owner # NoOwner

ReadOK(w) == pc[w] = "write" => seen[w] = delivery[job[w]].attempts

(* The rows that are claimed beyond the bound, or will be: their worker has *)
(* crashed on the last attempt.  Each of them has cost a crash.             *)
Overdrawn ==
    {d \in Deliveries : \/ delivery[d].attempts > MaxAttempts
                        \/ /\ delivery[d].owner = Gone
                           /\ delivery[d].attempts = MaxAttempts}

CrashesCounted == IsFiniteSet(Overdrawn) /\ Cardinality(Overdrawn) <= crashes

ExcessInv ==
    /\ TimelyInv
    /\ \A d \in Deliveries : BudgetOK(d)
    /\ \A w \in Workers : ReadOK(w)
    /\ CrashesCounted

LEMMA NoMoreOverdrawn ==
    ASSUME CrashesCounted, TypeOK, Overdrawn' \subseteq Overdrawn,
           crashes' = crashes
    PROVE  CrashesCounted'
<1>1. /\ IsFiniteSet(Overdrawn') /\ Cardinality(Overdrawn') <= Cardinality(Overdrawn)
      /\ Cardinality(Overdrawn') \in Nat /\ Cardinality(Overdrawn) \in Nat
  BY FS_Subset, FS_CardinalityType DEF CrashesCounted
<1>2. crashes \in Nat
  BY DEF TypeOK
<1> QED
  BY <1>1, <1>2 DEF CrashesCounted

(* A step that changes no attempts, gives no row to a crashed worker and    *)
(* makes none wait that has used its attempts                               *)
LEMMA BudgetKept ==
    ASSUME ExcessInv, crashes' = crashes,
           \A d \in Deliveries :
              /\ delivery'[d].attempts = delivery[d].attempts
              /\ delivery'[d].owner = Gone => delivery[d].owner = Gone
              /\ BudgetOK(d)'
    PROVE  (\A d \in Deliveries : BudgetOK(d)') /\ CrashesCounted'
<1>1. Overdrawn' \subseteq Overdrawn
  BY DEF Overdrawn
<1> QED
  BY <1>1, NoMoreOverdrawn DEF ExcessInv, TimelyInv, Inv

LEMMA ExcessMaterialise ==
    ASSUME ExcessInv, NEW S \in SUBSET Deliveries, Materialise(S)
    PROVE  /\ \A d \in Deliveries : BudgetOK(d)'
           /\ \A w \in Workers : ReadOK(w)'
           /\ CrashesCounted'
<1>1. UNCHANGED <<pc, job, seen, crashes>>
  BY DEF Materialise, local
<1>2. ASSUME NEW d \in Deliveries
      PROVE  /\ delivery'[d].attempts = delivery[d].attempts
             /\ delivery'[d].owner = delivery[d].owner
             /\ BudgetOK(d)'
  <2>1. delivery[d] \in Row
    BY DEF ExcessInv, TimelyInv, Inv, TypeOK
  <2>2. \/ delivery'[d] = delivery[d]
        \/ /\ delivery[d].status = "absent"
           /\ delivery'[d] = [delivery[d] EXCEPT !.status = "pending"]
    BY MaterialisedRow DEF ExcessInv, TimelyInv, Inv
  <2>3. BudgetOK(d)
    BY DEF ExcessInv
  <2> QED
    BY <2>1, <2>2, <2>3 DEF BudgetOK, Row
<1>3. ASSUME NEW w \in Workers PROVE ReadOK(w)'
  <2>1. pc[w] = "write" => job[w] \in Deliveries
    BY DEF ExcessInv, TimelyInv, Inv, WorkerOK
  <2> QED
    BY <1>1, <1>2, <2>1 DEF ExcessInv, ReadOK
<1> QED
  BY <1>1, <1>2, <1>3, BudgetKept

(* Only a crash can lead to a claim of a row without attempts left: every   *)
(* other row under lease has a worker that keeps it.                        *)
LEMMA ExcessClaim ==
    ASSUME ExcessInv, NEW w \in Workers, Claim(w)
    PROVE  /\ \A d \in Deliveries : BudgetOK(d)'
           /\ \A v \in Workers : ReadOK(v)'
           /\ CrashesCounted'
<1> USE DEF Goto
<1>1. /\ job[w] \in Deliveries /\ TypeOK /\ TimelyInv /\ pc[w] = "claim"
      /\ age[w] \in Nat
  BY DEF ExcessInv, TimelyInv, Inv, TypeOK, WorkerOK, Claim
<1>2. CASE ~Eligible(job[w], age[w])
  <2>1. delivery' = delivery /\ crashes' = crashes /\ Rest(w)
    BY <1>2 DEF Claim
  <2>2. ASSUME NEW v \in Workers PROVE ReadOK(v)'
    BY <1>1, <2>1 DEF ExcessInv, ReadOK, Rest, TypeOK
  <2>3. \A d \in Deliveries : BudgetOK(d)'
    BY <2>1 DEF ExcessInv, BudgetOK
  <2> QED
    BY <2>1, <2>2, <2>3, BudgetKept
<1>3. CASE Eligible(job[w], age[w])
  <2> DEFINE d == job[w]
  <2>1. /\ delivery' = [delivery EXCEPT ![d] = Leased(w)]
        /\ pc' = [pc EXCEPT ![w] = "send"]
        /\ UNCHANGED <<job, seen, crashes>>
    BY <1>3 DEF Claim
  <2>2. /\ delivery'[d] = Leased(w)
        /\ \A e \in Deliveries \ {d} : delivery'[e] = delivery[e]
    BY <1>1, <2>1 DEF TypeOK
  <2>3. /\ Leased(w).status = "processing" /\ Leased(w).owner = w
        /\ Leased(w).attempts = IF delivery[d].attempts > MaxAttempts
                                THEN delivery[d].attempts
                                ELSE delivery[d].attempts + 1
    BY DEF Leased
  <2>4. delivery[d].attempts \in Nat /\ delivery[d].attempts <= MaxAttempts + 1
    BY <1>1, Counters
  <2>5. delivery[d].attempts < MaxAttempts \/ d \in Overdrawn
    <3>1. CASE delivery[d].status \in {"pending", "retry"}
      BY <1>1, <3>1 DEF ExcessInv, BudgetOK
    <3>2. CASE delivery[d].status = "processing"
      <4>1. delivery[d].owner # NoOwner /\ delivery[d] \in Row
        BY <1>1, <3>2 DEF ExcessInv, BudgetOK, TypeOK
      <4>2. ASSUME NEW v \in Workers, delivery[d].owner = v PROVE FALSE
        <5>1. Busy(v) /\ job[v] = d
          BY <1>1, <4>2 DEF TimelyInv, Inv, RowOK
        <5> QED
          BY <1>1, <1>3, <5>1, BusyNotEligible
      <4>3. delivery[d].owner = Gone
        BY <4>1, <4>2 DEF Row
      <4> QED
        BY <1>1, <2>4, <4>3 DEF Overdrawn
    <3> QED
      BY <1>3, <3>1, <3>2 DEF Eligible
  <2>6. ASSUME NEW e \in Deliveries PROVE BudgetOK(e)'
    BY <2>2, <2>3, <2>6 DEF ExcessInv, BudgetOK
  <2>7. ASSUME NEW v \in Workers PROVE ReadOK(v)'
    <3>1. CASE Busy(v)
      <4>1. job[v] # d /\ job[v] \in Deliveries
        BY <1>1, <1>3, <3>1, BusyNotEligible, BusyRow
      <4>2. pc'[v] = "write" => pc[v] = "write"
        BY <1>1, <2>1 DEF TypeOK
      <4> QED
        BY <2>1, <2>2, <4>1, <4>2 DEF ExcessInv, ReadOK
    <3>2. CASE ~Busy(v)
      BY <1>1, <2>1, <3>2 DEF ReadOK, Busy, TypeOK
    <3> QED
      BY <3>1, <3>2
  <2>8. Overdrawn' \subseteq Overdrawn
    <3>1. ASSUME NEW e \in Deliveries, e # d, e \in Overdrawn' PROVE e \in Overdrawn
      BY <2>2, <3>1 DEF Overdrawn
    <3>2. ASSUME d \in Overdrawn', d \notin Overdrawn PROVE FALSE
      <4>1. Leased(w).owner # Gone /\ Leased(w).attempts <= MaxAttempts
        BY <2>3, <2>4, <2>5, <3>2
      <4>2. Leased(w).attempts \in Nat
        BY <2>3, <2>4
      <4>3. delivery'[d].attempts > MaxAttempts \/ delivery'[d].owner = Gone
        BY <3>2 DEF Overdrawn
      <4> HIDE DEF d
      <4> QED
        BY <2>2, <4>1, <4>2, <4>3
    <3> QED
      BY <3>1, <3>2 DEF Overdrawn
  <2>9. CrashesCounted'
    BY <1>1, <2>1, <2>8, NoMoreOverdrawn DEF ExcessInv
  <2> QED
    BY <2>6, <2>7, <2>9
<1> QED
  BY <1>2, <1>3

(* _fail compares what the row still says: it goes back with attempts left, *)
(* or not at all.                                                           *)
LEMMA ExcessRelease ==
    ASSUME ExcessInv, NEW w \in Workers, Mark(w) \/ FailWrite(w)
    PROVE  /\ \A d \in Deliveries : BudgetOK(d)'
           /\ \A v \in Workers : ReadOK(v)'
           /\ CrashesCounted'
<1> USE DEF Rest, Goto
<1> DEFINE d == job[w]
<1>1. /\ TypeOK /\ TimelyInv /\ Busy(w) /\ Rest(w) /\ crashes' = crashes
      /\ d \in Deliveries /\ HoldsLease(w)
  <2>1. Busy(w) /\ Rest(w) /\ crashes' = crashes
    BY DEF Mark, FailWrite, Busy
  <2> QED
    BY <2>1, BusyRow DEF ExcessInv, TimelyInv, Inv, HoldsLease
<1>2. delivery[d] \in Row /\ delivery[d].attempts \in Nat
  BY <1>1, Counters
<1>3. PICK status \in {"delivered", "dead_letter", "retry"} :
         /\ delivery' = [delivery EXCEPT ![d] = Released(@, status)]
         /\ status = "retry" => delivery[d].attempts < MaxAttempts
  <2>1. CASE Mark(w)
    BY <1>1, <2>1 DEF Mark
  <2>2. CASE FailWrite(w)
    <3>1. seen[w] = delivery[d].attempts
      BY <2>2 DEF ExcessInv, ReadOK, FailWrite
    <3>2. CASE Exhausted(seen[w])
      BY <2>2, <3>2 DEF FailWrite
    <3>3. CASE ~Exhausted(seen[w])
      <4>1. delivery[d].attempts < MaxAttempts
        BY <1>2, <3>1, <3>3 DEF Exhausted
      <4>2. delivery' = [delivery EXCEPT ![d] = Released(@, "retry")]
        BY <2>2, <3>3 DEF FailWrite
      <4> QED
        BY <4>1, <4>2
    <3> QED
      BY <3>2, <3>3
  <2> QED
    BY <2>1, <2>2
<1>4. /\ delivery'[d].status = status /\ delivery'[d].owner = NoOwner
      /\ delivery'[d].attempts = delivery[d].attempts
      /\ \A e \in Deliveries \ {d} : delivery'[e] = delivery[e]
  <2>1. delivery'[d] = [delivery[d] EXCEPT !.status = status, !.owner = NoOwner,
                                           !.lease = 0]
    BY <1>1, <1>3 DEF Released, TypeOK
  <2>2. \A e \in Deliveries \ {d} : delivery'[e] = delivery[e]
    BY <1>1, <1>3 DEF TypeOK
  <2> HIDE DEF d
  <2> QED
    BY <1>2, <2>1, <2>2 DEF Row
<1>5. ASSUME NEW e \in Deliveries
      PROVE  /\ delivery'[e].attempts = delivery[e].attempts
             /\ delivery'[e].owner = Gone => delivery[e].owner = Gone
             /\ BudgetOK(e)'
  <2>1. CASE e = d
    <3> HIDE DEF d
    <3> QED
      BY <1>3, <1>4, <2>1 DEF BudgetOK
  <2>2. CASE e # d
    BY <1>4, <2>2 DEF ExcessInv, BudgetOK
  <2> QED
    BY <2>1, <2>2
<1>6. ASSUME NEW v \in Workers PROVE ReadOK(v)'
  <2>1. CASE v = w
    BY <1>1, <2>1 DEF ReadOK, TypeOK
  <2>2. CASE v # w
    <3>1. pc'[v] = pc[v] /\ job'[v] = job[v] /\ seen'[v] = seen[v]
      BY <1>1, <2>2 DEF TypeOK
    <3>2. pc[v] = "write" => job[v] \in Deliveries
      BY <1>1, BusyRow DEF Busy
    <3> QED
      BY <1>5, <3>1, <3>2 DEF ExcessInv, ReadOK
  <2> QED
    BY <2>1, <2>2
<1> QED
  BY <1>1, <1>5, <1>6, BudgetKept

(* A crash leaves one row at most, its own *)
LEMMA ExcessCrash ==
    ASSUME ExcessInv, NEW w \in Workers, Crash(w)
    PROVE  /\ \A d \in Deliveries : BudgetOK(d)'
           /\ \A v \in Workers : ReadOK(v)'
           /\ CrashesCounted'
<1>1. TypeOK /\ TimelyInv /\ Inv
  BY DEF ExcessInv, TimelyInv, Inv
<1>2. ASSUME NEW d \in Deliveries PROVE BudgetOK(d)'
  BY <1>1, CrashedRow DEF ExcessInv, BudgetOK
<1>3. ASSUME NEW v \in Workers PROVE ReadOK(v)'
  <2>1. CASE v = w
    BY <1>1, <2>1 DEF ReadOK, Crash, Rest, Goto, TypeOK
  <2>2. CASE v # w
    <3>1. pc'[v] = pc[v] /\ job'[v] = job[v] /\ seen'[v] = seen[v]
      BY <1>1, <2>2 DEF Crash, Rest, Goto, TypeOK
    <3>2. pc[v] = "write" => job[v] \in Deliveries
      BY <1>1, BusyRow DEF Busy
    <3> QED
      <4>1. ReadOK(v)
        BY DEF ExcessInv
      <4>2. pc[v] = "write" => delivery'[job[v]].attempts = delivery[job[v]].attempts
        BY <1>1, <3>2, CrashedRow
      <4> QED
        BY <3>1, <4>1, <4>2 DEF ReadOK
  <2> QED
    BY <2>1, <2>2
<1>4. Overdrawn' \subseteq Overdrawn \cup {job[w]}
  <2>1. ASSUME NEW d \in Deliveries, d # job[w]
        PROVE  /\ delivery'[d].attempts = delivery[d].attempts
               /\ delivery'[d].owner = delivery[d].owner
    <3>1. delivery[d].owner # w
      BY <1>1, <2>1 DEF Inv, RowOK
    <3> QED
      BY <1>1, <3>1, CrashedRow
  <2> QED
    BY <2>1 DEF Overdrawn
<1>5. /\ IsFiniteSet(Overdrawn) /\ IsFiniteSet(Overdrawn \cup {job[w]})
      /\ Cardinality(Overdrawn) \in Nat /\ Cardinality(Overdrawn) <= crashes
      /\ Cardinality(Overdrawn \cup {job[w]}) <= Cardinality(Overdrawn) + 1
  <2>1. IsFiniteSet(Overdrawn) /\ Cardinality(Overdrawn) <= crashes
    BY DEF ExcessInv, CrashesCounted
  <2>2. Cardinality(Overdrawn) \in Nat
    BY <2>1, FS_CardinalityType
  <2> QED
    BY <2>1, <2>2, FS_AddElement
<1>6. /\ IsFiniteSet(Overdrawn') /\ Cardinality(Overdrawn') \in Nat
      /\ Cardinality(Overdrawn') <= Cardinality(Overdrawn \cup {job[w]})
      /\ Cardinality(Overdrawn \cup {job[w]}) \in Nat
  BY <1>4, <1>5, FS_Subset, FS_CardinalityType
<1>7. crashes' = crashes + 1 /\ crashes \in Nat
  BY <1>1 DEF Crash, TypeOK
<1>8. CrashesCounted'
  BY <1>5, <1>6, <1>7 DEF CrashesCounted
<1> QED
  BY <1>2, <1>3, <1>8

LEMMA ExcessStep == ExcessInv /\ [TimelyNext]_vars => ExcessInv'
<1> SUFFICES ASSUME ExcessInv, [TimelyNext]_vars PROVE ExcessInv'
  OBVIOUS
<1> DEFINE Kept == /\ \A d \in Deliveries : BudgetOK(d)'
                   /\ \A w \in Workers : ReadOK(w)'
                   /\ CrashesCounted'
<1>1. TimelyInv /\ TimelyInv' /\ TypeOK
  BY TimelyStep DEF ExcessInv, TimelyInv, Inv
<1>2. ASSUME UNCHANGED <<delivery, crashes>> PROVE CrashesCounted'
  BY <1>2 DEF ExcessInv, CrashesCounted, Overdrawn
<1>3. ASSUME UNCHANGED delivery, NEW d \in Deliveries PROVE BudgetOK(d)'
  BY <1>3 DEF ExcessInv, BudgetOK
<1>4. ASSUME NEW w \in Workers,
             \/ \E d \in Deliveries : Select(w, d)
             \/ SendSucceeds(w) \/ SendFails(w) \/ FailRead(w)
      PROVE  Kept
  <2>1. UNCHANGED <<delivery, crashes>>
    BY <1>4 DEF Select, SendSucceeds, SendFails, FailRead
  <2>2. ASSUME NEW v \in Workers PROVE ReadOK(v)'
    BY <1>1, <1>4, <2>1
    DEF ExcessInv, ReadOK, Select, SendSucceeds, SendFails, FailRead, Rest,
        Goto, TypeOK
  <2> QED
    BY <1>2, <1>3, <2>1, <2>2
<1>5. ASSUME Tick PROVE Kept
  <2>1. UNCHANGED <<pc, job, seen, crashes>>
    BY <1>5 DEF Tick
  <2>2. ASSUME NEW d \in Deliveries
        PROVE  /\ delivery'[d].attempts = delivery[d].attempts
               /\ delivery'[d].owner = delivery[d].owner
               /\ BudgetOK(d)'
    BY <1>1, <1>5, TickedRow DEF ExcessInv, BudgetOK
  <2>3. ASSUME NEW w \in Workers PROVE ReadOK(w)'
    <3>1. pc[w] = "write" => job[w] \in Deliveries
      BY <1>1, BusyRow DEF Busy
    <3> QED
      BY <2>1, <2>2, <3>1 DEF ExcessInv, ReadOK
  <2> QED
    BY <2>1, <2>2, <2>3, BudgetKept
<1>6. ASSUME UNCHANGED vars PROVE Kept
  <2>1. UNCHANGED <<delivery, pc, job, seen, crashes>>
    BY <1>6 DEF vars
  <2> QED
    BY <1>2, <1>3, <2>1 DEF ExcessInv, ReadOK
<1>7. Kept
  <2> HIDE DEF Kept
  <2>1. ASSUME NEW S \in SUBSET Deliveries, Materialise(S) PROVE Kept
    BY <2>1, ExcessMaterialise DEF Kept
  <2>2. ASSUME NEW w \in Workers, Claim(w) \/ Mark(w) \/ FailWrite(w) \/ Crash(w)
        PROVE  Kept
    BY <2>2, ExcessClaim, ExcessRelease, ExcessCrash DEF Kept
  <2> QED
    BY <1>4, <1>5, <1>6, <2>1, <2>2 DEF TimelyNext, Act, Work
<1> QED
  BY <1>1, <1>7 DEF ExcessInv

(* While every worker keeps within its lease, each row claimed beyond       *)
(* WORKER_MAX_ATTEMPTS has cost a crash of a worker on its last attempt:    *)
(* rows that merely fail are given up in time by _fail.                     *)
THEOREM OnlyCrashesExceed == TimelySpec => []ExcessNeedsCrash
<1>1. Init => ExcessInv
  <2>1. Init => TimelyInv
    BY InitInv DEF Init, TimelyInv, TimelyOK, Busy
  <2>2. Init => Overdrawn = {}
    BY DEF Init, Overdrawn, Absent
  <2>3. ASSUME Init PROVE CrashesCounted
    <3>1. crashes = 0
      BY <2>3 DEF Init
    <3> QED
      BY <2>2, <2>3, <3>1, FS_EmptySet DEF CrashesCounted
  <2>4. ASSUME Init, NEW d \in Deliveries PROVE BudgetOK(d)
    BY <2>4 DEF Init, BudgetOK, Absent
  <2>5. ASSUME Init, NEW w \in Workers PROVE ReadOK(w)
    BY <2>5 DEF Init, ReadOK
  <2> QED
    BY <2>1, <2>3, <2>4, <2>5 DEF ExcessInv
<1>2. ExcessInv => ExcessNeedsCrash
  <2> SUFFICES ASSUME ExcessInv PROVE ExcessNeedsCrash
    OBVIOUS
  <2> DEFINE Beyond == {d \in Deliveries : delivery[d].attempts > MaxAttempts}
  <2>1. Beyond \subseteq Overdrawn /\ IsFiniteSet(Overdrawn)
        /\ Cardinality(Overdrawn) <= crashes
    BY DEF Overdrawn, ExcessInv, CrashesCounted
  <2>2. /\ Cardinality(Beyond) <= Cardinality(Overdrawn)
        /\ Cardinality(Beyond) \in Nat /\ Cardinality(Overdrawn) \in Nat
    <3> HIDE DEF Beyond
    <3> QED
      BY <2>1, FS_Subset, FS_CardinalityType
  <2>3. crashes \in Nat
    BY DEF ExcessInv, TimelyInv, Inv, TypeOK
  <2> QED
    BY <2>1, <2>2, <2>3 DEF ExcessNeedsCrash
<1> QED
  BY <1>1, <1>2, ExcessStep, PTL DEF TimelySpec

=============================================================================

--------------------------- MODULE JwksCacheProofs ---------------------------
(***************************************************************************)
(* Proofs about JwksCache, for any number of threads and documents and any *)
(* lifetime and delay: how long a withdrawn key is accepted, and that a    *)
(* new one is found.                                                       *)
(***************************************************************************)
EXTENDS JwksCache, TLAPS

AtLabel(label) == \E t \in Threads : pc[t] = label

(* Keys that are published are not withdrawn, older keys were withdrawn     *)
(* before newer ones, and nobody knows a document that is not published.    *)
Withdrawals ==
    /\ \A k \in Documents : k >= published => withdrawn[k] = 0
    /\ \A j, k \in Documents : j < k => withdrawn[k] <= withdrawn[j]
Known == cached <= published /\ \A t \in Threads : document[t] <= published

(* An answer under way holds keys that were published when it was given *)
Answered ==
    \A t \in Threads : pc[t] = "store" =>
        document[t] # None /\ withdrawn[document[t]] <= delay[t]

(* What the cache may hold: when a thread has stored a document and not yet *)
(* set its expiry, no time has passed; otherwise the time to the expiry     *)
(* bounds the age of its keys; and a thread that returns has just tested    *)
(* the expiry or set it.                                                    *)
YoungerThan(age) == cached = None \/ withdrawn[cached] < age
JustStored == AtLabel("expiry") => YoungerThan(MaxDelay + 1)
Lives == AtLabel("expiry") \/ YoungerThan(Stale - expiry + 1)
Returned == AtLabel("return") => YoungerThan(Stale)

Inv == TypeOK /\ Withdrawals /\ Known /\ Answered /\ JustStored /\ Lives
         /\ Returned

USE TimeAssumption, DocumentAssumption

LEMMA InitInv == Init => Inv
BY DEF Init, Inv, TypeOK, Withdrawals, Known, Answered, JustStored, Lives,
       Returned, YoungerThan, AtLabel, Documents, None, Stale, Answers

LEMMA StepInv == Inv /\ [Next]_vars => Inv'
PROOF
<1> SUFFICES ASSUME Inv, [Next]_vars PROVE Inv'
    OBVIOUS
<1> USE DEF Inv, TypeOK, Withdrawals, Known, Answered, JustStored, Lives,
            Returned, YoungerThan, AtLabel, Documents, None, Stale, Answers, Goto
<1>1. ASSUME NEW t \in Threads, NEW k \in {None} \cup Documents, Begin(t, k)
      PROVE Inv'
    BY <1>1 DEF Begin, Idle
<1>2. ASSUME NEW t \in Threads, Test(t) PROVE Inv'
    <2>1. TypeOK'
        BY <1>2 DEF Test
    <2>2. Withdrawals' /\ Known' /\ Answered'
        BY <1>2 DEF Test
    <2>3. JustStored' /\ Lives' /\ Returned'
        BY <1>2 DEF Test
    <2> QED
        BY <2>1, <2>2, <2>3
<1>3. ASSUME NEW t \in Threads, Fetch(t) PROVE Inv'
    <2>1. TypeOK'
        BY <1>3 DEF Fetch
    <2>2. Withdrawals' /\ Known' /\ Answered'
        BY <1>3 DEF Fetch
    <2>3. JustStored' /\ Lives' /\ Returned'
        BY <1>3 DEF Fetch
    <2> QED
        BY <2>1, <2>2, <2>3
<1>4. ASSUME NEW t \in Threads, FetchFails(t) PROVE Inv'
    <2>1. TypeOK'
        BY <1>4 DEF FetchFails
    <2>2. Withdrawals' /\ Known' /\ Answered'
        BY <1>4 DEF FetchFails
    <2>3. JustStored' /\ Lives' /\ Returned'
        BY <1>4 DEF FetchFails
    <2> QED
        BY <2>1, <2>2, <2>3
<1>5. ASSUME NEW t \in Threads, Store(t) PROVE Inv'
    <2>1. TypeOK'
        BY <1>5 DEF Store
    <2>2. Withdrawals' /\ Known'
        BY <1>5 DEF Store
    <2>3. Answered'
        BY <1>5 DEF Store
    <2>4. AtLabel("expiry")' /\ cached' = document[t] /\ withdrawn' = withdrawn
        BY <1>5 DEF Store
    <2>5. document[t] # None /\ withdrawn[document[t]] < MaxDelay + 1
        BY <1>5 DEF Store
    <2>6. JustStored' /\ Lives' /\ Returned'
        BY <2>1, <2>4, <2>5
    <2> QED
        BY <2>1, <2>2, <2>3, <2>6
<1>6. ASSUME NEW t \in Threads, SetExpiry(t) PROVE Inv'
    <2>1. TypeOK'
        BY <1>6 DEF SetExpiry
    <2>2. Withdrawals' /\ Known'
        BY <1>6 DEF SetExpiry
    <2>3. Answered'
        BY <1>6 DEF SetExpiry
    <2>4. cached' = cached /\ withdrawn' = withdrawn /\ expiry' = Ttl
        BY <1>6 DEF SetExpiry
    <2>5. cached = None \/ withdrawn[cached] < MaxDelay + 1
        BY <1>6 DEF SetExpiry
    <2>6. JustStored' /\ Lives' /\ Returned'
        BY <2>1, <2>4, <2>5
    <2> QED
        BY <2>1, <2>2, <2>3, <2>6
<1>7. ASSUME NEW t \in Threads, Return(t) PROVE Inv'
    <2>1. TypeOK'
        BY <1>7 DEF Return
    <2>2. Withdrawals' /\ Known' /\ Answered'
        BY <1>7 DEF Return
    <2>3. JustStored' /\ Lives' /\ Returned'
        BY <1>7 DEF Return
    <2> QED
        BY <2>1, <2>2, <2>3
<1>8. ASSUME NEW t \in Threads, Refresh(t) PROVE Inv'
    <2>1. TypeOK'
        BY <1>8 DEF Refresh
    <2>2. Withdrawals' /\ Known' /\ Answered'
        BY <1>8 DEF Refresh
    <2>3. JustStored' /\ Lives' /\ Returned'
        BY <1>8 DEF Refresh
    <2> QED
        BY <2>1, <2>2, <2>3
<1>9. CASE Rotate
    BY <1>9 DEF Rotate, thread
<1>10. CASE Tick
    <2>1. TypeOK'
        <3>1. ASSUME NEW t \in Threads, pc[t] = "store" PROVE delay[t] < MaxDelay
            BY <1>10, <3>1 DEF Tick, Idle
        <3>2. delay' \in [Threads -> 0 .. MaxDelay]
            BY <1>10, <3>1 DEF Tick
        <3>3. withdrawn' \in [Documents -> 0 .. Stale] /\ expiry' \in 0 .. Ttl
            BY <1>10 DEF Tick
        <3> QED
            BY <1>10, <3>2, <3>3 DEF Tick
    <2>2. ASSUME NEW k \in Documents
          PROVE  /\ withdrawn'[k] \in {withdrawn[k], withdrawn[k] + 1}
                 /\ withdrawn[k] \in 0 .. Stale /\ withdrawn'[k] <= Stale
                 /\ k >= published => withdrawn'[k] = withdrawn[k]
        BY <1>10 DEF Tick
    <2>3. \A j, k \in Documents : j < k => withdrawn'[k] <= withdrawn'[j]
        <3> SUFFICES ASSUME NEW j \in Documents, NEW k \in Documents, j < k
                     PROVE  withdrawn'[k] <= withdrawn'[j]
            OBVIOUS
        <3>1. CASE k >= published
            BY <2>2, <3>1
        <3>2. CASE k < published
            BY <1>10, <3>2 DEF Tick
        <3> QED
            BY <3>1, <3>2
    <2>4. Withdrawals' /\ Known'
        BY <1>10, <2>2, <2>3 DEF Tick
    <2>5. Answered'
        BY <1>10, <2>2 DEF Tick
    <2>6. ~AtLabel("expiry") /\ ~AtLabel("return")
        BY <1>10 DEF Tick, Idle
    <2>7. JustStored' /\ Returned'
        BY <1>10, <2>6 DEF Tick
    <2>8. Lives'
        <3>1. CASE cached = None
            BY <1>10, <3>1 DEF Tick
        <3>2. CASE cached # None
            <4>1. withdrawn[cached] + expiry <= Stale
                BY <2>6, <3>2
            <4>2. withdrawn'[cached] + expiry' <= Stale
                BY <1>10, <2>2, <3>2, <4>1 DEF Tick
            <4> QED
                BY <1>10, <2>1, <3>2, <4>2 DEF Tick
        <3> QED
            BY <3>1, <3>2
    <2> QED
        BY <2>1, <2>4, <2>5, <2>7, <2>8
<1>11. CASE UNCHANGED vars
    BY <1>11 DEF vars, thread
<1> QED
    BY <1>1, <1>2, <1>3, <1>4, <1>5, <1>6, <1>7, <1>8, <1>9, <1>10, <1>11
    DEF Next, Validate

THEOREM Invariance == Spec => []Inv
BY InitInv, StepInv, PTL DEF Spec

(* The variables stay in their types. *)
THEOREM TypeCorrect == Spec => []TypeOK
BY Invariance, PTL DEF Inv

(* A key that was withdrawn for longer than the lifetime of the cache and   *)
(* the delay of one answer is accepted by no thread.                        *)
THEOREM WithdrawnKeysAreRefused == Spec => []WithdrawnKeysDie
<1>1. Inv => WithdrawnKeysDie
    BY DEF Inv, Returned, YoungerThan, AtLabel, WithdrawnKeysDie
<1> QED
    BY <1>1, Invariance, PTL

(* Once the last rotation is that long ago, no thread refuses a token       *)
(* signed by the published key for its key.                                 *)
THEOREM PublishedKeyIsAccepted == Spec => []RotationIsFollowed
<1>1. ASSUME Inv, NotRotatedLately, NEW t \in Threads, pc[t] = "return"
      PROVE  cached \in {None, published}
    <2> USE DEF Inv, TypeOK, Documents, None, Stale
    <2>1. cached = None \/ withdrawn[cached] < Stale
        BY <1>1 DEF Returned, YoungerThan, AtLabel
    <2>2. CASE published = 1
        BY <1>1, <2>2 DEF Known
    <2>3. CASE published > 1 /\ cached # None /\ cached < published
        <3>1. withdrawn[published - 1] = Stale
            BY <1>1, <2>3 DEF NotRotatedLately
        <3>2. withdrawn[published - 1] <= withdrawn[cached]
            BY <1>1, <2>3 DEF Withdrawals
        <3> QED
            BY <1>1, <2>1, <2>3, <3>1, <3>2
    <2> QED
        BY <1>1, <2>2, <2>3 DEF Known
<1>2. Inv => RotationIsFollowed
    BY <1>1 DEF RotationIsFollowed
<1> QED
    BY <1>2, Invariance, PTL
=============================================================================

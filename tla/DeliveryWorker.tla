--------------------------- MODULE DeliveryWorker ---------------------------
(***************************************************************************)
(* The delivery of notifications: rows of notification_deliveries, the     *)
(* email workers that lease and send them, and the clock.                  *)
(*                                                                         *)
(* A worker is one DeliveryWorker, in one process.  It reads its clock and *)
(* selects the oldest eligible row, claims it with a guarded UPDATE, calls *)
(* the sender, and then marks the row delivered (one guarded UPDATE) or    *)
(* failed (a guarded SELECT, then an UPDATE by primary key).  Each of      *)
(* these is an action: other workers, the clock and crashes come between.  *)
(*                                                                         *)
(* Time is kept in timers instead of dates: a row's lease is the time that *)
(* remains until lease_expires_at, and age[w] is the time since w read the *)
(* `now' it claims with.                                                   *)
(***************************************************************************)
EXTENDS Integers, FiniteSets

CONSTANTS
    Deliveries,   \* numbered in the order of created_at
    Workers,      \* worker processes
    MaxAttempts,  \* WORKER_MAX_ATTEMPTS
    Lease,        \* WORKER_LEASE_SECONDS, in ticks
    MaxStall,     \* bound: ticks a worker may spend between `now' and its UPDATE
    MaxCrashes,   \* bound: crashes of workers in one behaviour
    NoOwner,      \* lease_owner IS NULL
    Gone          \* the worker_id of a process that has crashed

ASSUME DeliveriesAssumption == Deliveries \subseteq Nat \ {0}
ASSUME AttemptsAssumption == MaxAttempts \in Nat \ {0}
ASSUME TimeAssumption ==
    Lease \in Nat \ {0} /\ MaxStall \in Nat \ {0} /\ MaxCrashes \in Nat
ASSUME OwnerAssumption ==
    NoOwner # Gone /\ NoOwner \notin Workers /\ Gone \notin Workers

VARIABLES
    delivery,     \* committed rows
    sent,         \* emails the provider accepted for a row (2: two or more)
    pc,           \* what each worker does next
    job,          \* the row it works on
    age,          \* time since it read `now'
    seen,         \* the attempts _fail has read
    crashes       \* crashes so far

local == <<pc, job, age, seen>>
vars == <<delivery, sent, pc, job, age, seen, crashes>>

-----------------------------------------------------------------------------
(* Only attempts >= MaxAttempts is ever asked, so attempts stop counting    *)
(* one above it; a lease stops at -MaxStall, below every `now' in use.      *)
Statuses == {"absent", "pending", "processing", "retry", "delivered",
             "dead_letter"}
Row == [status : Statuses, attempts : 0 .. (MaxAttempts + 1),
        owner : Workers \cup {NoOwner, Gone}, lease : (-MaxStall) .. Lease]

Absent == [status |-> "absent", attempts |-> 0, owner |-> NoOwner, lease |-> 0]

(* Mistake: an exhausted row gets a status that no query knows *)
ReleasedAsFailed(row, status) ==
    [row EXCEPT !.status = IF status = "dead_letter" THEN "failed" ELSE status,
                !.owner = NoOwner, !.lease = 0]

(* The row of an attempt that has ended *)
Released(row, status) ==
    [row EXCEPT !.status = status, !.owner = NoOwner, !.lease = 0]

PCs == {"idle", "claim", "send", "mark", "fail", "write"}
Busy(w) == pc[w] \in {"send", "mark", "fail", "write"}
Settled == {"delivered", "dead_letter"}

(* Mistake: only rows that nobody has claimed are eligible *)
EligibleUnclaimed(d, elapsed) == delivery[d].status \in {"pending", "retry"}

(* The WHERE of a claim, for a worker that read its clock `elapsed' ago *)
Eligible(d, elapsed) ==
    \/ delivery[d].status \in {"pending", "retry"}
    \/ delivery[d].status = "processing" /\ delivery[d].lease + elapsed <= 0

(* Mistake: rows are finalized by id alone *)
AnyRow(w) == TRUE

(* The WHERE of _mark_delivered and of the SELECT in _fail *)
HoldsLease(w) ==
    delivery[job[w]].status = "processing" /\ delivery[job[w]].owner = w

(* Mistake: the last attempt is one too early *)
ExhaustedEarly(attempts) == attempts + 1 >= MaxAttempts

(* Mistake: the last attempt is one too late *)
ExhaustedLate(attempts) == attempts > MaxAttempts

Exhausted(attempts) == attempts >= MaxAttempts

NoJob == 0

Goto(w, label) == pc' = [pc EXCEPT ![w] = label]

(* The worker goes back to the loop, or to its scheduler *)
Rest(w) ==
    /\ Goto(w, "idle")
    /\ job' = [job EXCEPT ![w] = NoJob]
    /\ age' = [age EXCEPT ![w] = 0]
    /\ seen' = [seen EXCEPT ![w] = 0]

-----------------------------------------------------------------------------
Init ==
    /\ delivery = [d \in Deliveries |-> Absent]
    /\ sent = [d \in Deliveries |-> 0]
    /\ pc = [w \in Workers |-> "idle"]
    /\ job = [w \in Workers |-> NoJob]
    /\ age = [w \in Workers |-> 0]
    /\ seen = [w \in Workers |-> 0]
    /\ crashes = 0

(* An outbox publisher commits the new rows of a batch; publishers that      *)
(* overlap may commit rows in another order than that of their created_at.   *)
Materialise(S) ==
    /\ \A d \in S : delivery[d].status = "absent"
    /\ delivery' = [d \in Deliveries |->
          IF d \in S THEN [delivery[d] EXCEPT !.status = "pending"]
          ELSE delivery[d]]
    /\ UNCHANGED <<sent, local, crashes>>

(* _claim_next: `now' is read, the oldest eligible row is selected.  With   *)
(* none, the cycle ends and the worker stays idle until it is run again.    *)
Select(w, d) ==
    /\ pc[w] = "idle"
    /\ Eligible(d, 0)
    /\ \A e \in Deliveries : e < d => ~Eligible(e, 0)
    /\ job' = [job EXCEPT ![w] = d]
    /\ age' = [age EXCEPT ![w] = 0]
    /\ Goto(w, "claim")
    /\ UNCHANGED <<delivery, sent, seen, crashes>>

(* The lease runs from the `now' that was read, not from the UPDATE *)
Leased(w) ==
    [status |-> "processing",
     attempts |-> IF delivery[job[w]].attempts > MaxAttempts
                  THEN delivery[job[w]].attempts
                  ELSE delivery[job[w]].attempts + 1,
     owner |-> w,
     lease |-> Lease - age[w]]

(* Mistake: the UPDATE does not ask again whether the row is eligible *)
ClaimSelected(w) ==
    /\ pc[w] = "claim"
    /\ delivery' = [delivery EXCEPT ![job[w]] = Leased(w)]
    /\ Goto(w, "send")
    /\ age' = [age EXCEPT ![w] = 0]
    /\ UNCHANGED <<sent, job, seen, crashes>>

(* The guarded UPDATE.  A contended claim ends the cycle. *)
Claim(w) ==
    /\ pc[w] = "claim"
    /\ \/ /\ Eligible(job[w], age[w])
          /\ delivery' = [delivery EXCEPT ![job[w]] = Leased(w)]
          /\ Goto(w, "send")
          /\ age' = [age EXCEPT ![w] = 0]
          /\ UNCHANGED <<job, seen>>
       \/ /\ ~Eligible(job[w], age[w])
          /\ Rest(w)
          /\ UNCHANGED delivery
    /\ UNCHANGED <<sent, crashes>>

Accepted(w) ==
    sent' = [sent EXCEPT ![job[w]] = IF @ = 2 THEN 2 ELSE @ + 1]

(* Mistake: an error of the sender is swallowed *)
SendFailsSilently(w) ==
    /\ pc[w] = "send"
    /\ sent' = sent
    /\ Goto(w, "mark")
    /\ UNCHANGED <<delivery, job, age, seen, crashes>>

SendSucceeds(w) ==
    /\ pc[w] = "send"
    /\ Accepted(w)
    /\ Goto(w, "mark")
    /\ UNCHANGED <<delivery, job, age, seen, crashes>>

(* No email address, an error status, or no answer in time: in the last     *)
(* case the provider may have accepted the email.                           *)
SendFails(w) ==
    /\ pc[w] = "send"
    /\ sent' = sent \/ Accepted(w)
    /\ Goto(w, "fail")
    /\ UNCHANGED <<delivery, job, age, seen, crashes>>

(* _mark_delivered: a row that is no longer its own is left alone *)
Mark(w) ==
    /\ pc[w] = "mark"
    /\ delivery' = IF HoldsLease(w)
                   THEN [delivery EXCEPT ![job[w]] = Released(@, "delivered")]
                   ELSE delivery
    /\ Rest(w)
    /\ UNCHANGED <<sent, crashes>>

(* _fail reads the row under the guard ... *)
FailRead(w) ==
    /\ pc[w] = "fail"
    /\ \/ /\ HoldsLease(w)
          /\ seen' = [seen EXCEPT ![w] = delivery[job[w]].attempts]
          /\ Goto(w, "write")
          /\ UNCHANGED <<job, age>>
       \/ ~HoldsLease(w) /\ Rest(w)
    /\ UNCHANGED <<delivery, sent, crashes>>

(* ... and the flush updates it by primary key, whoever holds it now *)
FailWrite(w) ==
    /\ pc[w] = "write"
    /\ delivery' = [delivery EXCEPT ![job[w]] =
          Released(@, IF Exhausted(seen[w]) THEN "dead_letter" ELSE "retry")]
    /\ Rest(w)
    /\ UNCHANGED <<sent, crashes>>

(* The process dies.  The next one has a new worker_id, so the id left in   *)
(* the row is nobody's: it is renamed Gone.                                 *)
Crash(w) ==
    /\ crashes < MaxCrashes
    /\ pc[w] # "idle"
    /\ delivery' = [d \in Deliveries |->
          IF delivery[d].owner = w THEN [delivery[d] EXCEPT !.owner = Gone]
          ELSE delivery[d]]
    /\ crashes' = crashes + 1
    /\ Rest(w)
    /\ UNCHANGED sent

(* Time passes.  MaxStall bounds how long a claim is under way. *)
Tick ==
    /\ \A w \in Workers : pc[w] = "claim" => age[w] < MaxStall
    /\ delivery' = [d \in Deliveries |->
          IF delivery[d].status = "processing" /\ delivery[d].lease > -MaxStall
          THEN [delivery[d] EXCEPT !.lease = @ - 1] ELSE delivery[d]]
    /\ age' = [w \in Workers |-> IF pc[w] = "claim" THEN age[w] + 1 ELSE age[w]]
    /\ UNCHANGED <<sent, pc, job, seen, crashes>>

Work(w) ==
    \/ \E d \in Deliveries : Select(w, d)
    \/ Claim(w)
    \/ SendSucceeds(w) \/ SendFails(w)
    \/ Mark(w) \/ FailRead(w) \/ FailWrite(w)

Act == \/ \E S \in SUBSET Deliveries : Materialise(S)
       \/ \E w \in Workers : Work(w) \/ Crash(w)

Next == Act \/ Tick

(* The sender gives up after 10 seconds and a lease lasts 60: in this       *)
(* variant no lease runs out while its holder works.                        *)
InTime == \A w \in Workers :
    /\ Busy(w) => delivery[job[w]].lease > 1
    /\ pc[w] = "claim" => age[w] + 1 < Lease

TimelyNext == Act \/ (InTime /\ Tick)

Spec == Init /\ [][Next]_vars
TimelySpec == Init /\ [][TimelyNext]_vars

(* Workers are run again and again by a scheduler, and time passes.  Two    *)
(* workers that both overrun every lease may take a row from each other     *)
(* for ever, so liveness is asked of the timely variant.                    *)
FairSpec == /\ TimelySpec
            /\ WF_vars(InTime /\ Tick)
            /\ \A w \in Workers : WF_vars(Work(w))

-----------------------------------------------------------------------------
(* Properties *)

TypeOK ==
    /\ delivery \in [Deliveries -> Row]
    /\ sent \in [Deliveries -> 0 .. 2]
    /\ pc \in [Workers -> PCs]
    /\ job \in [Workers -> Deliveries \cup {NoJob}]
    /\ age \in [Workers -> 0 .. MaxStall]
    /\ seen \in [Workers -> 0 .. (MaxAttempts + 1)]
    /\ crashes \in 0 .. MaxCrashes

(* A row is marked delivered only if the provider accepted its email,       *)
(* whatever leases were lost on the way (at-least-once, deliver_pending).   *)
DeliveredWasSent ==
    \A d \in Deliveries : delivery[d].status = "delivered" => sent[d] > 0

(* A row is given up only when it has used all its attempts, also when      *)
(* _fail has read the attempts of a lease that was lost since.              *)
DeadLetterIsExhausted ==
    \A d \in Deliveries :
        delivery[d].status = "dead_letter" => delivery[d].attempts >= MaxAttempts

(* A success is recorded only by the worker that holds the lease: one that  *)
(* has lost it cannot overwrite the result of its successor.                *)
SuccessByHolder ==
    [][\A d \in Deliveries :
          delivery[d].status # "delivered" /\ delivery'[d].status = "delivered"
            => \E w \in Workers : /\ delivery[d].status = "processing"
                                  /\ delivery[d].owner = w
                                  /\ pc[w] = "mark" /\ job[w] = d]_vars

(* Once it is materialised, a row is delivered or given up for good: the    *)
(* lease of a crashed worker runs out and is taken over, and a failing row  *)
(* runs out of attempts and lets the younger ones through.                  *)
EverythingSettles ==
    \A d \in Deliveries : delivery[d].status # "absent"
        ~> [](delivery[d].status \in Settled)

(* With workers that keep within their leases, two never work on the same   *)
(* row ...                                                                  *)
OneWorkerPerRow ==
    \A v, w \in Workers : v # w /\ Busy(v) /\ Busy(w) => job[v] # job[w]

(* ... a settled row is never touched again ...                             *)
SettledIsFinal ==
    [][\A d \in Deliveries : delivery[d].status \in Settled
            => delivery'[d] = delivery[d]]_vars

(* ... and a row is claimed beyond WORKER_MAX_ATTEMPTS only after a crash   *)
(* of its own: its worker died on the last attempt, before _fail compared   *)
(* attempts with the bound.                                                 *)
ExcessNeedsCrash ==
    Cardinality({d \in Deliveries : delivery[d].attempts > MaxAttempts})
        <= crashes

-----------------------------------------------------------------------------
(* Claims of the documentation that the code does not keep *)

(* README.md: only the lease holder can finalize the attempt.  The UPDATE   *)
(* of _fail names the row only by its id, after a SELECT that was guarded.  *)
OnlyHolderFinalizes ==
    [][\A w \in Workers : pc[w] = "write" /\ pc'[w] = "idle"
            /\ delivery'[job[w]] # delivery[job[w]]
            /\ delivery'[job[w]].owner # Gone
        => HoldsLease(w)]_vars

(* architecture.md: exhausted work is marked as dead_letter.  A row whose   *)
(* worker crashed on its last attempt is claimed and sent once more, each   *)
(* time its lease runs out.                                                 *)
ExhaustedIsNotClaimed ==
    [][\A d \in Deliveries : Exhausted(delivery[d].attempts)
            => delivery'[d].attempts = delivery[d].attempts]_vars
=============================================================================

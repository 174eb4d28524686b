------------------------ MODULE OfferWorkflowProofs ------------------------
(***************************************************************************)
(* What OfferWorkflow guarantees for any number of cases, offers, members  *)
(* and requests.                                                           *)
(*                                                                         *)
(* The safety properties are not inductive: they follow from the version   *)
(* checks only together with what a request still knows when it commits.   *)
(* Inv adds, for each request, that the row it read is the committed row   *)
(* as long as the version has not moved, that a row it has updated cannot  *)
(* change under it, and, for each offer, which decisions its row implies.  *)
(***************************************************************************)
EXTENDS OfferWorkflow, FiniteSetTheorems, TLAPS

-----------------------------------------------------------------------------
(* The inductive invariant *)

Deciding == {"decide", "sync", "advance", "record"}
WritesCase(r) ==
    \/ pc[r] \in {"move", "moved", "reserve", "insert", "advance"}
    \/ pc[r] = "record" /\ req[r].to # NoStage

(* What a request has read of an offer is the committed row, or is older *)
OfferRead(r) ==
    pc[r] \in Deciding =>
        /\ req[r].offer \in Offers
        /\ req[r].row.status # "absent"
        /\ req[r].row.version <= offers[req[r].offer].version
        /\ req[r].row.version = offers[req[r].offer].version
              => req[r].row = offers[req[r].offer]
        /\ req[r].actor \in Actors
        /\ RoleOf[req[r].actor] = RequiredRole[req[r].row.step]
        /\ req[r].to = TargetStage(req[r].row, req[r].verdict)

(* What a request has read of a case is the committed row, or is older, and *)
(* the move it is making is one of the state machine                        *)
CaseRead(r) ==
    WritesCase(r) =>
        /\ req[r].case \in Candidates
        /\ req[r].from \in Stages
        /\ CanTransition(req[r].from, req[r].to)
        /\ req[r].seen <= candidate[req[r].case].version
        /\ req[r].seen = candidate[req[r].case].version
              => req[r].from = candidate[req[r].case].stage

(* How the case of a request relates to its command *)
CommandOK(r) ==
    /\ pc[r] \in {"reserve", "insert"} =>
          req[r].from = "interviewing" /\ req[r].to = "offer_pending_approval"
    /\ pc[r] \in {"sync", "advance"} => req[r].to # NoStage
    /\ pc[r] \in {"advance", "record"} /\ req[r].to # NoStage =>
          req[r].case = req[r].row.case
    /\ pc[r] = "decide" => req[r].case = NoCase
    /\ pc[r] = "record" /\ req[r].to = NoStage => req[r].case = NoCase

(* A row updated by a request is still at the version it was updated from *)
Locked(r) ==
    /\ \A c \in Candidates :
          HoldsCase(r, c) => candidate[c].version = req[r].seen
    /\ \A o \in Offers :
          HoldsOffer(r, o) => offers[o].version = req[r].row.version

Exclusive(r, q) ==
    /\ \A c \in Candidates : ~(HoldsCase(r, c) /\ HoldsCase(q, c))
    /\ \A o \in Offers : ~(HoldsOffer(r, o) /\ HoldsOffer(q, o))

RequestOK(r) == OfferRead(r) /\ CaseRead(r) /\ CommandOK(r) /\ Locked(r)

(* The decisions that the row of an offer implies *)
OfferOK(o) ==
    /\ offers[o].status = "absent" =>
          offers[o] = AbsentOffer /\ \A d \in decisions : d.offer # o
    /\ offers[o].status # "absent" =>
          offers[o].case \in Candidates /\ offers[o].version >= 1
    /\ offers[o].status = "pending_approval" =>
          \A d \in decisions : d.offer = o =>
              d.step < offers[o].step /\ d.decision = "approved"
    /\ offers[o].status = "pending_approval" /\ offers[o].step = 2 =>
          Given(o, 1, "approved") # {}
    /\ offers[o].status = "approved" =>
          /\ Given(o, 1, "approved") # {} /\ Given(o, 2, "approved") # {}
          /\ \A d \in decisions : d.offer = o => d.decision = "approved"
    /\ offers[o].status \in {"approved", "rejected"} =>
          ~StepUndecided(o, offers[o].step)

(* A case with an offer has left interviewing; a settled offer has settled it *)
StageOK(o) ==
    /\ offers[o].status # "absent" =>
          candidate[offers[o].case].stage
              \notin {"applied", "screening", "interviewing"}
    /\ offers[o].status = "approved" =>
          candidate[offers[o].case].stage
              \in {"offer_approved", "hired", "withdrawn"}
    /\ offers[o].status = "rejected" =>
          candidate[offers[o].case].stage
              \in {"offer_rejected", "rejected", "withdrawn"}

Inv ==
    /\ TypeOK
    /\ \A r \in Requests : RequestOK(r)
    /\ \A r, q \in Requests : r # q => Exclusive(r, q)
    /\ \A o \in Offers : OfferOK(o) /\ StageOK(o)

-----------------------------------------------------------------------------
(* The state machine and the operators the rows are built with *)

(* What the state machine allows: from no stage back to one before the      *)
(* offer, and out of the stages a settled offer may meet, only within them  *)
(* (_ALLOWED_TRANSITIONS).                                                  *)
LEMMA Transitions ==
    ASSUME NEW s \in Stages, NEW t, CanTransition(s, t)
    PROVE  /\ t \in Stages
           /\ s \notin {"applied", "screening", "interviewing"}
                => t \notin {"applied", "screening", "interviewing"}
           /\ s \in {"offer_approved", "hired", "withdrawn"}
                => t \in {"offer_approved", "hired", "withdrawn"}
           /\ s \in {"offer_rejected", "rejected", "withdrawn"}
                => t \in {"offer_rejected", "rejected", "withdrawn"}
BY DEF CanTransition, AllowedTransitions, Stages

(* What Offer.decide writes for each step and verdict *)
LEMMA DecidedRow ==
    ASSUME NEW row \in OfferRow, NEW v \in Verdicts
    PROVE  /\ Decided(row, v) \in OfferRow
           /\ Decided(row, v).version = row.version + 1
           /\ Decided(row, v).case = row.case
           /\ v = "rejected" => /\ Decided(row, v).status = "rejected"
                                /\ Decided(row, v).step = row.step
                                /\ TargetStage(row, v) = "offer_rejected"
           /\ v = "approved" /\ row.step = 2 =>
                 /\ Decided(row, v).status = "approved"
                 /\ Decided(row, v).step = 2
                 /\ TargetStage(row, v) = "offer_approved"
           /\ v = "approved" /\ row.step = 1 =>
                 /\ Decided(row, v).status = row.status
                 /\ Decided(row, v).step = 2
                 /\ TargetStage(row, v) = NoStage
BY DEF OfferRow, Verdicts, Decided, TargetStage, FinalStep, Steps

LEMMA TargetType ==
    ASSUME NEW row, NEW v
    PROVE  TargetStage(row, v) \in Stages \cup {NoStage}
BY DEF TargetStage, Stages, NoStage

LEMMA NothingType == Nothing \in Request
BY DEF Nothing, Request, OfferRow, AbsentOffer, Steps, Verdicts

-----------------------------------------------------------------------------
(* Steps that change no row *)

LEMMA InitInv == Init => Inv
<1> SUFFICES ASSUME Init PROVE Inv
    OBVIOUS
<1>1. TypeOK
    <2>1. Opened \in CaseRow /\ AbsentOffer \in OfferRow
        BY DEF Opened, CaseRow, Stages, AbsentOffer, OfferRow, Steps
    <2>2. outbox \in Seq(Event)
        BY DEF Init
    <2> QED
        BY <2>1, <2>2, NothingType DEF Init, TypeOK, PCs
<1>2. \A r \in Requests : RequestOK(r)
    BY DEF Init, RequestOK, OfferRead, CaseRead, CommandOK, Locked, Deciding,
           WritesCase, HoldsCase, HoldsOffer
<1>3. \A r, q \in Requests : r # q => Exclusive(r, q)
    BY DEF Init, Exclusive, HoldsCase, HoldsOffer
<1>4. \A o \in Offers : OfferOK(o) /\ StageOK(o)
    BY DEF Init, OfferOK, StageOK, AbsentOffer
<1> QED
    BY <1>1, <1>2, <1>3, <1>4 DEF Inv

(* A step of one request that changes no row keeps Inv if the request is    *)
(* still in order.                                                          *)
LEMMA LocalStep ==
    ASSUME Inv, NEW r \in Requests, UNCHANGED rows,
           NEW label \in PCs, NEW mem \in Request,
           pc' = [pc EXCEPT ![r] = label], req' = [req EXCEPT ![r] = mem],
           RequestOK(r)',
           \A q \in Requests \ {r} : Exclusive(r, q)'
    PROVE  Inv'
<1>1. TypeOK'
    BY DEF Inv, TypeOK, rows
<1>2. \A q \in Requests : RequestOK(q)'
    <2> SUFFICES ASSUME NEW q \in Requests, q # r PROVE RequestOK(q)'
        OBVIOUS
    <2>1. pc'[q] = pc[q] /\ req'[q] = req[q]
        BY DEF Inv, TypeOK
    <2> QED
        BY <2>1 DEF Inv, RequestOK, OfferRead, CaseRead, CommandOK, Locked,
                    WritesCase, HoldsCase, HoldsOffer, rows
<1>3. \A p, q \in Requests : p # q => Exclusive(p, q)'
    <2> SUFFICES ASSUME NEW p \in Requests, NEW q \in Requests, p # q
                 PROVE  Exclusive(p, q)'
        OBVIOUS
    <2>1. CASE p = r \/ q = r
        BY <2>1 DEF Exclusive
    <2>2. CASE p # r /\ q # r
        <3>1. /\ pc'[q] = pc[q] /\ req'[q] = req[q]
              /\ pc'[p] = pc[p] /\ req'[p] = req[p]
            BY <2>2 DEF Inv, TypeOK
        <3> QED
            BY <3>1 DEF Inv, Exclusive, HoldsCase, HoldsOffer
    <2> QED
        BY <2>1, <2>2
<1>4. \A o \in Offers : OfferOK(o)' /\ StageOK(o)'
    BY DEF Inv, OfferOK, StageOK, Given, StepUndecided, rows
<1> QED
    BY <1>1, <1>2, <1>3, <1>4 DEF Inv

LEMMA RollbackInv ==
    ASSUME Inv, NEW r \in Requests, Rollback(r)
    PROVE  Inv'
<1>1. pc' = [pc EXCEPT ![r] = "idle"] /\ req' = [req EXCEPT ![r] = Nothing]
    BY DEF Rollback, End, Goto
<1>2. pc'[r] = "idle"
    BY <1>1 DEF Inv, TypeOK
<1>3. RequestOK(r)' /\ \A q \in Requests \ {r} : Exclusive(r, q)'
    BY <1>2 DEF RequestOK, OfferRead, CaseRead, CommandOK, Locked, Exclusive,
                Deciding, WritesCase, HoldsCase, HoldsOffer
<1> QED
    BY <1>1, <1>3, LocalStep, NothingType DEF Rollback, PCs

LEMMA BeginTransitionInv ==
    ASSUME Inv, NEW r \in Requests, NEW c \in Candidates, NEW t \in Stages,
           NEW v \in Versions, BeginTransition(r, c, t, v)
    PROVE  Inv'
<1> DEFINE mem == [Nothing EXCEPT !.case = c, !.seen = v,
                      !.from = candidate[c].stage, !.to = t]
<1>1. candidate[c] \in CaseRow /\ v \in Nat
    BY VersionsAssumption DEF Inv, TypeOK
<1>2. mem \in Request
    BY <1>1, NothingType DEF Request, Nothing, CaseRow
<1>3. pc' = [pc EXCEPT ![r] = "move"] /\ req' = [req EXCEPT ![r] = mem]
    BY DEF BeginTransition, Goto
<1>4. pc'[r] = "move" /\ req'[r] = mem /\ UNCHANGED rows
    BY <1>3 DEF Inv, TypeOK, BeginTransition
<1>5. CaseRead(r)'
    <2>1. mem.case = c /\ mem.seen = v /\ mem.to = t
          /\ mem.from = candidate[c].stage
        BY DEF Nothing
    <2>2. candidate' = candidate /\ v = candidate[c].version
          /\ CanTransition(candidate[c].stage, t)
        BY <1>4 DEF BeginTransition, rows
    <2> HIDE DEF mem
    <2> QED
        BY <1>1, <1>4, <2>1, <2>2 DEF CaseRead, CaseRow
<1>6. RequestOK(r)'
    BY <1>4, <1>5 DEF RequestOK, OfferRead, CommandOK, Locked, Deciding,
                      HoldsCase, HoldsOffer
<1>7. \A q \in Requests \ {r} : Exclusive(r, q)'
    BY <1>4 DEF Exclusive, HoldsCase, HoldsOffer
<1> HIDE DEF mem
<1> QED
    BY <1>2, <1>3, <1>4, <1>6, <1>7, LocalStep DEF PCs

LEMMA BeginCreateOfferInv ==
    ASSUME Inv, NEW r \in Requests, NEW c \in Candidates,
           BeginCreateOffer(r, c)
    PROVE  Inv'
<1> DEFINE mem == [Nothing EXCEPT !.case = c, !.seen = candidate[c].version,
                      !.from = candidate[c].stage,
                      !.to = "offer_pending_approval"]
<1>1. candidate[c] \in CaseRow
    BY DEF Inv, TypeOK
<1>2. mem \in Request
    BY <1>1, NothingType DEF Request, Nothing, CaseRow, Stages
<1>3. pc' = [pc EXCEPT ![r] = "reserve"] /\ req' = [req EXCEPT ![r] = mem]
    BY DEF BeginCreateOffer, Goto
<1>4. pc'[r] = "reserve" /\ req'[r] = mem /\ UNCHANGED rows
    BY <1>3 DEF Inv, TypeOK, BeginCreateOffer
<1>5. /\ mem.case = c /\ mem.seen = candidate[c].version
      /\ mem.from = "interviewing" /\ mem.from = candidate[c].stage
      /\ mem.to = "offer_pending_approval"
    BY DEF Nothing, BeginCreateOffer
<1> HIDE DEF mem
<1>6. CaseRead(r)'
    <2>1. candidate' = candidate
          /\ CanTransition("interviewing", "offer_pending_approval")
        BY <1>4 DEF rows, CanTransition, AllowedTransitions, Stages
    <2> QED
        BY <1>1, <1>4, <1>5, <2>1 DEF CaseRead, CaseRow
<1>7. RequestOK(r)'
    BY <1>4, <1>5, <1>6 DEF RequestOK, OfferRead, CommandOK, Locked, Deciding,
                            HoldsCase, HoldsOffer
<1>8. \A q \in Requests \ {r} : Exclusive(r, q)'
    BY <1>4 DEF Exclusive, HoldsCase, HoldsOffer
<1> QED
    BY <1>2, <1>3, <1>4, <1>7, <1>8, LocalStep DEF PCs

LEMMA BeginDecisionInv ==
    ASSUME Inv, NEW r \in Requests, NEW o \in Offers, NEW a \in Actors,
           NEW verdict \in Verdicts, NEW v \in Versions,
           BeginDecision(r, o, a, verdict, v)
    PROVE  Inv'
<1> DEFINE mem == [Nothing EXCEPT !.offer = o, !.row = offers[o], !.actor = a,
                      !.verdict = verdict,
                      !.to = TargetStage(offers[o], verdict)]
<1>1. offers[o] \in OfferRow
    BY DEF Inv, TypeOK
<1>2. mem \in Request
    BY <1>1, NothingType, TargetType DEF Request, Nothing
<1>3. pc' = [pc EXCEPT ![r] = "decide"] /\ req' = [req EXCEPT ![r] = mem]
    BY DEF BeginDecision, Goto
<1>4. pc'[r] = "decide" /\ req'[r] = mem /\ UNCHANGED rows
    BY <1>3 DEF Inv, TypeOK, BeginDecision
<1>5. /\ mem.offer = o /\ mem.row = offers[o] /\ mem.actor = a
      /\ mem.verdict = verdict /\ mem.to = TargetStage(offers[o], verdict)
      /\ mem.case = NoCase
    BY DEF Nothing
<1> HIDE DEF mem
<1>6. OfferRead(r)'
    <2>1. offers' = offers /\ offers[o].status # "absent"
          /\ RoleOf[a] = RequiredRole[offers[o].step]
        BY <1>4 DEF rows, BeginDecision
    <2> QED
        BY <1>1, <1>4, <1>5, <2>1 DEF OfferRead, OfferRow
<1>7. RequestOK(r)'
    BY <1>4, <1>5, <1>6 DEF RequestOK, CaseRead, WritesCase, CommandOK,
                            Locked, HoldsCase, HoldsOffer
<1>8. \A q \in Requests \ {r} : Exclusive(r, q)'
    BY <1>4 DEF Exclusive, HoldsCase, HoldsOffer
<1> QED
    BY <1>2, <1>3, <1>4, <1>7, <1>8, LocalStep DEF PCs

(* MoveCase and ReserveCase: the UPDATE gets the lock and finds the version *)
LEMMA LockCaseInv ==
    ASSUME Inv, NEW r \in Requests, NEW label,
           \/ pc[r] = "move" /\ label = "moved"
           \/ pc[r] = "reserve" /\ label = "insert",
           CaseFree(r, req[r].case), CaseUnchanged(r),
           Goto(r, label), UNCHANGED <<req, rows>>
    PROVE  Inv'
<1>1. pc' = [pc EXCEPT ![r] = label] /\ req' = [req EXCEPT ![r] = req[r]]
    BY DEF Goto, Inv, TypeOK
<1>2. pc'[r] = label /\ req' = req /\ UNCHANGED rows
    BY <1>1 DEF Inv, TypeOK
<1>3. RequestOK(r)'
    BY <1>2 DEF Inv, RequestOK, OfferRead, CaseRead, CommandOK, Locked,
                Deciding, WritesCase, HoldsCase, HoldsOffer, CaseUnchanged, rows
<1>4. \A q \in Requests \ {r} : Exclusive(r, q)'
    <2> SUFFICES ASSUME NEW q \in Requests \ {r} PROVE Exclusive(r, q)'
        OBVIOUS
    <2>1. pc'[q] = pc[q]
        BY <1>1 DEF Inv, TypeOK
    <2> QED
        BY <1>2, <2>1 DEF Exclusive, HoldsCase, HoldsOffer, CaseFree
<1>5. req[r] \in Request /\ label \in PCs
    BY DEF Inv, TypeOK, PCs
<1> QED
    BY <1>1, <1>2, <1>3, <1>4, <1>5, LocalStep

LEMMA UpdateOfferInv ==
    ASSUME Inv, NEW r \in Requests, UpdateOffer(r)
    PROVE  Inv'
<1>1. CASE Rollback(r)
    BY <1>1, RollbackInv
<1>2. CASE /\ OfferUnchanged(r)
           /\ Goto(r, IF req[r].to = NoStage THEN "record" ELSE "sync")
           /\ UNCHANGED <<req, rows>>
    <2> DEFINE label == IF req[r].to = NoStage THEN "record" ELSE "sync"
    <2>1. pc' = [pc EXCEPT ![r] = label] /\ req' = [req EXCEPT ![r] = req[r]]
        BY <1>2 DEF Goto, Inv, TypeOK
    <2>2. pc'[r] = label /\ req' = req /\ UNCHANGED rows
        BY <1>2, <2>1 DEF Inv, TypeOK
    <2>3. /\ pc[r] = "decide" /\ OfferRead(r) /\ CommandOK(r)
          /\ OfferFree(r, req[r].offer)
        BY DEF UpdateOffer, Inv, RequestOK
    <2>4. RequestOK(r)'
        <3>1. OfferRead(r)'
            BY <2>2, <2>3 DEF OfferRead, Deciding, rows
        <3>2. CaseRead(r)'
            BY <2>2 DEF CaseRead, WritesCase
        <3>3. CommandOK(r)'
            BY <2>2, <2>3 DEF CommandOK
        <3>4. Locked(r)'
            BY <1>2, <2>2, <2>3, NullAssumption
               DEF Locked, CommandOK, HoldsCase, HoldsOffer, OfferUnchanged, rows
        <3> QED
            BY <3>1, <3>2, <3>3, <3>4 DEF RequestOK
    <2>5. \A q \in Requests \ {r} : Exclusive(r, q)'
        <3> SUFFICES ASSUME NEW q \in Requests \ {r} PROVE Exclusive(r, q)'
            OBVIOUS
        <3>1. pc'[q] = pc[q]
            BY <2>1 DEF Inv, TypeOK
        <3> QED
            BY <2>2, <2>3, <3>1, NullAssumption
               DEF Exclusive, CommandOK, HoldsCase, HoldsOffer, OfferFree
    <2>6. req[r] \in Request /\ label \in PCs
        BY DEF Inv, TypeOK, PCs
    <2> QED
        BY <2>1, <2>2, <2>4, <2>5, <2>6, LocalStep
<1> QED
    BY <1>1, <1>2 DEF UpdateOffer

LEMMA SyncCaseInv ==
    ASSUME Inv, NEW r \in Requests, SyncCase(r)
    PROVE  Inv'
<1> DEFINE c == req[r].row.case
<1>1. CASE Rollback(r)
    BY <1>1, RollbackInv
<1>2. CASE /\ CanTransition(candidate[c].stage, req[r].to)
           /\ req' = [req EXCEPT ![r].case = c,
                                 ![r].seen = candidate[c].version,
                                 ![r].from = candidate[c].stage]
           /\ Goto(r, "advance")
           /\ UNCHANGED rows
    <2> DEFINE mem == [req[r] EXCEPT !.case = c, !.seen = candidate[c].version,
                                     !.from = candidate[c].stage]
    <2>1. req[r] \in Request /\ pc[r] = "sync" /\ RequestOK(r)
        BY DEF Inv, TypeOK, SyncCase
    <2>2. c \in Candidates
        <3>1. OfferRead(r) /\ Locked(r) /\ HoldsOffer(r, req[r].offer)
            BY <2>1 DEF RequestOK, HoldsOffer
        <3>2. /\ req[r].offer \in Offers /\ req[r].row.status # "absent"
              /\ req[r].row = offers[req[r].offer]
            BY <2>1, <3>1 DEF OfferRead, Locked, Deciding
        <3> QED
            BY <3>2 DEF Inv, OfferOK
    <2>3. candidate[c] \in CaseRow
        BY <2>2 DEF Inv, TypeOK
    <2>4. mem \in Request
        BY <2>1, <2>2, <2>3 DEF Request, CaseRow
    <2>5. pc' = [pc EXCEPT ![r] = "advance"] /\ req' = [req EXCEPT ![r] = mem]
        BY <1>2 DEF Goto, Inv, TypeOK
    <2>6. pc'[r] = "advance" /\ req'[r] = mem /\ UNCHANGED rows
        BY <1>2, <2>5 DEF Inv, TypeOK
    <2>7. /\ mem.case = c /\ mem.seen = candidate[c].version
          /\ mem.from = candidate[c].stage
          /\ mem.to = req[r].to /\ mem.offer = req[r].offer
          /\ mem.row = req[r].row /\ mem.actor = req[r].actor
          /\ mem.verdict = req[r].verdict
        BY <2>1 DEF Request
    <2> HIDE DEF mem
    <2>8. RequestOK(r)'
        <3>1. OfferRead(r)'
            BY <2>1, <2>6, <2>7 DEF RequestOK, OfferRead, Deciding, rows
        <3>2. CaseRead(r)'
            <4>1. candidate' = candidate
                BY <2>6 DEF rows
            <4>2. candidate[c].version \in Nat /\ candidate[c].stage \in Stages
                BY <2>3 DEF CaseRow
            <4>3. /\ req'[r].case = c /\ req'[r].to = req[r].to
                  /\ req'[r].from = candidate[c].stage
                  /\ req'[r].seen = candidate[c].version
                BY <2>6, <2>7
            <4>4. CanTransition(req'[r].from, req'[r].to)
                BY <1>2, <4>3
            <4>5. candidate'[req'[r].case] = candidate[c]
                BY <4>1, <4>3
            <4> HIDE DEF c
            <4>6. req'[r].seen <= candidate'[req'[r].case].version
                BY <4>2, <4>3, <4>5
            <4> QED
                BY <2>2, <4>2, <4>3, <4>4, <4>5, <4>6 DEF CaseRead
        <3>3. CommandOK(r)'
            BY <2>1, <2>6, <2>7 DEF RequestOK, CommandOK
        <3>4. Locked(r)'
            BY <2>1, <2>6, <2>7
               DEF RequestOK, Locked, HoldsCase, HoldsOffer, rows
        <3> QED
            BY <3>1, <3>2, <3>3, <3>4 DEF RequestOK
    <2>9. \A q \in Requests \ {r} : Exclusive(r, q)'
        <3> SUFFICES ASSUME NEW q \in Requests \ {r} PROVE Exclusive(r, q)'
            OBVIOUS
        <3>1. pc'[q] = pc[q] /\ req'[q] = req[q]
            BY <2>5 DEF Inv, TypeOK
        <3>2. Exclusive(r, q)
            BY DEF Inv
        <3> QED
            BY <2>1, <2>6, <2>7, <3>1, <3>2
               DEF Exclusive, HoldsCase, HoldsOffer
    <2> QED
        BY <2>4, <2>5, <2>6, <2>8, <2>9, LocalStep DEF PCs
<1> QED
    BY <1>1, <1>2 DEF SyncCase

LEMMA AdvanceCaseInv ==
    ASSUME Inv, NEW r \in Requests, AdvanceCase(r)
    PROVE  Inv'
<1>1. CASE Rollback(r)
    BY <1>1, RollbackInv
<1>2. CASE CaseUnchanged(r) /\ Goto(r, "record") /\ UNCHANGED <<req, rows>>
    <2>1. /\ pc' = [pc EXCEPT ![r] = "record"]
          /\ req' = [req EXCEPT ![r] = req[r]]
        BY <1>2 DEF Goto, Inv, TypeOK
    <2>2. pc'[r] = "record" /\ req' = req /\ UNCHANGED rows
        BY <1>2, <2>1 DEF Inv, TypeOK
    <2>3. pc[r] = "advance" /\ RequestOK(r) /\ CaseFree(r, req[r].case)
        BY DEF AdvanceCase, Inv
    <2>4. RequestOK(r)'
        BY <1>2, <2>2, <2>3
           DEF RequestOK, OfferRead, CaseRead, CommandOK, Locked, Deciding,
               WritesCase, HoldsCase, HoldsOffer, CaseUnchanged, rows
    <2>5. \A q \in Requests \ {r} : Exclusive(r, q)'
        <3> SUFFICES ASSUME NEW q \in Requests \ {r} PROVE Exclusive(r, q)'
            OBVIOUS
        <3>1. pc'[q] = pc[q]
            BY <2>1 DEF Inv, TypeOK
        <3>2. Exclusive(r, q)
            BY DEF Inv
        <3> QED
            BY <2>2, <2>3, <3>1, <3>2
               DEF Exclusive, HoldsCase, HoldsOffer, CaseFree
    <2>6. req[r] \in Request
        BY DEF Inv, TypeOK
    <2> QED
        BY <2>1, <2>2, <2>4, <2>5, <2>6, LocalStep DEF PCs
<1> QED
    BY <1>1, <1>2 DEF AdvanceCase

-----------------------------------------------------------------------------
(* Steps that commit *)

(* The part of Inv about requests survives any commit of r that raises the  *)
(* version of each row it writes, writes only rows r has locked or offers   *)
(* that did not exist, and ends r.                                          *)
LEMMA CommitKeepsRequests ==
    ASSUME Inv, NEW r \in Requests, End(r),
           candidate' \in [Candidates -> CaseRow],
           offers' \in [Offers -> OfferRow],
           \A c \in Candidates :
              \/ candidate'[c] = candidate[c]
              \/ HoldsCase(r, c) /\ candidate'[c].version > candidate[c].version,
           \A o \in Offers :
              \/ offers'[o] = offers[o]
              \/ /\ HoldsOffer(r, o) \/ offers[o] = AbsentOffer
                 /\ offers'[o].version > offers[o].version
    PROVE  /\ pc' \in [Requests -> PCs] /\ req' \in [Requests -> Request]
           /\ \A q \in Requests : RequestOK(q)'
           /\ \A p, q \in Requests : p # q => Exclusive(p, q)'
<1>1. pc' = [pc EXCEPT ![r] = "idle"] /\ req' = [req EXCEPT ![r] = Nothing]
    BY DEF End, Goto
<1>2. pc' \in [Requests -> PCs] /\ req' \in [Requests -> Request]
    BY <1>1, NothingType DEF Inv, TypeOK, PCs
<1>3. pc'[r] = "idle"
    BY <1>1 DEF Inv, TypeOK
<1>4. \A q \in Requests : q # r => pc'[q] = pc[q] /\ req'[q] = req[q]
    BY <1>1 DEF Inv, TypeOK
<1>5. \A q \in Requests : RequestOK(q)'
    <2> SUFFICES ASSUME NEW q \in Requests PROVE RequestOK(q)'
        OBVIOUS
    <2>1. CASE q = r
        BY <1>3, <2>1 DEF RequestOK, OfferRead, CaseRead, CommandOK, Locked,
                          Deciding, WritesCase, HoldsCase, HoldsOffer
    <2>2. CASE q # r
        <3>1. pc'[q] = pc[q] /\ req'[q] = req[q] /\ req[q] \in Request
            BY <1>4, <2>2 DEF Inv, TypeOK
        <3>2. RequestOK(q) /\ Exclusive(r, q)
            BY <2>2 DEF Inv
        <3>3. OfferRead(q)'
            <4> SUFFICES ASSUME pc[q] \in Deciding PROVE OfferRead(q)'
                BY <3>1 DEF OfferRead
            <4> DEFINE o == req[q].offer
            <4>1. OfferRead(q) /\ o \in Offers
                BY <3>2 DEF RequestOK, OfferRead
            <4>2. /\ offers[o].version \in Nat /\ offers'[o].version \in Nat
                  /\ req[q].row.version \in Nat
                BY <3>1, <4>1 DEF Inv, TypeOK, OfferRow, Request
            <4>3. offers'[o] = offers[o]
                  \/ offers'[o].version > offers[o].version
                BY <4>1
            <4> QED
                BY <3>1, <4>1, <4>2, <4>3 DEF OfferRead
        <3>4. CaseRead(q)'
            <4> SUFFICES ASSUME WritesCase(q) PROVE CaseRead(q)'
                BY <3>1 DEF CaseRead, WritesCase
            <4> DEFINE c == req[q].case
            <4>1. CaseRead(q) /\ c \in Candidates
                BY <3>2 DEF RequestOK, CaseRead
            <4>2. /\ candidate[c].version \in Nat /\ req[q].seen \in Nat
                  /\ candidate'[c].version \in Nat
                BY <3>1, <4>1 DEF Inv, TypeOK, CaseRow, Request
            <4>3. candidate'[c] = candidate[c]
                  \/ candidate'[c].version > candidate[c].version
                BY <4>1
            <4> QED
                BY <3>1, <4>1, <4>2, <4>3 DEF CaseRead
        <3>5. CommandOK(q)'
            BY <3>1, <3>2 DEF RequestOK, CommandOK
        <3>6. Locked(q)'
            <4>1. ASSUME NEW c \in Candidates, HoldsCase(q, c)
                  PROVE  candidate'[c] = candidate[c]
                BY <3>2, <4>1 DEF Exclusive
            <4>2. ASSUME NEW o \in Offers, HoldsOffer(q, o)
                  PROVE  offers'[o] = offers[o]
                <5>1. pc[q] \in Deciding /\ req[q].offer = o
                    BY <4>2 DEF HoldsOffer, Deciding
                <5>2. offers[o].status # "absent"
                    BY <3>2, <4>2, <5>1 DEF RequestOK, OfferRead, Locked
                <5> QED
                    BY <3>2, <4>2, <5>2 DEF Exclusive, AbsentOffer
            <4>3. /\ \A c \in Candidates : HoldsCase(q, c)' <=> HoldsCase(q, c)
                  /\ \A o \in Offers : HoldsOffer(q, o)' <=> HoldsOffer(q, o)
                BY <3>1 DEF HoldsCase, HoldsOffer
            <4> QED
                BY <3>1, <3>2, <4>1, <4>2, <4>3 DEF RequestOK, Locked
        <3> QED
            BY <3>3, <3>4, <3>5, <3>6 DEF RequestOK
    <2> QED
        BY <2>1, <2>2
<1>6. \A p, q \in Requests : p # q => Exclusive(p, q)'
    <2> SUFFICES ASSUME NEW p \in Requests, NEW q \in Requests, p # q
                 PROVE  Exclusive(p, q)'
        OBVIOUS
    <2>1. CASE p = r \/ q = r
        BY <1>3, <2>1 DEF Exclusive, HoldsCase, HoldsOffer
    <2>2. CASE p # r /\ q # r
        <3>1. Exclusive(p, q)
            BY DEF Inv
        <3> QED
            BY <1>4, <2>2, <3>1 DEF Exclusive, HoldsCase, HoldsOffer
    <2> QED
        BY <2>1, <2>2
<1> QED
    BY <1>2, <1>5, <1>6

(* A case that a transaction writes is the one it has locked, at the version *)
(* and stage it read; the row it leaves is one move of the state machine on. *)
LEMMA CaseWrite ==
    ASSUME Inv, NEW r \in Requests,
           \/ pc[r] \in {"moved", "insert"}
           \/ pc[r] = "record" /\ req[r].to # NoStage
    PROVE  LET c == req[r].case IN
           /\ c \in Candidates
           /\ HoldsCase(r, c)
           /\ candidate[c].version = req[r].seen
           /\ req[r].from = candidate[c].stage
           /\ CanTransition(candidate[c].stage, req[r].to)
           /\ CaseWritten(r) \in [Candidates -> CaseRow]
           /\ CaseWritten(r)[c].stage = req[r].to
           /\ CaseWritten(r)[c].version = candidate[c].version + 1
           /\ \A d \in Candidates \ {c} : CaseWritten(r)[d] = candidate[d]
<1> DEFINE c == req[r].case
<1>1. WritesCase(r) /\ CaseRead(r) /\ Locked(r) /\ HoldsCase(r, c)
    BY DEF WritesCase, Inv, RequestOK, HoldsCase
<1>2. /\ c \in Candidates
      /\ CanTransition(req[r].from, req[r].to) /\ req[r].from \in Stages
      /\ candidate[c].version = req[r].seen
      /\ req[r].from = candidate[c].stage
    BY <1>1 DEF CaseRead, Locked
<1>3. req[r].to \in Stages
    BY <1>2, Transitions
<1>4. candidate \in [Candidates -> CaseRow] /\ req[r].seen \in Nat
    BY DEF Inv, TypeOK, Request
<1>5. [stage |-> req[r].to, version |-> req[r].seen + 1] \in CaseRow
    BY <1>3, <1>4 DEF CaseRow
<1>6. CaseWritten(r) \in [Candidates -> CaseRow]
    BY <1>4, <1>5 DEF CaseWritten
<1>7. CaseWritten(r)[c] = [stage |-> req[r].to, version |-> req[r].seen + 1]
      /\ \A d \in Candidates \ {c} : CaseWritten(r)[d] = candidate[d]
    BY <1>2, <1>4 DEF CaseWritten
<1> QED
    BY <1>1, <1>2, <1>6, <1>7

(* A move of a case keeps what the stages say about every offer             *)
LEMMA MoveKeepsStages ==
    ASSUME Inv, NEW r \in Requests,
           \/ pc[r] \in {"moved", "insert"}
           \/ pc[r] = "record" /\ req[r].to # NoStage,
           candidate' = CaseWritten(r),
           NEW o \in Offers, offers'[o] = offers[o]
    PROVE  StageOK(o)'
<1> DEFINE c == req[r].case
<1>1. /\ c \in Candidates /\ candidate[c] \in CaseRow
      /\ CanTransition(candidate[c].stage, req[r].to)
      /\ candidate'[c].stage = req[r].to
      /\ \A d \in Candidates \ {c} : candidate'[d] = candidate[d]
    BY CaseWrite DEF Inv, TypeOK
<1>2. StageOK(o) /\ OfferOK(o)
    BY DEF Inv
<1>3. CASE offers[o].case = c
    <2>1. candidate[c].stage \in Stages
        BY <1>1 DEF CaseRow
    <2> QED
        BY <1>1, <1>2, <1>3, <2>1, Transitions DEF StageOK
<1>4. CASE offers[o].case # c
    BY <1>1, <1>2, <1>4 DEF StageOK, OfferOK
<1> QED
    BY <1>3, <1>4

LEMMA CommitMoveInv ==
    ASSUME Inv, NEW r \in Requests, CommitMove(r)
    PROVE  Inv'
<1> DEFINE c == req[r].case
<1>1. pc[r] = "moved" /\ candidate' = CaseWritten(r) /\ End(r)
      /\ UNCHANGED <<offers, decisions, outbox>>
    BY DEF CommitMove
<1>2. /\ c \in Candidates /\ HoldsCase(r, c)
      /\ candidate' \in [Candidates -> CaseRow]
      /\ candidate'[c].version = candidate[c].version + 1
      /\ \A d \in Candidates \ {c} : candidate'[d] = candidate[d]
      /\ req[r].from = candidate[c].stage
      /\ CanTransition(candidate[c].stage, req[r].to)
    BY <1>1, CaseWrite
<1>3. candidate[c] \in CaseRow
    BY <1>2 DEF Inv, TypeOK
<1>4. /\ pc' \in [Requests -> PCs] /\ req' \in [Requests -> Request]
      /\ \A q \in Requests : RequestOK(q)'
      /\ \A p, q \in Requests : p # q => Exclusive(p, q)'
    <2>1. candidate'[c].version > candidate[c].version
        BY <1>2, <1>3 DEF CaseRow
    <2>2. offers' \in [Offers -> OfferRow]
        BY <1>1 DEF Inv, TypeOK
    <2>3. \A d \in Candidates :
             \/ candidate'[d] = candidate[d]
             \/ HoldsCase(r, d) /\ candidate'[d].version > candidate[d].version
        BY <1>2, <2>1
    <2>4. \A o \in Offers :
             \/ offers'[o] = offers[o]
             \/ /\ HoldsOffer(r, o) \/ offers[o] = AbsentOffer
                /\ offers'[o].version > offers[o].version
        BY <1>1
    <2> HIDE DEF c
    <2> QED
        BY <1>1, <1>2, <2>2, <2>3, <2>4, CommitKeepsRequests
<1>5. TypeOK'
    <2>1. [case |-> c, from |-> req[r].from, to |-> req[r].to] \in AuditEvent
        <3>1. candidate[c].stage \in Stages
            BY <1>3 DEF CaseRow
        <3>2. req[r].to \in Stages
            BY <1>2, <3>1, Transitions
        <3> QED
            BY <1>2, <3>1, <3>2 DEF AuditEvent
    <2>2. audit' \subseteq AuditEvent
        BY <2>1 DEF CommitMove, Inv, TypeOK
    <2> QED
        BY <1>1, <1>2, <1>4, <2>2 DEF Inv, TypeOK
<1>6. \A o \in Offers : OfferOK(o)'
    BY <1>1 DEF Inv, OfferOK, Given, StepUndecided
<1>7. \A o \in Offers : StageOK(o)'
    <2> SUFFICES ASSUME NEW o \in Offers PROVE StageOK(o)'
        OBVIOUS
    <2>1. offers'[o] = offers[o]
        BY <1>1
    <2> QED
        BY <1>1, <2>1, MoveKeepsStages
<1> QED
    BY <1>4, <1>5, <1>6, <1>7 DEF Inv

LEMMA CommitOfferInv ==
    ASSUME Inv, NEW r \in Requests, NEW o \in Offers, CommitOffer(r, o)
    PROVE  Inv'
<1> DEFINE c == req[r].case
<1>1. /\ pc[r] = "insert" /\ candidate' = CaseWritten(r) /\ End(r)
      /\ offers[o] = AbsentOffer
      /\ offers' = [offers EXCEPT ![o] = Pending(c)]
      /\ UNCHANGED <<decisions, outbox, audit>>
    BY DEF CommitOffer
<1>2. /\ c \in Candidates /\ HoldsCase(r, c) /\ candidate[c] \in CaseRow
      /\ candidate' \in [Candidates -> CaseRow]
      /\ candidate'[c].version = candidate[c].version + 1
      /\ candidate'[c].stage = "offer_pending_approval"
      /\ \A d \in Candidates \ {c} : candidate'[d] = candidate[d]
    BY <1>1, CaseWrite DEF Inv, RequestOK, CommandOK, TypeOK
<1>3. /\ Pending(c) \in OfferRow /\ Pending(c).version = 1
      /\ Pending(c).case = c /\ Pending(c).status = "pending_approval"
      /\ Pending(c).step = 1
    BY <1>2 DEF Pending, OfferRow, Steps
<1>4. /\ offers' \in [Offers -> OfferRow] /\ offers'[o] = Pending(c)
      /\ \A p \in Offers \ {o} : offers'[p] = offers[p]
    BY <1>1, <1>3 DEF Inv, TypeOK
<1>5. /\ pc' \in [Requests -> PCs] /\ req' \in [Requests -> Request]
      /\ \A q \in Requests : RequestOK(q)'
      /\ \A p, q \in Requests : p # q => Exclusive(p, q)'
    <2>1. candidate'[c].version > candidate[c].version
        BY <1>2 DEF CaseRow
    <2>2. offers'[o].version > offers[o].version
        BY <1>1, <1>3, <1>4 DEF AbsentOffer
    <2>3. \A d \in Candidates :
             \/ candidate'[d] = candidate[d]
             \/ HoldsCase(r, d) /\ candidate'[d].version > candidate[d].version
        BY <1>2, <2>1
    <2>4. \A p \in Offers :
             \/ offers'[p] = offers[p]
             \/ /\ HoldsOffer(r, p) \/ offers[p] = AbsentOffer
                /\ offers'[p].version > offers[p].version
        BY <1>1, <1>4, <2>2
    <2> HIDE DEF c
    <2> QED
        BY <1>1, <1>2, <1>4, <2>3, <2>4, CommitKeepsRequests
<1>6. TypeOK'
    BY <1>1, <1>2, <1>4, <1>5 DEF Inv, TypeOK
<1>7. \A p \in Offers : OfferOK(p)'
    <2> SUFFICES ASSUME NEW p \in Offers PROVE OfferOK(p)'
        OBVIOUS
    <2>1. CASE p = o
        <3>1. \A d \in decisions' : d.offer # o
            BY <1>1 DEF Inv, OfferOK, AbsentOffer
        <3> QED
            BY <1>2, <1>3, <1>4, <2>1, <3>1 DEF OfferOK
    <2>2. CASE p # o
        BY <1>1, <1>4, <2>2 DEF Inv, OfferOK, Given, StepUndecided
    <2> QED
        BY <2>1, <2>2
<1>8. \A p \in Offers : StageOK(p)'
    <2> SUFFICES ASSUME NEW p \in Offers PROVE StageOK(p)'
        OBVIOUS
    <2>1. CASE p = o
        BY <1>2, <1>3, <1>4, <2>1 DEF StageOK
    <2>2. CASE p # o
        <3>1. offers'[p] = offers[p]
            BY <1>4, <2>2
        <3> QED
            BY <1>1, <3>1, MoveKeepsStages
    <2> QED
        BY <2>1, <2>2
<1> QED
    BY <1>5, <1>6, <1>7, <1>8 DEF Inv

(* What a decision that commits does: the offer it decides was pending at   *)
(* the step it read, nobody had decided that step, and its approver has the *)
(* role of that step.                                                       *)
LEMMA DecisionCommits ==
    ASSUME Inv, NEW r \in Requests, CommitDecision(r)
    PROVE  LET o == req[r].offer
               v == req[r].verdict
               row == offers[o]
           IN  /\ o \in Offers /\ v \in Verdicts
               /\ HoldsOffer(r, o)
               /\ row = req[r].row /\ row \in OfferRow
               /\ row.status = "pending_approval"
               /\ row.case \in Candidates
               /\ req[r].to = TargetStage(row, v)
               /\ req[r].actor \in Actors
               /\ RoleOf[req[r].actor] = RequiredRole[row.step]
               /\ offers' = [offers EXCEPT ![o] = Decided(row, v)]
               /\ decisions' = decisions \cup
                     {[offer |-> o, step |-> row.step, actor |-> req[r].actor,
                       decision |-> v]}
               /\ StepUndecided(o, row.step)
<1> DEFINE o == req[r].offer
           v == req[r].verdict
<1>1. pc[r] = "record" /\ req[r] \in Request /\ RequestOK(r)
    BY DEF CommitDecision, Inv, TypeOK
<1>2. OfferRead(r) /\ Locked(r) /\ HoldsOffer(r, o) /\ v \in Verdicts
    BY <1>1 DEF RequestOK, HoldsOffer, Request
<1>3. /\ o \in Offers /\ req[r].row.status # "absent"
      /\ req[r].row = offers[o] /\ req[r].actor \in Actors
      /\ RoleOf[req[r].actor] = RequiredRole[req[r].row.step]
      /\ req[r].to = TargetStage(req[r].row, v)
    BY <1>1, <1>2 DEF OfferRead, Locked, Deciding
<1>4. offers[o] \in OfferRow /\ OfferOK(o)
    BY <1>3 DEF Inv, TypeOK
<1>5. StepUndecided(o, offers[o].step)
    BY <1>3 DEF CommitDecision
<1>6. offers[o].status = "pending_approval" /\ offers[o].case \in Candidates
    BY <1>3, <1>4, <1>5 DEF OfferOK, OfferRow
<1> HIDE DEF o, v
<1>7. /\ offers' = [offers EXCEPT ![o] = Decided(offers[o], v)]
      /\ decisions' = decisions \cup
            {[offer |-> o, step |-> offers[o].step, actor |-> req[r].actor,
              decision |-> v]}
    BY <1>3 DEF CommitDecision, o, v
<1> QED
    BY <1>2, <1>3, <1>4, <1>5, <1>6, <1>7 DEF o, v

(* The decisions a pending offer has once a verdict is recorded             *)
LEMMA DecisionKeepsOffers ==
    ASSUME Inv, NEW r \in Requests, CommitDecision(r), NEW p \in Offers
    PROVE  OfferOK(p)'
<1> DEFINE o == req[r].offer
           v == req[r].verdict
           row == offers[o]
           d == [offer |-> o, step |-> row.step, actor |-> req[r].actor,
                 decision |-> v]
<1>1. /\ o \in Offers /\ v \in Verdicts /\ row \in OfferRow
      /\ row.status = "pending_approval" /\ row.case \in Candidates
      /\ RoleOf[req[r].actor] = RequiredRole[row.step]
      /\ offers' = [offers EXCEPT ![o] = Decided(row, v)]
      /\ decisions' = decisions \cup {d}
    BY DecisionCommits
<1>2. OfferOK(p) /\ OfferOK(o)
    BY <1>1 DEF Inv
<1>3. d.offer = o /\ d.step = row.step /\ d.decision = v
      /\ RoleOf[d.actor] = RequiredRole[d.step]
    BY <1>1
<1>4. d \in decisions' /\ \A e \in decisions' : e \in decisions \/ e = d
    BY <1>1
<1> HIDE DEF d
<1>5. offers \in [Offers -> OfferRow]
    BY DEF Inv, TypeOK
<1>6. CASE p # o
    <2>1. offers'[p] = offers[p]
        BY <1>1, <1>5, <1>6
    <2>2. \A e \in decisions' : e.offer = p => e \in decisions
        BY <1>3, <1>4, <1>6
    <2>3. decisions \subseteq decisions'
        BY <1>1
    <2> QED
        BY <1>2, <2>1, <2>2, <2>3 DEF OfferOK, Given, StepUndecided
<1>7. CASE p = o
    <2> DEFINE new == Decided(row, v)
    <2>1. offers'[p] = new
        BY <1>1, <1>5, <1>7
    <2>2. /\ new \in OfferRow /\ new.version = row.version + 1
          /\ new.case = row.case
          /\ v = "rejected" => new.status = "rejected" /\ new.step = row.step
          /\ v = "approved" /\ row.step = 2 =>
                new.status = "approved" /\ new.step = 2
          /\ v = "approved" /\ row.step = 1 =>
                new.status = row.status /\ new.step = 2
        BY <1>1, DecidedRow
    <2>3. new.version >= 1 /\ row.step \in {1, 2}
        BY <1>1, <2>2 DEF OfferRow, Steps
    <2> HIDE DEF new
    <2>4. \A e \in decisions : e.offer = o =>
             e.step < row.step /\ e.decision = "approved" /\ e.step \in Nat
        BY <1>1, <1>2 DEF OfferOK, Inv, TypeOK, Decision, Steps
    <2>5. CASE v = "rejected"
        <3>1. \E e \in decisions' : e.offer = p /\ e.step = new.step
            BY <1>3, <1>4, <1>7, <2>2, <2>5
        <3> QED
            BY <1>1, <2>1, <2>2, <2>3, <2>5, <3>1 DEF OfferOK, StepUndecided
    <2>6. CASE v = "approved" /\ row.step = 2
        <3>1. Given(p, 2, "approved")' # {}
            BY <1>3, <1>4, <1>7, <2>6 DEF Given
        <3>2. Given(p, 1, "approved")' # {}
            BY <1>1, <1>2, <1>7, <2>6 DEF OfferOK, Given
        <3>3. \E e \in decisions' : e.offer = p /\ e.step = new.step
            BY <1>3, <1>4, <1>7, <2>2, <2>6
        <3>4. \A e \in decisions' : e.offer = p => e.decision = "approved"
            BY <1>3, <1>4, <1>7, <2>4, <2>6
        <3> QED
            BY <1>1, <2>1, <2>2, <2>3, <2>6, <3>1, <3>2, <3>3, <3>4
               DEF OfferOK, StepUndecided
    <2>7. CASE v = "approved" /\ row.step = 1
        <3>1. Given(p, 1, "approved")' # {}
            BY <1>3, <1>4, <1>7, <2>7 DEF Given
        <3>2. \A e \in decisions' : e.offer = p =>
                 e.step < 2 /\ e.decision = "approved"
            BY <1>3, <1>4, <1>7, <2>4, <2>7
        <3> QED
            BY <1>1, <2>1, <2>2, <2>3, <2>7, <3>1, <3>2
               DEF OfferOK, StepUndecided
    <2> QED
        BY <1>1, <2>3, <2>5, <2>6, <2>7 DEF Verdicts
<1> QED
    BY <1>6, <1>7

LEMMA DecisionKeepsStages ==
    ASSUME Inv, NEW r \in Requests, CommitDecision(r), NEW p \in Offers
    PROVE  StageOK(p)'
<1> DEFINE o == req[r].offer
           v == req[r].verdict
           row == offers[o]
           c == row.case
<1>1. /\ o \in Offers /\ v \in Verdicts /\ row \in OfferRow
      /\ row.status = "pending_approval" /\ c \in Candidates
      /\ req[r].to = TargetStage(row, v) /\ req[r].row = row
      /\ offers' = [offers EXCEPT ![o] = Decided(row, v)]
    BY DecisionCommits
<1>2. offers \in [Offers -> OfferRow] /\ pc[r] = "record" /\ CommandOK(r)
      /\ StageOK(p) /\ StageOK(o)
    BY <1>1 DEF Inv, TypeOK, RequestOK, CommitDecision
<1>3. offers'[o] = Decided(row, v) /\ (p # o => offers'[p] = offers[p])
    BY <1>1, <1>2
<1>4. row.step \in {1, 2}
    BY <1>1 DEF OfferRow, Steps
<1>5. CASE req[r].to = NoStage
    <2>1. candidate' = candidate
        BY <1>5 DEF CommitDecision
    <2>2. v = "approved" /\ row.step = 1
        BY <1>1, <1>4, <1>5, DecidedRow DEF Verdicts, NoStage
    <2>3. offers'[o].status = row.status /\ offers'[o].case = c
        BY <1>1, <1>3, <2>2, DecidedRow
    <2> QED
        BY <1>2, <1>3, <2>1, <2>3 DEF StageOK
<1>6. CASE req[r].to # NoStage
    <2>1. candidate' = CaseWritten(r) /\ req[r].case = c
        BY <1>1, <1>2, <1>6 DEF CommitDecision, CommandOK
    <2>2. CASE p # o
        BY <1>2, <1>3, <1>6, <2>1, <2>2, MoveKeepsStages
    <2>3. CASE p = o
        <3>1. candidate'[c].stage = req[r].to
            BY <1>2, <1>6, <2>1, CaseWrite
        <3>2. offers'[o].case = c
            BY <1>1, <1>3, DecidedRow
        <3>3. CASE v = "rejected"
            <4>1. offers'[o].status = "rejected" /\ req[r].to = "offer_rejected"
                BY <1>1, <1>3, <3>3, DecidedRow
            <4> QED
                BY <2>3, <3>1, <3>2, <4>1 DEF StageOK
        <3>4. CASE v = "approved"
            <4>1. row.step = 2
                BY <1>1, <1>4, <1>6, <3>4, DecidedRow
            <4>2. offers'[o].status = "approved" /\ req[r].to = "offer_approved"
                BY <1>1, <1>3, <3>4, <4>1, DecidedRow
            <4> QED
                BY <2>3, <3>1, <3>2, <4>2 DEF StageOK
        <3> QED
            BY <1>1, <3>3, <3>4 DEF Verdicts
    <2> QED
        BY <2>2, <2>3
<1> QED
    BY <1>5, <1>6

LEMMA CommitDecisionInv ==
    ASSUME Inv, NEW r \in Requests, CommitDecision(r)
    PROVE  Inv'
<1> DEFINE o == req[r].offer
           v == req[r].verdict
           row == offers[o]
           c == req[r].case
<1>1. /\ o \in Offers /\ v \in Verdicts /\ row \in OfferRow
      /\ HoldsOffer(r, o) /\ req[r].row = row /\ req[r].actor \in Actors
      /\ offers' = [offers EXCEPT ![o] = Decided(row, v)]
    BY DecisionCommits
<1>2. /\ offers \in [Offers -> OfferRow] /\ pc[r] = "record"
      /\ candidate \in [Candidates -> CaseRow] /\ End(r) /\ UNCHANGED audit
    BY DEF Inv, TypeOK, CommitDecision
<1>3. Decided(row, v) \in OfferRow /\ Decided(row, v).version = row.version + 1
    BY <1>1, DecidedRow
<1>4. /\ offers' \in [Offers -> OfferRow]
      /\ \A p \in Offers :
            \/ offers'[p] = offers[p]
            \/ /\ HoldsOffer(r, p) \/ offers[p] = AbsentOffer
               /\ offers'[p].version > offers[p].version
    <2>1. offers' \in [Offers -> OfferRow] /\ offers'[o] = Decided(row, v)
          /\ \A p \in Offers \ {o} : offers'[p] = offers[p]
        BY <1>1, <1>2, <1>3
    <2>2. offers'[o].version > offers[o].version
        BY <1>1, <1>3, <2>1 DEF OfferRow
    <2> HIDE DEF o
    <2> QED
        BY <1>1, <2>1, <2>2
<1>5. /\ candidate' \in [Candidates -> CaseRow]
      /\ \A d \in Candidates :
            \/ candidate'[d] = candidate[d]
            \/ HoldsCase(r, d) /\ candidate'[d].version > candidate[d].version
    <2>1. CASE req[r].to = NoStage
        BY <1>2, <2>1 DEF CommitDecision
    <2>2. CASE req[r].to # NoStage
        <3>1. candidate' = CaseWritten(r)
            BY <2>2 DEF CommitDecision
        <3>2. /\ c \in Candidates /\ HoldsCase(r, c)
              /\ candidate' \in [Candidates -> CaseRow]
              /\ candidate'[c].version = candidate[c].version + 1
              /\ \A d \in Candidates \ {c} : candidate'[d] = candidate[d]
            BY <1>2, <2>2, <3>1, CaseWrite
        <3>3. candidate'[c].version > candidate[c].version
            BY <1>2, <3>2 DEF CaseRow
        <3> HIDE DEF c
        <3> QED
            BY <3>2, <3>3
    <2> QED
        BY <2>1, <2>2
<1>6. /\ pc' \in [Requests -> PCs] /\ req' \in [Requests -> Request]
      /\ \A q \in Requests : RequestOK(q)'
      /\ \A p, q \in Requests : p # q => Exclusive(p, q)'
    BY <1>2, <1>4, <1>5, CommitKeepsRequests
<1>7. TypeOK'
    <2>1. [offer |-> o, step |-> row.step, actor |-> req[r].actor,
           decision |-> v] \in Decision
          /\ [offer |-> o, decision |-> v, actor |-> req[r].actor] \in Event
        BY <1>1 DEF Decision, Event, OfferRow
    <2>2. decisions' \subseteq Decision /\ outbox' \in Seq(Event)
        BY <1>1, <2>1 DEF CommitDecision, Inv, TypeOK
    <2> QED
        BY <1>2, <1>4, <1>5, <1>6, <2>2 DEF Inv, TypeOK
<1> QED
    BY <1>6, <1>7, DecisionKeepsOffers, DecisionKeepsStages DEF Inv

-----------------------------------------------------------------------------
(* The invariant *)

(* Every step of a request, by the action it takes *)
LEMMA NextCases ==
    ASSUME Next
    PROVE  \E r \in Requests :
             \/ \E c \in Candidates, t \in Stages, v \in Versions :
                   BeginTransition(r, c, t, v)
             \/ \E c \in Candidates : BeginCreateOffer(r, c)
             \/ \E o \in Offers, a \in Actors, verdict \in Verdicts,
                   v \in Versions : BeginDecision(r, o, a, verdict, v)
             \/ MoveCase(r) \/ ReserveCase(r) \/ UpdateOffer(r)
             \/ SyncCase(r) \/ AdvanceCase(r)
             \/ CommitMove(r)
             \/ \E o \in Offers : CommitOffer(r, o)
             \/ CommitDecision(r)
             \/ Rollback(r)
BY DEF Next, Begin, LockingStep, FreeStep, InsertDecisionFails, Crash

LEMMA NextInv == Inv /\ [Next]_vars => Inv'
<1> SUFFICES ASSUME Inv, [Next]_vars PROVE Inv'
    OBVIOUS
<1>1. CASE UNCHANGED vars
    BY <1>1 DEF vars, Inv, TypeOK, RequestOK, OfferRead, CaseRead, CommandOK,
                Locked, Exclusive, OfferOK, StageOK, WritesCase, HoldsCase,
                HoldsOffer, Given, StepUndecided
<1>2. CASE Next
    <2> PICK r \in Requests :
             \/ \E c \in Candidates, t \in Stages, v \in Versions :
                   BeginTransition(r, c, t, v)
             \/ \E c \in Candidates : BeginCreateOffer(r, c)
             \/ \E o \in Offers, a \in Actors, verdict \in Verdicts,
                   v \in Versions : BeginDecision(r, o, a, verdict, v)
             \/ MoveCase(r) \/ ReserveCase(r) \/ UpdateOffer(r)
             \/ SyncCase(r) \/ AdvanceCase(r)
             \/ CommitMove(r)
             \/ \E o \in Offers : CommitOffer(r, o)
             \/ CommitDecision(r)
             \/ Rollback(r)
        BY <1>2, NextCases
    <2>1. ASSUME NEW c \in Candidates, NEW t \in Stages, NEW v \in Versions,
                 BeginTransition(r, c, t, v)
          PROVE  Inv'
        BY <2>1, BeginTransitionInv
    <2>2. ASSUME NEW c \in Candidates, BeginCreateOffer(r, c) PROVE Inv'
        BY <2>2, BeginCreateOfferInv
    <2>3. ASSUME NEW o \in Offers, NEW a \in Actors, NEW verdict \in Verdicts,
                 NEW v \in Versions, BeginDecision(r, o, a, verdict, v)
          PROVE  Inv'
        BY <2>3, BeginDecisionInv
    <2>4. CASE MoveCase(r)
        BY <2>4, LockCaseInv, RollbackInv DEF MoveCase
    <2>5. CASE ReserveCase(r)
        BY <2>5, LockCaseInv, RollbackInv DEF ReserveCase
    <2>6. CASE UpdateOffer(r) \/ SyncCase(r) \/ AdvanceCase(r)
        BY <2>6, UpdateOfferInv, SyncCaseInv, AdvanceCaseInv
    <2>7. CASE CommitMove(r)
        BY <2>7, CommitMoveInv
    <2>8. ASSUME NEW o \in Offers, CommitOffer(r, o) PROVE Inv'
        BY <2>8, CommitOfferInv
    <2>9. CASE CommitDecision(r)
        BY <2>9, CommitDecisionInv
    <2>10. CASE Rollback(r)
        BY <2>10, RollbackInv
    <2> QED
        BY <2>1, <2>2, <2>3, <2>4, <2>5, <2>6, <2>7, <2>8, <2>9, <2>10
<1> QED
    BY <1>1, <1>2 DEF vars

(* Inv holds in every reachable state, for any values of the constants.     *)
THEOREM Invariance == Spec => []Inv
BY InitInv, NextInv, PTL DEF Spec

-----------------------------------------------------------------------------
(* The properties of the runs, for any values of the constants *)

(* Rows, records and the memory of requests have their types.               *)
THEOREM TypeCorrect == Spec => []TypeOK
<1>1. Inv => TypeOK
    BY DEF Inv
<1> QED
    BY <1>1, Invariance, PTL

(* An offer is approved only by two different members, a hiring manager and *)
(* then a tenant admin, however many decisions race on it.                  *)
THEOREM TwoApprovals == Spec => []ApprovedByBoth
<1>1. Inv => ApprovedByBoth
    <2> SUFFICES ASSUME Inv, NEW o \in Offers, offers[o].status = "approved"
                 PROVE  /\ \E d \in Given(o, 1, "approved"),
                              e \in Given(o, 2, "approved") : d.actor # e.actor
                        /\ \A d \in decisions :
                              d.offer = o => d.decision = "approved"
        BY DEF ApprovedByBoth
    <2>1. /\ Given(o, 1, "approved") # {} /\ Given(o, 2, "approved") # {}
          /\ \A d \in decisions : d.offer = o => d.decision = "approved"
        BY DEF Inv, OfferOK
    <2>2. PICK d \in Given(o, 1, "approved"), e \in Given(o, 2, "approved") :
                TRUE
        BY <2>1
    <2>3. RoleOf[d.actor] = "hiring_manager"
          /\ RoleOf[e.actor] = "tenant_admin"
        BY <2>2 DEF Given, RequiredRole
    <2> QED
        BY <2>1, <2>2, <2>3
<1> QED
    BY <1>1, Invariance, PTL

(* The offer row and the case row of a final decision never come apart.     *)
THEOREM RowsStayTogether == Spec => []OfferAndCaseAgree
<1>1. Inv => OfferAndCaseAgree
    BY DEF Inv, StageOK, OfferAndCaseAgree
<1> QED
    BY <1>1, Invariance, PTL

(* No creation of an offer meets the unique constraint on its case.         *)
THEOREM OneOfferPerCase == Spec => []OfferInsertNeverConflicts
<1>1. Inv => OfferInsertNeverConflicts
    <2> SUFFICES ASSUME Inv, NEW r \in Requests, pc[r] = "insert",
                        NEW o \in Offers
                 PROVE  offers[o].case # req[r].case
        BY DEF OfferInsertNeverConflicts, CaseHasNoOffer
    <2>1. req[r].case \in Candidates
          /\ candidate[req[r].case].stage = "interviewing"
        BY CaseWrite DEF Inv, RequestOK, CommandOK
    <2>2. offers[o].status = "absent" => offers[o].case \notin Candidates
        BY NullAssumption DEF Inv, OfferOK, AbsentOffer
    <2> QED
        BY <2>1, <2>2 DEF Inv, StageOK
<1> QED
    BY <1>1, Invariance, PTL

(* Steps that touch no row of a case or of an offer, and commits            *)
LEMMA RowsChangeByCommits ==
    ASSUME Next
    PROVE  \/ UNCHANGED <<candidate, offers, decisions>>
           \/ \E r \in Requests :
                 \/ CommitMove(r) \/ CommitDecision(r)
                 \/ \E o \in Offers : CommitOffer(r, o)
<1>1. \A r \in Requests, c \in Candidates, t \in Stages, v \in Versions :
         BeginTransition(r, c, t, v) => UNCHANGED rows
    BY DEF BeginTransition
<1>2. \A r \in Requests, c \in Candidates :
         BeginCreateOffer(r, c) => UNCHANGED rows
    BY DEF BeginCreateOffer
<1>3. \A r \in Requests, o \in Offers, a \in Actors, verdict \in Verdicts,
         v \in Versions : BeginDecision(r, o, a, verdict, v) => UNCHANGED rows
    BY DEF BeginDecision
<1>4. \A r \in Requests :
         MoveCase(r) \/ ReserveCase(r) \/ UpdateOffer(r) \/ SyncCase(r)
            \/ AdvanceCase(r) \/ Rollback(r) => UNCHANGED rows
    BY DEF MoveCase, ReserveCase, UpdateOffer, SyncCase, AdvanceCase, Rollback
<1> QED
    BY NextCases, <1>1, <1>2, <1>3, <1>4 DEF rows

(* A case only moves along the state machine, whoever races on it.          *)
THEOREM MachineFollowed == Spec => StagesFollowTheMachine
<1> DEFINE Follows ==
        \A c \in Candidates : candidate'[c].stage # candidate[c].stage
            => CanTransition(candidate[c].stage, candidate'[c].stage)
<1>1. ASSUME Inv, [Next]_vars PROVE [Follows]_vars
    <2>1. ASSUME NEW r \in Requests, candidate' = CaseWritten(r),
                 \/ pc[r] \in {"moved", "insert"}
                 \/ pc[r] = "record" /\ req[r].to # NoStage
          PROVE  Follows
        <3>1. LET c == req[r].case IN
                 /\ CanTransition(candidate[c].stage, req[r].to)
                 /\ candidate'[c].stage = req[r].to
                 /\ \A d \in Candidates \ {c} : candidate'[d] = candidate[d]
            BY <1>1, <2>1, CaseWrite
        <3> QED
            BY <3>1
    <2>2. ASSUME UNCHANGED candidate PROVE Follows
        BY <2>2
    <2>3. CASE Next
        <3>1. ASSUME NEW r \in Requests, CommitMove(r) PROVE Follows
            BY <2>1, <3>1 DEF CommitMove
        <3>2. ASSUME NEW r \in Requests, NEW o \in Offers, CommitOffer(r, o)
              PROVE  Follows
            BY <2>1, <3>2 DEF CommitOffer
        <3>3. ASSUME NEW r \in Requests, CommitDecision(r) PROVE Follows
            BY <2>1, <2>2, <3>3 DEF CommitDecision
        <3> HIDE DEF Follows
        <3> QED
            BY <2>2, <2>3, <3>1, <3>2, <3>3, RowsChangeByCommits
    <2> QED
        BY <1>1, <2>3
<1> QED
    BY <1>1, Invariance, PTL DEF Spec, StagesFollowTheMachine

(* A decided offer never changes again.                                     *)
THEOREM DecidedNeverReopened == Spec => DecidedIsFinal
<1> DEFINE Final ==
        \A o \in Offers : offers[o].status \in {"approved", "rejected"}
            => offers'[o] = offers[o]
<1>1. ASSUME Inv, [Next]_vars PROVE [Final]_vars
    <2>1. CASE Next
        <3>1. ASSUME NEW r \in Requests, NEW o \in Offers, CommitOffer(r, o)
              PROVE  Final
            BY <3>1 DEF CommitOffer, Inv, TypeOK, AbsentOffer
        <3>2. ASSUME NEW r \in Requests, CommitDecision(r) PROVE Final
            <4>1. LET o == req[r].offer IN
                     /\ offers[o].status = "pending_approval"
                     /\ offers' = [offers EXCEPT ![o] =
                                      Decided(offers[o], req[r].verdict)]
                BY <1>1, <3>2, DecisionCommits
            <4> QED
                BY <1>1, <4>1 DEF Inv, TypeOK
        <3>3. ASSUME NEW r \in Requests, CommitMove(r) PROVE Final
            BY <3>3 DEF CommitMove
        <3> QED
            BY <2>1, <3>1, <3>2, <3>3, RowsChangeByCommits
    <2> QED
        BY <1>1, <2>1
<1> QED
    BY <1>1, Invariance, PTL DEF Spec, DecidedIsFinal

-----------------------------------------------------------------------------
(* Refinement: every step is a step of the flow of approvals, or none *)

LEMMA InitRefines == Init => Flow!Init
BY DEF Init, Flow!Init, Opened, AbsentOffer

(* A committed write of a case is a move of the flow                        *)
LEMMA WriteIsMove ==
    ASSUME Inv, NEW r \in Requests, candidate' = CaseWritten(r),
           \/ pc[r] \in {"moved", "insert"}
           \/ pc[r] = "record" /\ req[r].to # NoStage
    PROVE  req[r].case \in Candidates /\ Flow!Move(req[r].case, req[r].to)
<1> DEFINE c == req[r].case
<1>1. /\ c \in Candidates
      /\ CanTransition(candidate[c].stage, req[r].to)
      /\ candidate'[c].stage = req[r].to
      /\ \A d \in Candidates \ {c} : candidate'[d] = candidate[d]
    BY CaseWrite
<1> HIDE DEF c
<1>2. [d \in Candidates |-> candidate'[d].stage]
         = [[d \in Candidates |-> candidate[d].stage]
               EXCEPT ![c] = req[r].to]
    BY <1>1
<1> QED
    BY <1>1, <1>2 DEF Flow!Move, Flow!CanTransition, CanTransition,
                      Flow!AllowedTransitions, AllowedTransitions,
                      Flow!Stages, Stages, c

LEMMA MoveRefines ==
    ASSUME Inv, NEW r \in Requests, CommitMove(r)
    PROVE  Flow!Next
<1>1. req[r].case \in Candidates /\ Flow!Move(req[r].case, req[r].to)
    BY WriteIsMove DEF CommitMove
<1>2. req[r].to \in Stages
    BY CaseWrite, Transitions DEF CommitMove, Inv, TypeOK, CaseRow
<1>3. UNCHANGED <<offers, decisions>>
    BY DEF CommitMove
<1>4. \E c \in Candidates, to \in Stages : Flow!MoveCase(c, to)
    BY <1>1, <1>2, <1>3 DEF Flow!MoveCase, Flow!Move
<1> QED
    BY <1>4 DEF Flow!Next, Flow!Stages, Stages

LEMMA OpenRefines ==
    ASSUME Inv, NEW r \in Requests, NEW o \in Offers, CommitOffer(r, o)
    PROVE  Flow!Next
<1> DEFINE c == req[r].case
           Row(w) == [status |-> w.status, case |-> w.case]
<1>1. /\ c \in Candidates /\ Flow!Move(c, "offer_pending_approval")
      /\ candidate[c].stage = "interviewing"
    <2>1. req[r].from = "interviewing" /\ req[r].to = "offer_pending_approval"
        BY DEF CommitOffer, Inv, RequestOK, CommandOK
    <2> QED
        BY <2>1, WriteIsMove, CaseWrite DEF CommitOffer, Flow!Move
<1>2. /\ offers[o].status = "absent" /\ \A p \in Offers : offers[p].case # c
      /\ offers' = [offers EXCEPT ![o] = Pending(c)]
      /\ UNCHANGED decisions
    BY DEF CommitOffer, CaseHasNoOffer, AbsentOffer
<1>3. Row(Pending(c)) = [status |-> "pending_approval", case |-> c]
    BY DEF Pending
<1>4. [p \in Offers |-> Row(offers'[p])]
         = [[p \in Offers |-> Row(offers[p])] EXCEPT ![o] =
               [status |-> "pending_approval", case |-> c]]
    <2>1. /\ offers'[o] = Pending(c)
          /\ \A p \in Offers \ {o} : offers'[p] = offers[p]
        BY <1>2 DEF Inv, TypeOK
    <2> HIDE DEF c, Row
    <2> QED
        BY <1>3, <2>1
<1>5. \E d \in Candidates : Flow!Open(o, d)
    BY <1>1, <1>2, <1>4 DEF Flow!Open, Flow!Move
<1> QED
    BY <1>5 DEF Flow!Next

LEMMA DecisionRefines ==
    ASSUME Inv, NEW r \in Requests, CommitDecision(r)
    PROVE  Flow!Next
<1> DEFINE o == req[r].offer
           v == req[r].verdict
           a == req[r].actor
           row == offers[o]
           c == row.case
           Row(w) == [status |-> w.status, case |-> w.case]
<1>1. /\ o \in Offers /\ v \in Verdicts /\ a \in Actors
      /\ row \in OfferRow /\ row.status = "pending_approval"
      /\ req[r].row = row /\ req[r].to = TargetStage(row, v)
      /\ RoleOf[a] = RequiredRole[row.step]
      /\ offers' = [offers EXCEPT ![o] = Decided(row, v)]
      /\ decisions' = decisions \cup
            {[offer |-> o, step |-> row.step, actor |-> a, decision |-> v]}
      /\ StepUndecided(o, row.step)
    BY DecisionCommits
<1>2. row.step \in {1, 2}
    BY <1>1 DEF OfferRow, Steps
<1>3. Flow!Decide(o, row.step, a, v)
    <2>1. row.step \notin Flow!StepsTaken(o)
        BY <1>1 DEF Flow!StepsTaken, StepUndecided
    <2>2. \A s \in 1 .. (row.step - 1) : s \in Flow!StepsTaken(o)
        <3> SUFFICES ASSUME row.step = 2 PROVE 1 \in Flow!StepsTaken(o)
            BY <1>2
        <3>1. Given(o, 1, "approved") # {}
            BY <1>1 DEF Inv, OfferOK
        <3> QED
            BY <3>1 DEF Given, Flow!StepsTaken
    <2> HIDE DEF o, a, v
    <2> QED
        BY <1>1, <2>1, <2>2
           DEF Flow!Decide, Flow!Approvers, RequiredRole
<1>4. [p \in Offers |-> Row(offers'[p])]
         = [[p \in Offers |-> Row(offers[p])] EXCEPT
               ![o].status = Decided(row, v).status]
    <2>1. /\ offers'[o] = Decided(row, v)
          /\ \A p \in Offers \ {o} : offers'[p] = offers[p]
        BY <1>1 DEF Inv, TypeOK
    <2>2. Decided(row, v).case = row.case
        BY <1>1, DecidedRow
    <2>3. Row(offers'[o]) =
             [Row(offers[o]) EXCEPT !.status = Decided(row, v).status]
        BY <2>1, <2>2
    <2> HIDE DEF o, Row
    <2> QED
        BY <2>1, <2>3
<1>5. CASE req[r].to = NoStage
    <2>1. v = "approved" /\ row.step = 1
        BY <1>1, <1>2, <1>5, DecidedRow DEF Verdicts, NoStage
    <2>2. \A p \in Offers : Row(offers'[p]) = Row(offers[p])
        <3>1. /\ offers'[o] = Decided(row, v)
              /\ \A p \in Offers \ {o} : offers'[p] = offers[p]
            BY <1>1 DEF Inv, TypeOK
        <3>2. Decided(row, v).case = row.case
              /\ Decided(row, v).status = row.status
            BY <1>1, <2>1, DecidedRow
        <3> QED
            BY <3>1, <3>2
    <2>3. candidate' = candidate
        BY <1>5 DEF CommitDecision
    <2>4. \E p \in Offers, b \in Actors : Flow!ApproveFirst(p, b)
        BY <1>1, <1>3, <2>1, <2>2, <2>3 DEF Flow!ApproveFirst, Flow!Decide
    <2> QED
        BY <2>4 DEF Flow!Next
<1>6. CASE req[r].to # NoStage
    <2>1. Flow!Move(c, req[r].to)
        <3>1. candidate' = CaseWritten(r) /\ req[r].case = c
            BY <1>1, <1>6 DEF CommitDecision, Inv, RequestOK, CommandOK
        <3> QED
            BY <1>6, <3>1, WriteIsMove DEF CommitDecision
    <2>2. [p \in Offers |-> Row(offers[p])][o].case = c
        BY <1>1
    <2>3. CASE v = "rejected"
        <3>1. Decided(row, v).status = "rejected"
              /\ req[r].to = "offer_rejected"
            BY <1>1, <2>3, DecidedRow
        <3>2. Flow!Settle(o, "rejected", "offer_rejected")
            BY <1>4, <2>1, <2>2, <3>1 DEF Flow!Settle, Flow!Move
        <3>3. PICK p \in Offers, s \in {1, 2}, b \in Actors :
                    p = o /\ s = row.step /\ b = a
            BY <1>1, <1>2
        <3>4. Flow!Decide(p, s, b, "rejected")
            BY <1>3, <2>3, <3>3 DEF Flow!Decide
        <3>5. Flow!Settle(p, "rejected", "offer_rejected")
            BY <3>2, <3>3 DEF Flow!Settle, Flow!Move
        <3> QED
            BY <3>4, <3>5 DEF Flow!Next, Flow!Reject
    <2>4. CASE v = "approved"
        <3>1. row.step = 2
            BY <1>1, <1>2, <1>6, <2>4, DecidedRow
        <3>2. Decided(row, v).status = "approved"
              /\ req[r].to = "offer_approved"
            BY <1>1, <2>4, <3>1, DecidedRow
        <3>3. Flow!Settle(o, "approved", "offer_approved")
            BY <1>4, <2>1, <2>2, <3>2 DEF Flow!Settle, Flow!Move
        <3>4. PICK p \in Offers, b \in Actors : p = o /\ b = a
            BY <1>1
        <3>5. Flow!Decide(p, 2, b, "approved")
            BY <1>3, <2>4, <3>1, <3>4 DEF Flow!Decide
        <3>6. Flow!Settle(p, "approved", "offer_approved")
            BY <3>3, <3>4 DEF Flow!Settle, Flow!Move
        <3> QED
            BY <3>5, <3>6 DEF Flow!Next, Flow!ApproveLast
    <2> QED
        BY <1>1, <2>3, <2>4 DEF Verdicts
<1> QED
    BY <1>5, <1>6

(* The workflow of concurrent, interruptible transactions implements the    *)
(* flow in which every command is one step.                                 *)
THEOREM Refinement == Spec => ImplementsApprovalFlow
<1>1. ASSUME Inv, [Next]_vars PROVE [Flow!Next]_(Flow!vars)
    <2>1. CASE UNCHANGED <<candidate, offers, decisions>>
        BY <2>1 DEF Flow!vars
    <2>2. CASE Next
        BY <1>1, <2>1, <2>2, RowsChangeByCommits, MoveRefines, OpenRefines,
           DecisionRefines
    <2> QED
        BY <1>1, <2>1, <2>2 DEF vars
<1> QED
    BY <1>1, InitRefines, Invariance, PTL
       DEF Spec, ImplementsApprovalFlow, Flow!Spec

-----------------------------------------------------------------------------
(* The two counting properties: the version of a case is the number of      *)
(* commands that committed a stage for it, and the outbox is as long as the *)
(* record of decisions.                                                     *)
(*                                                                          *)
(* A count grows by one with a commit only if what the commit adds was not  *)
(* there.  For a decision the unique constraint says so, for an offer the   *)
(* fresh id, and for an audit record the state machine: a stage never comes *)
(* back, so a case is never moved out of the same stage twice.              *)

(* How far a stage is from the start; every transition goes further         *)
Rank == [s \in Stages |->
            CASE s = "applied" -> 1
              [] s = "screening" -> 2
              [] s = "interviewing" -> 3
              [] s = "offer_pending_approval" -> 4
              [] s \in {"offer_approved", "offer_rejected"} -> 5
              [] OTHER -> 6]

LEMMA TransitionsGoOn ==
    ASSUME NEW s \in Stages, NEW t, CanTransition(s, t)
    PROVE  /\ t \in Stages /\ Rank[s] \in Nat /\ Rank[t] \in Nat
           /\ Rank[s] < Rank[t]
BY DEF CanTransition, AllowedTransitions, Stages, Rank

-----------------------------------------------------------------------------
(* The inductive invariant *)

AuditOf(c) == {e \in audit : e.case = c}
OffersOf(c) == {o \in Offers : offers[o].case = c}
SettledOf(c) == {o \in Offers : offers[o].case = c /\
                     offers[o].status \in {"approved", "rejected"}}

(* The stages a case was moved from are behind it *)
PastIsPast ==
    \A e \in audit : Rank[e.from] < Rank[candidate[e.case].stage]

CaseCounts(c) ==
    /\ IsFiniteSet(AuditOf(c)) /\ IsFiniteSet(OffersOf(c))
    /\ candidate[c].version =
          1 + Cardinality(AuditOf(c)) + Cardinality(OffersOf(c))
            + Cardinality(SettledOf(c))

Counts ==
    /\ PastIsPast
    /\ \A c \in Candidates : CaseCounts(c)
    /\ IsFiniteSet(decisions)
    /\ OneEventPerDecision

LEMMA SettledFinite ==
    ASSUME NEW c, IsFiniteSet(OffersOf(c))
    PROVE  IsFiniteSet(SettledOf(c))
<1>1. SettledOf(c) \in SUBSET OffersOf(c)
    BY DEF SettledOf, OffersOf
<1> QED
    BY <1>1, FS_Subset

LEMMA InitCounts == Init => Counts
<1> SUFFICES ASSUME Init PROVE Counts
    OBVIOUS
<1>1. ASSUME NEW c \in Candidates PROVE CaseCounts(c)
    <2>1. AuditOf(c) = {}
        BY DEF Init, AuditOf
    <2>2. OffersOf(c) = {} /\ SettledOf(c) = {}
        BY NullAssumption DEF Init, OffersOf, SettledOf, AbsentOffer
    <2>3. candidate[c].version = 1
        BY DEF Init, Opened
    <2> QED
        BY <2>1, <2>2, <2>3, FS_EmptySet DEF CaseCounts
<1>2. PastIsPast /\ IsFiniteSet(decisions) /\ OneEventPerDecision
    BY FS_EmptySet DEF Init, PastIsPast, OneEventPerDecision
<1> QED
    BY <1>1, <1>2 DEF Counts

-----------------------------------------------------------------------------
(* The three commits *)

(* A stage that is written leaves behind the stages of the audit *)
LEMMA WritesLeaveThePast ==
    ASSUME Inv, PastIsPast, NEW r \in Requests,
           \/ pc[r] \in {"moved", "insert"}
           \/ pc[r] = "record" /\ req[r].to # NoStage,
           candidate' = CaseWritten(r),
           NEW e \in audit
    PROVE  Rank[e.from] < Rank[candidate'[e.case].stage]
<1> DEFINE c == req[r].case
<1>1. /\ c \in Candidates /\ candidate[c] \in CaseRow
      /\ CanTransition(candidate[c].stage, req[r].to)
      /\ candidate'[c].stage = req[r].to
      /\ \A d \in Candidates \ {c} : candidate'[d] = candidate[d]
    BY CaseWrite DEF Inv, TypeOK
<1>2. e.case \in Candidates /\ e.from \in Stages
    BY DEF Inv, TypeOK, AuditEvent
<1>3. Rank[e.from] < Rank[candidate[e.case].stage]
    BY DEF PastIsPast
<1>4. CASE e.case = c
    <2>1. candidate[c].stage \in Stages
        BY <1>1 DEF CaseRow
    <2>2. /\ Rank[candidate[c].stage] \in Nat /\ Rank[req[r].to] \in Nat
          /\ Rank[candidate[c].stage] < Rank[req[r].to]
        BY <1>1, <2>1, TransitionsGoOn
    <2>3. Rank[e.from] \in Nat
        BY <1>2 DEF Rank, Stages
    <2> QED
        BY <1>1, <1>3, <1>4, <2>2, <2>3
<1>5. CASE e.case # c
    BY <1>1, <1>2, <1>3, <1>5
<1> QED
    BY <1>4, <1>5

LEMMA CommitMoveCounts ==
    ASSUME Inv, Counts, NEW r \in Requests, CommitMove(r)
    PROVE  Counts'
<1> DEFINE c == req[r].case
           new == [case |-> c, from |-> req[r].from, to |-> req[r].to]
<1>1. /\ pc[r] = "moved" /\ candidate' = CaseWritten(r)
      /\ audit' = audit \cup {new}
      /\ UNCHANGED <<offers, decisions, outbox>>
    BY DEF CommitMove
<1>2. /\ c \in Candidates /\ candidate[c] \in CaseRow
      /\ req[r].from = candidate[c].stage
      /\ CanTransition(candidate[c].stage, req[r].to)
      /\ candidate'[c].stage = req[r].to
      /\ candidate'[c].version = candidate[c].version + 1
      /\ \A d \in Candidates \ {c} : candidate'[d] = candidate[d]
    BY <1>1, CaseWrite DEF Inv, TypeOK
<1>3. new.case = c /\ new.from = candidate[c].stage
    BY <1>2
<1> HIDE DEF new
<1>4. /\ Rank[candidate[c].stage] \in Nat
      /\ Rank[candidate[c].stage] < Rank[candidate'[c].stage]
    <2>1. candidate[c].stage \in Stages
        BY <1>2 DEF CaseRow
    <2> QED
        BY <1>2, <2>1, TransitionsGoOn
<1>5. new \notin audit
    BY <1>3, <1>4 DEF Counts, PastIsPast
<1>6. PastIsPast'
    <2> SUFFICES ASSUME NEW e \in audit'
                 PROVE  Rank[e.from] < Rank[candidate'[e.case].stage]
        BY DEF PastIsPast
    <2>1. CASE e \in audit
        BY <1>1, <2>1, WritesLeaveThePast DEF Counts
    <2>2. CASE e = new
        BY <1>3, <1>4, <2>2
    <2> QED
        BY <1>1, <2>1, <2>2
<1>7. ASSUME NEW d \in Candidates PROVE CaseCounts(d)'
    <2>1. CaseCounts(d) /\ IsFiniteSet(SettledOf(d))
        BY SettledFinite DEF Counts, CaseCounts
    <2>2. OffersOf(d)' = OffersOf(d) /\ SettledOf(d)' = SettledOf(d)
        BY <1>1 DEF OffersOf, SettledOf
    <2>3. CASE d = c
        <3>1. AuditOf(d)' = AuditOf(d) \cup {new} /\ new \notin AuditOf(d)
            BY <1>1, <1>3, <1>5, <2>3 DEF AuditOf
        <3>2. /\ IsFiniteSet(AuditOf(d)')
              /\ Cardinality(AuditOf(d)') = Cardinality(AuditOf(d)) + 1
            BY <2>1, <3>1, FS_AddElement DEF CaseCounts
        <3>3. /\ Cardinality(AuditOf(d)) \in Nat
              /\ Cardinality(OffersOf(d)) \in Nat
              /\ Cardinality(SettledOf(d)) \in Nat
            BY <2>1, FS_CardinalityType DEF CaseCounts
        <3> QED
            BY <1>2, <2>1, <2>2, <2>3, <3>2, <3>3 DEF CaseCounts
    <2>4. CASE d # c
        <3>1. AuditOf(d)' = AuditOf(d)
            BY <1>1, <1>3, <2>4 DEF AuditOf
        <3>2. candidate'[d] = candidate[d]
            BY <1>2, <2>4
        <3> QED
            BY <2>1, <2>2, <3>1, <3>2 DEF CaseCounts
    <2> QED
        BY <2>3, <2>4
<1>8. IsFiniteSet(decisions)' /\ OneEventPerDecision'
    BY <1>1 DEF Counts, OneEventPerDecision
<1> QED
    BY <1>6, <1>7, <1>8 DEF Counts

LEMMA CommitOfferCounts ==
    ASSUME Inv, Counts, NEW r \in Requests, NEW o \in Offers,
           CommitOffer(r, o)
    PROVE  Counts'
<1> DEFINE c == req[r].case
<1>1. /\ pc[r] = "insert" /\ candidate' = CaseWritten(r)
      /\ offers[o] = AbsentOffer
      /\ offers' = [offers EXCEPT ![o] = Pending(c)]
      /\ UNCHANGED <<decisions, outbox, audit>>
    BY DEF CommitOffer
<1>2. /\ c \in Candidates
      /\ candidate'[c].version = candidate[c].version + 1
      /\ \A d \in Candidates \ {c} : candidate'[d] = candidate[d]
    BY <1>1, CaseWrite
<1>3. /\ offers'[o].case = c
      /\ offers'[o].status \notin {"approved", "rejected"}
      /\ \A p \in Offers \ {o} : offers'[p] = offers[p]
    BY <1>1 DEF Inv, TypeOK, Pending
<1>4. /\ offers[o].case \notin Candidates
      /\ offers[o].status \notin {"approved", "rejected"}
    BY <1>1, NullAssumption DEF AbsentOffer
<1>5. PastIsPast'
    <2>1. \A e \in audit : Rank[e.from] < Rank[candidate'[e.case].stage]
        BY <1>1, WritesLeaveThePast DEF Counts
    <2> QED
        BY <1>1, <2>1 DEF PastIsPast
<1>6. ASSUME NEW d \in Candidates PROVE CaseCounts(d)'
    <2>1. CaseCounts(d) /\ IsFiniteSet(SettledOf(d))
        BY SettledFinite DEF Counts, CaseCounts
    <2>2. AuditOf(d)' = AuditOf(d)
        BY <1>1 DEF AuditOf
    <2>3. SettledOf(d)' = SettledOf(d)
        BY <1>3, <1>4 DEF SettledOf
    <2>4. CASE d = c
        <3>1. OffersOf(d)' = OffersOf(d) \cup {o} /\ o \notin OffersOf(d)
            BY <1>3, <1>4, <2>4 DEF OffersOf
        <3>2. /\ IsFiniteSet(OffersOf(d)')
              /\ Cardinality(OffersOf(d)') = Cardinality(OffersOf(d)) + 1
            BY <2>1, <3>1, FS_AddElement DEF CaseCounts
        <3>3. /\ Cardinality(AuditOf(d)) \in Nat
              /\ Cardinality(OffersOf(d)) \in Nat
              /\ Cardinality(SettledOf(d)) \in Nat
            BY <2>1, FS_CardinalityType DEF CaseCounts
        <3> QED
            BY <1>2, <2>1, <2>2, <2>3, <2>4, <3>2, <3>3 DEF CaseCounts
    <2>5. CASE d # c
        <3>1. OffersOf(d)' = OffersOf(d)
            BY <1>3, <1>4, <2>5 DEF OffersOf
        <3>2. candidate'[d] = candidate[d]
            BY <1>2, <2>5
        <3> QED
            BY <2>1, <2>2, <2>3, <3>1, <3>2 DEF CaseCounts
    <2> QED
        BY <2>4, <2>5
<1>7. IsFiniteSet(decisions)' /\ OneEventPerDecision'
    BY <1>1 DEF Counts, OneEventPerDecision
<1> QED
    BY <1>5, <1>6, <1>7 DEF Counts

-----------------------------------------------------------------------------
(* One event is appended for the decision that is inserted *)
LEMMA DecisionAndEvent ==
    ASSUME Inv, Counts, NEW r \in Requests, CommitDecision(r)
    PROVE  IsFiniteSet(decisions)' /\ OneEventPerDecision'
<1> DEFINE o == req[r].offer
           d == [offer |-> o, step |-> offers[o].step, actor |-> req[r].actor,
                 decision |-> req[r].verdict]
           e == [offer |-> o, decision |-> req[r].verdict,
                 actor |-> req[r].actor]
<1>1. decisions' = decisions \cup {d} /\ StepUndecided(o, offers[o].step)
    BY DecisionCommits
<1>2. outbox' = Append(outbox, e)
    BY DEF CommitDecision
<1>3. d \notin decisions
    BY <1>1 DEF StepUndecided
<1>4. e = [offer |-> d.offer, decision |-> d.decision, actor |-> d.actor]
    OBVIOUS
<1> HIDE DEF d, e
<1>5. IsFiniteSet(decisions) /\ OneEventPerDecision /\ outbox \in Seq(Event)
    BY DEF Counts, Inv, TypeOK
<1>6. e \in Event
    <2>1. /\ o \in Offers /\ req[r].verdict \in Verdicts
          /\ req[r].actor \in Actors
        BY DecisionCommits
    <2> QED
        BY <2>1 DEF e, Event
<1>7. /\ Len(outbox') = Len(outbox) + 1 /\ outbox'[Len(outbox) + 1] = e
      /\ \A i \in 1 .. Len(outbox) : outbox'[i] = outbox[i]
      /\ DOMAIN outbox = 1 .. Len(outbox) /\ Len(outbox) \in Nat
      /\ DOMAIN outbox' = 1 .. Len(outbox) + 1
    BY <1>2, <1>5, <1>6
<1>8. /\ IsFiniteSet(decisions')
      /\ Cardinality(decisions') = Cardinality(decisions) + 1
    BY <1>1, <1>3, <1>5, FS_AddElement
<1>9. ASSUME NEW x \in decisions'
      PROVE  \E i \in DOMAIN outbox' : outbox'[i] =
                [offer |-> x.offer, decision |-> x.decision,
                 actor |-> x.actor]
    <2>1. CASE x = d
        <3>1. Len(outbox) + 1 \in DOMAIN outbox'
            BY <1>7
        <3> QED
            BY <1>4, <1>7, <2>1, <3>1
    <2>2. CASE x \in decisions
        <3>1. PICK i \in DOMAIN outbox : outbox[i] =
                [offer |-> x.offer, decision |-> x.decision,
                 actor |-> x.actor]
            BY <1>5, <2>2 DEF OneEventPerDecision
        <3>2. i \in DOMAIN outbox' /\ outbox'[i] = outbox[i]
            BY <1>7
        <3> QED
            BY <3>1, <3>2
    <2> QED
        BY <1>1, <2>1, <2>2
<1> QED
    BY <1>5, <1>7, <1>8, <1>9 DEF OneEventPerDecision

LEMMA CommitDecisionCounts ==
    ASSUME Inv, Counts, NEW r \in Requests, CommitDecision(r)
    PROVE  Counts'
<1> DEFINE o == req[r].offer
           v == req[r].verdict
           c == req[r].case
<1>1. /\ o \in Offers /\ v \in Verdicts /\ offers[o] \in OfferRow
      /\ offers[o].status = "pending_approval" /\ offers[o].case \in Candidates
      /\ req[r].to = TargetStage(offers[o], v)
      /\ offers' = [offers EXCEPT ![o] = Decided(offers[o], v)]
    BY DecisionCommits
<1>2. /\ pc[r] = "record" /\ UNCHANGED audit
      /\ candidate' = IF req[r].to = NoStage THEN candidate ELSE CaseWritten(r)
    BY DEF CommitDecision
<1>3. /\ offers'[o].case = offers[o].case
      /\ req[r].to = NoStage => offers'[o].status = "pending_approval"
      /\ req[r].to # NoStage =>
            offers'[o].status \in {"approved", "rejected"}
      /\ \A p \in Offers \ {o} : offers'[p] = offers[p]
    <2>1. offers'[o] = Decided(offers[o], v)
          /\ \A p \in Offers \ {o} : offers'[p] = offers[p]
        BY <1>1 DEF Inv, TypeOK
    <2>2. /\ Decided(offers[o], v).case = offers[o].case
          /\ v = "approved" \/ v = "rejected"
          /\ offers[o].step = 1 \/ offers[o].step = 2
        BY <1>1, DecidedRow DEF Verdicts, OfferRow, Steps
    <2> QED
        BY <1>1, <2>1, <2>2 DEF Decided, TargetStage, NoStage, FinalStep
<1>4. PastIsPast'
    <2>1. CASE req[r].to = NoStage
        BY <1>2, <2>1 DEF Counts, PastIsPast
    <2>2. CASE req[r].to # NoStage
        <3>1. \A e \in audit : Rank[e.from] < Rank[candidate'[e.case].stage]
            BY <1>2, <2>2, WritesLeaveThePast DEF Counts
        <3> QED
            BY <1>2, <3>1 DEF PastIsPast
    <2> QED
        BY <2>1, <2>2
<1>5. ASSUME NEW d \in Candidates PROVE CaseCounts(d)'
    <2>1. CaseCounts(d) /\ IsFiniteSet(SettledOf(d))
        BY SettledFinite DEF Counts, CaseCounts
    <2>2. AuditOf(d)' = AuditOf(d)
        BY <1>2 DEF AuditOf
    <2>3. OffersOf(d)' = OffersOf(d)
        BY <1>1, <1>3 DEF OffersOf
    <2>4. CASE req[r].to = NoStage
        <3>1. SettledOf(d)' = SettledOf(d)
            BY <1>1, <1>3, <2>4 DEF SettledOf
        <3> QED
            BY <1>2, <2>1, <2>2, <2>3, <2>4, <3>1 DEF CaseCounts
    <2>5. CASE req[r].to # NoStage
        <3>1. /\ c \in Candidates
              /\ candidate'[c].version = candidate[c].version + 1
              /\ \A x \in Candidates \ {c} : candidate'[x] = candidate[x]
            BY <1>2, <2>5, CaseWrite
        <3>2. c = offers[o].case
            <4>1. RequestOK(r) /\ OfferRead(r) /\ Locked(r)
                BY DEF Inv, RequestOK
            <4> QED
                BY <1>2, <2>5, <4>1, DecisionCommits
                DEF RequestOK, CommandOK
        <3>3. CASE d = c
            <4>1. SettledOf(d)' = SettledOf(d) \cup {o} /\ o \notin SettledOf(d)
                BY <1>1, <1>3, <2>5, <3>2, <3>3 DEF SettledOf
            <4>2. Cardinality(SettledOf(d)') = Cardinality(SettledOf(d)) + 1
                BY <2>1, <4>1, FS_AddElement
            <4>3. /\ Cardinality(AuditOf(d)) \in Nat
                  /\ Cardinality(OffersOf(d)) \in Nat
                  /\ Cardinality(SettledOf(d)) \in Nat
                BY <2>1, FS_CardinalityType DEF CaseCounts
            <4> QED
                BY <2>1, <2>2, <2>3, <3>1, <3>3, <4>2, <4>3 DEF CaseCounts
        <3>4. CASE d # c
            <4>1. SettledOf(d)' = SettledOf(d)
                BY <1>1, <1>3, <3>2, <3>4 DEF SettledOf
            <4>2. candidate'[d] = candidate[d]
                BY <3>1, <3>4
            <4> QED
                BY <2>1, <2>2, <2>3, <4>1, <4>2 DEF CaseCounts
        <3> QED
            BY <3>3, <3>4
    <2> QED
        BY <2>4, <2>5
<1> QED
    BY <1>4, <1>5, DecisionAndEvent DEF Counts

-----------------------------------------------------------------------------
(* Only commits change rows, the audit and the outbox included *)
LEMMA CommitsOnly ==
    ASSUME Next
    PROVE  \/ UNCHANGED rows
           \/ \E r \in Requests :
                 \/ CommitMove(r) \/ CommitDecision(r)
                 \/ \E o \in Offers : CommitOffer(r, o)
<1>1. \A r \in Requests, c \in Candidates, t \in Stages, v \in Versions :
         BeginTransition(r, c, t, v) => UNCHANGED rows
    BY DEF BeginTransition
<1>2. \A r \in Requests, c \in Candidates :
         BeginCreateOffer(r, c) => UNCHANGED rows
    BY DEF BeginCreateOffer
<1>3. \A r \in Requests, o \in Offers, a \in Actors, verdict \in Verdicts,
         v \in Versions : BeginDecision(r, o, a, verdict, v) => UNCHANGED rows
    BY DEF BeginDecision
<1>4. \A r \in Requests :
         MoveCase(r) \/ ReserveCase(r) \/ UpdateOffer(r) \/ SyncCase(r)
            \/ AdvanceCase(r) \/ Rollback(r) => UNCHANGED rows
    BY DEF MoveCase, ReserveCase, UpdateOffer, SyncCase, AdvanceCase, Rollback
<1> QED
    BY NextCases, <1>1, <1>2, <1>3, <1>4

LEMMA NextCounts == Inv /\ Counts /\ [Next]_vars => Counts'
<1> SUFFICES ASSUME Inv, Counts, [Next]_vars PROVE Counts'
    OBVIOUS
<1>1. CASE UNCHANGED rows
    <2>1. /\ \A c \in Candidates : CaseCounts(c)'
          /\ PastIsPast' /\ OneEventPerDecision' /\ IsFiniteSet(decisions)'
        BY <1>1 DEF rows, Counts, CaseCounts, PastIsPast, OneEventPerDecision,
                    AuditOf, OffersOf, SettledOf
    <2> QED
        BY <2>1 DEF Counts
<1>2. CASE Next
    BY <1>1, <1>2, CommitsOnly, CommitMoveCounts, CommitOfferCounts,
       CommitDecisionCounts
<1>3. CASE UNCHANGED vars
    BY <1>1, <1>3 DEF vars, rows
<1> QED
    BY <1>2, <1>3

-----------------------------------------------------------------------------
(* Both counts hold in every reachable state. *)
THEOREM Counting == Spec => []Counts
<1>1. Init => Counts
    BY InitCounts
<1>2. Inv /\ Counts /\ [Next]_vars => Counts'
    BY NextCounts
<1> QED
    BY <1>1, <1>2, Invariance, PTL DEF Spec

(* Every decision on record has its event, and there are as many events as  *)
(* decisions, whatever transactions were rolled back.                       *)
THEOREM EventsMatchDecisions == Spec => []OneEventPerDecision
<1>1. Counts => OneEventPerDecision
    BY DEF Counts
<1> QED
    BY <1>1, Counting, PTL

(* No committed move of a case is overwritten: its version is the number of *)
(* moves on record.                                                         *)
THEOREM NoUpdateIsLost == Spec => []VersionsCountCommits
<1>1. Counts => VersionsCountCommits
    BY DEF Counts, CaseCounts, AuditOf, OffersOf, SettledOf,
           VersionsCountCommits
<1> QED
    BY <1>1, Counting, PTL
=============================================================================

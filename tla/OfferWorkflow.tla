--------------------------- MODULE OfferWorkflow ---------------------------
(***************************************************************************)
(* Candidate cases, offers and their approval, of one tenant.              *)
(*                                                                         *)
(* Three HTTP commands change the same rows, each in a transaction of its  *)
(* own (READ COMMITTED, the PostgreSQL default):                           *)
(*   TransitionCandidateHandler  read case, UPDATE case, audit, commit     *)
(*   CreateOfferHandler          read case, UPDATE case, insert offer      *)
(*   DecideOfferHandler          read offer, UPDATE offer, read case,      *)
(*                               UPDATE case, insert decision and event    *)
(* A request takes one action per statement.  A read sees what is          *)
(* committed.  A guarded UPDATE (WHERE version = expected) waits for the   *)
(* row's lock and keeps it to the end of the transaction; its effect stays *)
(* in req[r] until the commit.  The inserts are flushed by the commit      *)
(* (autoflush is off), where the unique constraints are checked.           *)
(***************************************************************************)
EXTENDS Naturals, FiniteSets, Sequences, CandidateStateMachine

CONSTANTS
    Candidates,   \* candidate cases
    Offers,       \* ids an offer can be given
    Actors,       \* members of the tenant
    RoleOf,       \* the role of each member; no code changes a membership
    Requests,     \* concurrent HTTP requests (threads with a session each)
    Versions,     \* values a client sends as expected_version
    NoCase,       \* the candidate of an offer row that does not exist
    NoOffer,      \* the offer of a request about no offer
    NoActor       \* the approver of a request that decides nothing

Roles == {"tenant_admin", "recruiter", "auditor", "hiring_manager",
          "interviewer"}

ASSUME RolesAssumption == RoleOf \in [Actors -> Roles]
ASSUME VersionsAssumption == Versions \subseteq Nat \ {0}
ASSUME NullAssumption ==
    NoCase \notin Candidates /\ NoOffer \notin Offers /\ NoActor \notin Actors

VARIABLES
    candidate,    \* committed candidate_cases rows
    offers,       \* committed offers rows
    decisions,    \* committed approval_decisions rows
    outbox,       \* committed outbox_events rows, oldest first
    audit,        \* committed candidate.stage_transitioned audit events
    pc,           \* the next statement of each request
    req           \* what each request has read and is writing

vars == <<candidate, offers, decisions, outbox, audit, pc, req>>
rows == <<candidate, offers, decisions, outbox, audit>>

-----------------------------------------------------------------------------
(* Rows *)

Steps == {1, 2}
Verdicts == {"approved", "rejected"}
NoStage == "no_stage"

CaseRow == [stage : Stages, version : Nat]
OfferRow == [status : {"absent", "pending_approval", "approved", "rejected"},
             case : Candidates \cup {NoCase}, step : Steps, version : Nat]
Decision == [offer : Offers, step : Steps, actor : Actors, decision : Verdicts]
Event == [offer : Offers, decision : Verdicts, actor : Actors]
AuditEvent == [case : Candidates, from : Stages, to : Stages]

Opened == [stage |-> "applied", version |-> 1]
AbsentOffer ==
    [status |-> "absent", case |-> NoCase, step |-> 1, version |-> 0]
Pending(c) ==
    [status |-> "pending_approval", case |-> c, step |-> 1, version |-> 1]

(* What a request holds in memory: the case it moves, the version and stage *)
(* it read, the stage it writes; the offer and the row it read, the         *)
(* approver and the verdict.                                                *)
Request == [case : Candidates \cup {NoCase}, seen : Nat,
            from : Stages \cup {NoStage}, to : Stages \cup {NoStage},
            offer : Offers \cup {NoOffer}, row : OfferRow,
            actor : Actors \cup {NoActor}, verdict : Verdicts]

Nothing == [case |-> NoCase, seen |-> 0, from |-> NoStage, to |-> NoStage,
            offer |-> NoOffer, row |-> AbsentOffer, actor |-> NoActor,
            verdict |-> "approved"]

(* The statement a request executes next *)
PCs == {"idle", "move", "moved", "reserve", "insert",
        "decide", "sync", "advance", "record"}

-----------------------------------------------------------------------------
(* Roles and the approval policy *)

MayTransition(a) == RoleOf[a] \in {"tenant_admin", "recruiter"}
MayRead(a) ==
    RoleOf[a] \in {"tenant_admin", "recruiter", "auditor", "hiring_manager"}

RequiredRole == <<"hiring_manager", "tenant_admin">>
FinalStep == 2

(* Mistake: every approval goes on to the next step, the last one too *)
DecidedPastTheEnd(row, verdict) ==
    [status |-> IF verdict = "rejected" THEN "rejected"
                ELSE IF row.step = FinalStep THEN "approved" ELSE row.status,
     case |-> row.case,
     step |-> IF verdict = "approved" THEN row.step + 1 ELSE row.step,
     version |-> row.version + 1]

(* Mistake: any approval approves the offer *)
DecidedAtFirstApproval(row, verdict) ==
    [row EXCEPT !.version = @ + 1, !.status = verdict]

(* Offer.decide: the row it writes and the stage it asks for.  It looks at  *)
(* the step of the row, not at its status.                                  *)
Decided(row, verdict) ==
    [status |-> IF verdict = "rejected" THEN "rejected"
                ELSE IF row.step = FinalStep THEN "approved" ELSE row.status,
     case |-> row.case,
     step |-> IF verdict = "approved" /\ row.step # FinalStep
              THEN row.step + 1 ELSE row.step,
     version |-> row.version + 1]

TargetStage(row, verdict) ==
    CASE verdict = "rejected"  -> "offer_rejected"
      [] verdict = "approved" /\ row.step = FinalStep -> "offer_approved"
      [] OTHER -> NoStage

-----------------------------------------------------------------------------
(* The database *)

(* The requests whose transaction has updated the row and not ended *)
HoldsCase(r, c) ==
    pc[r] \in {"moved", "insert", "record"} /\ req[r].case = c
HoldsOffer(r, o) ==
    pc[r] \in {"sync", "advance", "record"} /\ req[r].offer = o

CaseFree(r, c) == \A q \in Requests \ {r} : ~HoldsCase(q, c)
OfferFree(r, o) == \A q \in Requests \ {r} : ~HoldsOffer(q, o)

(* Mistake: UPDATE without the version in its WHERE clause *)
CaseNotCompared(r) == TRUE

(* WHERE version = expected, on the row as committed when the lock is got *)
CaseUnchanged(r) == candidate[req[r].case].version = req[r].seen
OfferUnchanged(r) == offers[req[r].offer].version = req[r].row.version

(* Mistake: the table has no unique constraint *)
StepNotConstrained(o, step) == TRUE

(* uq_approval_decision_offer_step and the unique offers.candidate_case_id *)
StepUndecided(o, step) ==
    \A d \in decisions : ~(d.offer = o /\ d.step = step)
CaseHasNoOffer(c) == \A o \in Offers : offers[o].case # c

(* The case row a committing request leaves behind *)
CaseWritten(r) ==
    [candidate EXCEPT ![req[r].case] =
        [stage |-> req[r].to, version |-> req[r].seen + 1]]

Goto(r, label) == pc' = [pc EXCEPT ![r] = label]

(* Any end of a request, answered or failed: its session is closed, which  *)
(* rolls back what it has not committed.                                   *)
End(r) == Goto(r, "idle") /\ req' = [req EXCEPT ![r] = Nothing]
Rollback(r) == End(r) /\ UNCHANGED rows

-----------------------------------------------------------------------------
Init ==
    /\ candidate = [c \in Candidates |-> Opened]
    /\ offers = [o \in Offers |-> AbsentOffer]
    /\ decisions = {}
    /\ outbox = <<>>
    /\ audit = {}
    /\ pc = [r \in Requests |-> "idle"]
    /\ req = [r \in Requests |-> Nothing]

(* TransitionCandidateHandler.handle: the checks.  A refused command ends   *)
(* where it began, so a refusal is a stuttering step here and below.        *)
BeginTransition(r, c, target, expected) ==
    /\ pc[r] = "idle"
    /\ \E a \in Actors : MayTransition(a)
    /\ candidate[c].version = expected
    /\ CanTransition(candidate[c].stage, target)
    /\ req' = [req EXCEPT ![r] =
                  [Nothing EXCEPT !.case = c, !.seen = expected,
                                  !.from = candidate[c].stage, !.to = target]]
    /\ Goto(r, "move")
    /\ UNCHANGED rows

MoveCase(r) ==
    /\ pc[r] = "move"
    /\ CaseFree(r, req[r].case)
    /\ \/ CaseUnchanged(r) /\ Goto(r, "moved") /\ UNCHANGED <<req, rows>>
       \/ ~CaseUnchanged(r) /\ Rollback(r)

CommitMove(r) ==
    /\ pc[r] = "moved"
    /\ candidate' = CaseWritten(r)
    /\ audit' = audit \cup {[case |-> req[r].case, from |-> req[r].from,
                             to |-> req[r].to]}
    /\ End(r)
    /\ UNCHANGED <<offers, decisions, outbox>>

(* CreateOfferHandler.handle: no expected_version, the version read is used *)
BeginCreateOffer(r, c) ==
    /\ pc[r] = "idle"
    /\ \E a \in Actors : MayTransition(a)
    /\ candidate[c].stage = "interviewing"
    /\ req' = [req EXCEPT ![r] =
                  [Nothing EXCEPT !.case = c, !.seen = candidate[c].version,
                                  !.from = candidate[c].stage,
                                  !.to = "offer_pending_approval"]]
    /\ Goto(r, "reserve")
    /\ UNCHANGED rows

ReserveCase(r) ==
    /\ pc[r] = "reserve"
    /\ CaseFree(r, req[r].case)
    /\ \/ CaseUnchanged(r) /\ Goto(r, "insert") /\ UNCHANGED <<req, rows>>
       \/ ~CaseUnchanged(r) /\ Rollback(r)

(* The guard is the unique candidate_case_id; OfferInsertNeverConflicts    *)
(* says that it never stops the insert.                                    *)
CommitOffer(r, o) ==
    /\ pc[r] = "insert"
    /\ offers[o] = AbsentOffer
    /\ CaseHasNoOffer(req[r].case)
    /\ candidate' = CaseWritten(r)
    /\ offers' = [offers EXCEPT ![o] = Pending(req[r].case)]
    /\ End(r)
    /\ UNCHANGED <<decisions, outbox, audit>>

(* DecideOfferHandler.handle, up to offer.decide *)
BeginDecision(r, o, a, verdict, expected) ==
    /\ pc[r] = "idle"
    /\ MayRead(a)
    /\ offers[o].status # "absent"
    /\ offers[o].version = expected
    /\ RoleOf[a] = RequiredRole[offers[o].step]
    /\ req' = [req EXCEPT ![r] =
                  [Nothing EXCEPT !.offer = o, !.row = offers[o], !.actor = a,
                                  !.verdict = verdict,
                                  !.to = TargetStage(offers[o], verdict)]]
    /\ Goto(r, "decide")
    /\ UNCHANGED rows

UpdateOffer(r) ==
    /\ pc[r] = "decide"
    /\ OfferFree(r, req[r].offer)
    /\ \/ /\ OfferUnchanged(r)
          /\ Goto(r, IF req[r].to = NoStage THEN "record" ELSE "sync")
          /\ UNCHANGED <<req, rows>>
       \/ ~OfferUnchanged(r) /\ Rollback(r)

(* The case is read after the offer row is locked.  A stage that does not   *)
(* allow the move raises InvalidTransitionError: the request fails.         *)
SyncCase(r) ==
    /\ pc[r] = "sync"
    /\ LET c == req[r].row.case
       IN  \/ /\ CanTransition(candidate[c].stage, req[r].to)
              /\ req' = [req EXCEPT ![r].case = c,
                                    ![r].seen = candidate[c].version,
                                    ![r].from = candidate[c].stage]
              /\ Goto(r, "advance")
              /\ UNCHANGED rows
           \/ ~CanTransition(candidate[c].stage, req[r].to) /\ Rollback(r)

(* Mistake: a conflict is retried with the version read before *)
AdvanceCaseRetrying(r) ==
    /\ pc[r] = "advance"
    /\ CaseFree(r, req[r].case)
    /\ CaseUnchanged(r) /\ Goto(r, "record") /\ UNCHANGED <<req, rows>>

AdvanceCase(r) ==
    /\ pc[r] = "advance"
    /\ CaseFree(r, req[r].case)
    /\ \/ CaseUnchanged(r) /\ Goto(r, "record") /\ UNCHANGED <<req, rows>>
       \/ ~CaseUnchanged(r) /\ Rollback(r)

CommitDecision(r) ==
    /\ pc[r] = "record"
    /\ StepUndecided(req[r].offer, req[r].row.step)
    /\ offers' = [offers EXCEPT ![req[r].offer] =
                     Decided(req[r].row, req[r].verdict)]
    /\ candidate' = IF req[r].to = NoStage THEN candidate ELSE CaseWritten(r)
    /\ decisions' = decisions \cup
          {[offer |-> req[r].offer, step |-> req[r].row.step,
            actor |-> req[r].actor, decision |-> req[r].verdict]}
    /\ outbox' = Append(outbox, [offer |-> req[r].offer,
                                 decision |-> req[r].verdict,
                                 actor |-> req[r].actor])
    /\ End(r)
    /\ UNCHANGED audit

(* Mistake: the event is sent in a transaction of its own, before the commit *)
InsertDecisionFailsAfterEvent(r) ==
    /\ pc[r] = "record"
    /\ ~StepUndecided(req[r].offer, req[r].row.step)
    /\ outbox' = Append(outbox, [offer |-> req[r].offer,
                                 decision |-> req[r].verdict,
                                 actor |-> req[r].actor])
    /\ End(r)
    /\ UNCHANGED <<candidate, offers, decisions, audit>>

(* The insert meets uq_approval_decision_offer_step: IntegrityError *)
InsertDecisionFails(r) ==
    /\ pc[r] = "record"
    /\ ~StepUndecided(req[r].offer, req[r].row.step)
    /\ Rollback(r)

(* The process stops or loses its connection before the commit *)
Crash(r) == pc[r] # "idle" /\ Rollback(r)

Begin(r) ==
    \/ \E c \in Candidates, target \in Stages, v \in Versions :
            BeginTransition(r, c, target, v)
    \/ \E c \in Candidates : BeginCreateOffer(r, c)
    \/ \E o \in Offers, a \in Actors, verdict \in Verdicts, v \in Versions :
            BeginDecision(r, o, a, verdict, v)

(* The statements that may wait for a row lock, and those that never wait *)
LockingStep(r) ==
    MoveCase(r) \/ ReserveCase(r) \/ UpdateOffer(r) \/ AdvanceCase(r)
FreeStep(r) ==
    \/ CommitMove(r)
    \/ \E o \in Offers : CommitOffer(r, o)
    \/ SyncCase(r)
    \/ CommitDecision(r)
    \/ InsertDecisionFails(r)

Next == \E r \in Requests :
            Begin(r) \/ LockingStep(r) \/ FreeStep(r) \/ Crash(r)

Spec == Init /\ [][Next]_vars

(* A thread that holds a session goes on to its next statement (weak), and  *)
(* PostgreSQL queues the waiters of a row lock in order, so a statement     *)
(* whose lock is free again and again gets it (strong).                     *)
Fairness == \A r \in Requests : SF_vars(LockingStep(r)) /\ WF_vars(FreeStep(r))

FairSpec == Spec /\ Fairness

-----------------------------------------------------------------------------
(* Properties *)

TypeOK ==
    /\ candidate \in [Candidates -> CaseRow]
    /\ offers \in [Offers -> OfferRow]
    /\ decisions \subseteq Decision
    /\ outbox \in Seq(Event)
    /\ audit \subseteq AuditEvent
    /\ pc \in [Requests -> PCs]
    /\ req \in [Requests -> Request]

Given(o, step, verdict) ==
    {d \in decisions : d.offer = o /\ d.step = step /\ d.decision = verdict
                       /\ RoleOf[d.actor] = RequiredRole[step]}

(* An approved offer was approved at both steps, by two different members   *)
(* of the roles the policy names, and nobody rejected it: whatever the      *)
(* order in which several decisions on the same offer are read, written     *)
(* and committed (ApprovalPolicy.standard, Offer.decide,                    *)
(* DecideOfferHandler.handle).                                              *)
ApprovedByBoth ==
    \A o \in Offers : offers[o].status = "approved" =>
        /\ \E d \in Given(o, 1, "approved"), e \in Given(o, 2, "approved") :
                d.actor # e.actor
        /\ \A d \in decisions : d.offer = o => d.decision = "approved"

(* A decided offer never changes again, although Offer.decide does not look *)
(* at its status: a later verdict is stopped by the unique (offer, step) or *)
(* by the stage of the case.                                                *)
DecidedIsFinal ==
    [][\A o \in Offers : offers[o].status \in {"approved", "rejected"}
            => offers'[o] = offers[o]]_vars

(* The two rows a final decision writes stay together: an approved offer    *)
(* belongs to a case that was approved (and may since be hired or           *)
(* withdrawn), a rejected one to a case that was rejected with it.          *)
OfferAndCaseAgree ==
    \A o \in Offers :
        /\ offers[o].status = "approved" =>
              candidate[offers[o].case].stage
                  \in {"offer_approved", "hired", "withdrawn"}
        /\ offers[o].status = "rejected" =>
              candidate[offers[o].case].stage
                  \in {"offer_rejected", "rejected", "withdrawn"}

(* The outbox holds exactly one event for every recorded decision: none is  *)
(* lost by a rollback, none is written for a decision that was refused.     *)
OneEventPerDecision ==
    /\ \A d \in decisions : \E i \in DOMAIN outbox :
          outbox[i] = [offer |-> d.offer, decision |-> d.decision,
                       actor |-> d.actor]
    /\ Len(outbox) = Cardinality(decisions)

(* No update is lost: the version of a case counts the commands that        *)
(* committed a stage for it, each of which left its own trace (an audit     *)
(* record, an offer, or a decision that settled the offer).                 *)
VersionsCountCommits ==
    \A c \in Candidates :
        candidate[c].version = 1
            + Cardinality({e \in audit : e.case = c})
            + Cardinality({o \in Offers : offers[o].case = c})
            + Cardinality({o \in Offers : offers[o].case = c /\
                            offers[o].status \in {"approved", "rejected"}})

(* Whatever requests race on it, a case only moves along the transitions    *)
(* of the state machine; a hired, rejected or withdrawn case never moves.   *)
StagesFollowTheMachine ==
    [][\A c \in Candidates : candidate'[c].stage # candidate[c].stage
            => CanTransition(candidate[c].stage, candidate'[c].stage)]_vars

(* CreateOfferHandler does not look for an offer of the case.  Of several   *)
(* creations that race, the one that reaches the insert finds no offer, so  *)
(* the unique constraint never turns a creation into a server error.        *)
OfferInsertNeverConflicts ==
    \A r \in Requests : pc[r] = "insert" => CaseHasNoOffer(req[r].case)

(* Every request that has begun ends: no two requests wait for each other's *)
(* rows (offer row first, case row second), whatever others do or crash.    *)
RequestsEnd == \A r \in Requests : pc[r] # "idle" ~> pc[r] = "idle"

(* The workflow implements the flow of approvals in which each command is   *)
(* one atomic step.                                                         *)
Flow == INSTANCE ApprovalFlow WITH
    stage <- [c \in Candidates |-> candidate[c].stage],
    offer <- [o \in Offers |-> [status |-> offers[o].status,
                                case |-> offers[o].case]]

ImplementsApprovalFlow == Flow!Spec

-----------------------------------------------------------------------------
(* Claims of the documentation that the code does not keep *)

(* README.md and architecture.md: a case becomes offer_approved (and so     *)
(* hired) by the ordered approvals of its offer.  The stage endpoint makes  *)
(* the same moves with neither an offer nor an approval.                    *)
ApprovedStageNeedsApprovedOffer ==
    \A c \in Candidates : candidate[c].stage \in {"offer_approved", "hired"}
        => \E o \in Offers : offers[o].case = c /\ offers[o].status = "approved"

(* architecture.md: a rejection at either step rejects the offer and moves  *)
(* the candidate.  When the case has left offer_pending_approval meanwhile, *)
(* the rejection of a pending offer fails and the offer stays pending.      *)
RejectionIsNeverRefused ==
    \A r \in Requests :
        pc[r] = "sync" /\ req[r].verdict = "rejected"
            /\ req[r].row.status = "pending_approval"
        => CanTransition(candidate[req[r].row.case].stage, "offer_rejected")

(* architecture.md: commands write audit records in the transaction of      *)
(* their state change.  Creating and deciding an offer move the case and    *)
(* write none.                                                              *)
StageChangesAreAudited ==
    [][\A c \in Candidates : candidate'[c].stage # candidate[c].stage =>
            [case |-> c, from |-> candidate[c].stage,
             to |-> candidate'[c].stage] \in audit']_vars
=============================================================================

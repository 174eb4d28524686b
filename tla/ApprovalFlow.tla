---------------------------- MODULE ApprovalFlow ----------------------------
(***************************************************************************)
(* What the offer workflow promises, without requests, versions, locks or  *)
(* transactions: a case is moved, an offer is opened for a case under      *)
(* interview, and each verdict on an offer takes effect at once, on the    *)
(* offer, on its case and in the record of decisions.                      *)
(***************************************************************************)
EXTENDS Naturals, FiniteSets, CandidateStateMachine

CONSTANTS Candidates, Offers, Actors, RoleOf, NoCase

VARIABLES
    stage,        \* the stage of each case
    offer,        \* status and case of each offer
    decisions     \* the verdicts given, one record each

vars == <<stage, offer, decisions>>

Approvers == <<"hiring_manager", "tenant_admin">>

Init ==
    /\ stage = [c \in Candidates |-> "applied"]
    /\ offer = [o \in Offers |-> [status |-> "absent", case |-> NoCase]]
    /\ decisions = {}

(* A case moves along an allowed transition *)
Move(c, to) ==
    /\ CanTransition(stage[c], to)
    /\ stage' = [stage EXCEPT ![c] = to]

MoveCase(c, to) == Move(c, to) /\ UNCHANGED <<offer, decisions>>

(* The first and only offer of a case under interview *)
Open(o, c) ==
    /\ offer[o].status = "absent"
    /\ \A p \in Offers : offer[p].case # c
    /\ stage[c] = "interviewing"
    /\ Move(c, "offer_pending_approval")
    /\ offer' = [offer EXCEPT ![o] = [status |-> "pending_approval",
                                      case |-> c]]
    /\ UNCHANGED decisions

(* The steps decided so far: the next approver is that of the step after   *)
StepsTaken(o) == {d.step : d \in {e \in decisions : e.offer = o}}

Decide(o, step, a, verdict) ==
    /\ offer[o].status = "pending_approval"
    /\ step \notin StepsTaken(o)
    /\ \A s \in 1 .. (step - 1) : s \in StepsTaken(o)
    /\ RoleOf[a] = Approvers[step]
    /\ decisions' = decisions \cup
          {[offer |-> o, step |-> step, actor |-> a, decision |-> verdict]}

Settle(o, status, to) ==
    /\ offer' = [offer EXCEPT ![o].status = status]
    /\ Move(offer[o].case, to)

ApproveFirst(o, a) == Decide(o, 1, a, "approved") /\ UNCHANGED <<stage, offer>>
ApproveLast(o, a) == Decide(o, 2, a, "approved")
                     /\ Settle(o, "approved", "offer_approved")
Reject(o, step, a) == Decide(o, step, a, "rejected")
                      /\ Settle(o, "rejected", "offer_rejected")

Next ==
    \/ \E c \in Candidates, to \in Stages : MoveCase(c, to)
    \/ \E o \in Offers, c \in Candidates : Open(o, c)
    \/ \E o \in Offers, a \in Actors :
            ApproveFirst(o, a) \/ ApproveLast(o, a)
    \/ \E o \in Offers, step \in {1, 2}, a \in Actors : Reject(o, step, a)

Spec == Init /\ [][Next]_vars
=============================================================================

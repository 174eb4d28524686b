----------------------- MODULE CandidateStateMachine -----------------------
(***************************************************************************)
(* The life cycle of a candidate case: the stages and the moves between    *)
(* them (workflow/domain/candidate_state_machine.py).  A stage is named by *)
(* the string the code stores.  Every component that moves a candidate     *)
(* EXTENDS this module.                                                    *)
(***************************************************************************)

Stages == {"applied", "screening", "interviewing", "offer_pending_approval",
           "offer_approved", "offer_rejected", "hired", "rejected",
           "withdrawn"}

AllowedTransitions ==
    [s \in Stages |->
        CASE s = "applied"      -> {"screening", "rejected", "withdrawn"}
          [] s = "screening"    -> {"interviewing", "rejected", "withdrawn"}
          [] s = "interviewing" -> {"offer_pending_approval", "rejected",
                                    "withdrawn"}
          [] s = "offer_pending_approval" ->
                {"offer_approved", "offer_rejected", "withdrawn"}
          [] s = "offer_approved" -> {"hired", "withdrawn"}
          [] s = "offer_rejected" -> {"rejected", "withdrawn"}
          [] OTHER -> {}]

(* transition_to: raises InvalidTransitionError when this is FALSE *)
CanTransition(current, target) == target \in AllowedTransitions[current]
=============================================================================

------------------------------ MODULE TaskState ------------------------------
(***************************************************************************)
(* The task state machine of crates/meshloop-domain/src/state.rs: the      *)
(* states, the events, and the pure function that is the single source of  *)
(* transition legality.                                                    *)
(***************************************************************************)

TaskStates == {"Pending", "Ready", "Running", "Verifying", "AwaitingReview",
               "Accepted", "Integrated", "Failed", "Cancelled", "Blocked"}

Events == {"DependencySatisfied", "DependencyFailedOrScopeRevoked",
           "AttemptStarted", "HarnessExited", "HarnessCrashedOrTimeout",
           "Cancel", "DeterministicChecksPassed", "DeterministicChecksFailed",
           "ModelReviewPassed", "HumanAcceptanceRecorded", "ReviewRejected",
           "IntegrationOwnerMerge", "StaleBaseDetected", "RetryAuthorized",
           "LiveWorkerSettled", "DependencyCleared", "GraphMutated",
           "VerifyGatePassed"}

\* The Err(IllegalTransition) result.
Illegal == "Illegal"

\* The arms of the match, grouped by target; the Cancel arm is the guarded one
\* (every state but Integrated and Cancelled).
transition(from, event) ==
  LET at(s, e) == from = s /\ event = e IN
  IF at("Pending", "DependencySatisfied") \/ at("Failed", "RetryAuthorized")
    THEN "Ready"
  ELSE IF at("Pending", "DependencyFailedOrScopeRevoked") \/ at("Blocked", "GraphMutated")
    THEN "Blocked"
  ELSE IF at("Ready", "AttemptStarted")
    THEN "Running"
  ELSE IF at("Running", "HarnessExited") \/ at("Failed", "LiveWorkerSettled")
    THEN "Verifying"
  ELSE IF at("Verifying", "DeterministicChecksPassed")
    THEN "AwaitingReview"
  ELSE IF \/ at("AwaitingReview", "ModelReviewPassed")
          \/ at("AwaitingReview", "HumanAcceptanceRecorded")
          \/ at("AwaitingReview", "VerifyGatePassed")
    THEN "Accepted"
  ELSE IF at("Accepted", "IntegrationOwnerMerge")
    THEN "Integrated"
  ELSE IF \/ at("Running", "HarnessCrashedOrTimeout")
          \/ at("Verifying", "DeterministicChecksFailed")
          \/ at("AwaitingReview", "ReviewRejected")
          \/ at("Accepted", "StaleBaseDetected")
          \/ at("Failed", "HarnessExited")
    THEN "Failed"
  ELSE IF \/ at("Blocked", "DependencyCleared")
          \/ at("Ready", "GraphMutated") \/ at("Pending", "GraphMutated")
    THEN "Pending"
  ELSE IF event = "Cancel" /\ from \notin {"Integrated", "Cancelled"}
    THEN "Cancelled"
  ELSE Illegal
=============================================================================

------------------------------ MODULE EffectModel ------------------------------
(***************************************************************************)
(* Vocabulary of the side-effect boundary: the states of an approval, of a *)
(* ledger row and of a recovery lookup, and the pure decisions taken on    *)
(* them. Nothing here has state; EffectBoundary gives the transactions.    *)
(***************************************************************************)
EXTENDS Naturals

ApprovalStatus == {"PENDING", "APPROVED", "REJECTED", "EXPIRED", "REVOKED"}

\* What an operator may decide (EXPIRED is only ever a view of the row).
Decisions == {"APPROVED", "REJECTED", "REVOKED"}

\* VERIFIED and REJECTED are reserved values that no transition writes.
EffectStatus == {"PREPARED", "DISPATCHED", "ACCEPTED", "APPLIED", "UNKNOWN",
                 "FAILED_CONFIRMED", "NOOP"}

ReceiptOutcome == {"ACCEPTED", "APPLIED", "FAILED_CONFIRMED"}

LookupStatus == {"FOUND_APPLIED", "FOUND_ACCEPTED", "FOUND_FAILED_NO_EFFECT",
                 "NOT_FOUND", "INDETERMINATE"}

\* The failures a recovery attempt can end with. The three authorization
\* failures are one value: recover() handles them alike.
RecoveryFailure == {"LOOKUP_TIMEOUT", "LOOKUP_TRANSPORT_ERROR",
                    "LOOKUP_PROOF_CONFLICT", "INVALID_LOOKUP_RECEIPT",
                    "RECOVERY_STALE", "LEASE_LOST"}

\* "ABSENT" stands for a row that has not been inserted.
RowStatus == EffectStatus \cup {"ABSENT"}

RECOVERABLE == {"PREPARED", "DISPATCHED", "ACCEPTED", "UNKNOWN"}

LOOKUP_ONLY == {"DISPATCHED", "ACCEPTED", "UNKNOWN"}

\* Mutant: a request the external system accepted counts as resolved.
UNRESOLVED_EFFECT_STATES_NoAccepted == {"PREPARED", "DISPATCHED", "UNKNOWN"}

\* The closure gate keeps its own copy of the unresolved states.
UNRESOLVED_EFFECT_STATES == {"PREPARED", "DISPATCHED", "ACCEPTED", "UNKNOWN"}

Settled == {"APPLIED", "FAILED_CONFIRMED"}

(***************************************************************************)
(* approval_from_row: an undecided or granted approval past its deadline   *)
(* reads as EXPIRED whatever the row says.                                 *)
(***************************************************************************)
ApprovalView(row) ==
  IF row.expired /\ row.status \in {"PENDING", "APPROVED"}
  THEN "EXPIRED" ELSE row.status

(***************************************************************************)
(* validate_lookup: a resolver answer that is not bound to this dispatch   *)
(* ("UNBOUND": wrong resolver, correlation, command identity or external   *)
(* reference) is a proof conflict, an answer outside the freshness SLA is  *)
(* invalid, and an empty index cannot erase a bound external operation.    *)
(***************************************************************************)
validate_lookup(answer, fresh, refBound) ==
  CASE answer = "UNBOUND"                -> "LOOKUP_PROOF_CONFLICT"
    [] answer # "UNBOUND" /\ ~fresh      -> "INVALID_LOOKUP_RECEIPT"
    [] answer = "NOT_FOUND" /\ fresh /\ refBound -> "LOOKUP_PROOF_CONFLICT"
    [] OTHER                             -> "OK"

\* Mutant: an empty index is always read as proof that nothing happened.
reconcile_status_TrustsAbsence(answer, notFoundProvesNoEffect) ==
  CASE answer = "FOUND_APPLIED"          -> "APPLIED"
    [] answer = "FOUND_ACCEPTED"         -> "ACCEPTED"
    [] answer \in {"FOUND_FAILED_NO_EFFECT", "NOT_FOUND"} -> "FAILED_CONFIRMED"
    [] OTHER                             -> "UNKNOWN"

(***************************************************************************)
(* reconcile_status: the ledger status a valid lookup proof justifies.     *)
(***************************************************************************)
reconcile_status(answer, notFoundProvesNoEffect) ==
  CASE answer = "FOUND_APPLIED"          -> "APPLIED"
    [] answer = "FOUND_ACCEPTED"         -> "ACCEPTED"
    [] answer = "FOUND_FAILED_NO_EFFECT" -> "FAILED_CONFIRMED"
    [] answer = "NOT_FOUND" /\ notFoundProvesNoEffect -> "FAILED_CONFIRMED"
    [] OTHER                             -> "UNKNOWN"

\* finish_error: a conflicting or malformed proof is never retried blindly.
escalates(failure) ==
  failure \in {"LOOKUP_PROOF_CONFLICT", "INVALID_LOOKUP_RECEIPT"}

\* Mutant: an applied effect is filed without asking for its verification.
effect_handoff_Silent(status, verifiable) ==
  IF status \in {"UNKNOWN", "DISPATCHED"} THEN {"RECOVERY_RECHECK"} ELSE {}

(***************************************************************************)
(* effect_handoff: the kind of work item published in the transaction that *)
(* writes the ledger row.                                                  *)
(***************************************************************************)
effect_handoff(status, verifiable) ==
  CASE status \in {"UNKNOWN", "DISPATCHED"}     -> {"RECOVERY_RECHECK"}
    [] status = "APPLIED" /\ verifiable         -> {"VERIFICATION_REQUIRED"}
    [] status = "APPLIED" /\ ~verifiable        -> {"OPERATOR_FOLLOWUP"}
    [] status = "FAILED_CONFIRMED"              -> {"OPERATOR_FOLLOWUP"}
    [] OTHER                                    -> {}
=============================================================================

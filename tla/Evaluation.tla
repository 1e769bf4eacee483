----------------------------- MODULE Evaluation -----------------------------
(***************************************************************************)
(* The independent evaluation of a Case: the verification snapshot of its  *)
(* re-extracted evidence, effects and pending work, the checks of the      *)
(* credit guarantee contract in their eight dimensions, and the verdict.   *)
(* A check is a record of its dimension, status, reason and, when it does  *)
(* not pass, the requirement it leaves unresolved.                         *)
(***************************************************************************)
EXTENDS Hypotheses

CONSTANTS
  MaxAge,  \* evidence_max_age_seconds of the policy
  Grace    \* convergence_grace_seconds of the policy

ASSUME PolicyAssumption == MaxAge \in 1 .. 3600 /\ Grace \in 0 .. 3600

DimensionStatus == {"PASS", "FAIL", "INCONCLUSIVE", "NOT_APPLICABLE"}

EvaluationDimension == {"MONEY", "IDENTITY", "STATE_CONVERGENCE", "SIDE_EFFECT",
                        "EVIDENCE_SUFFICIENCY", "POLICY", "RECOVERY", "OUTCOME"}

OutcomePath == {"SETTLED_PATH", "NO_DISBURSEMENT_PATH", "NONE"}

UNRESOLVED_EFFECT_STATES == {"PREPARED", "DISPATCHED", "ACCEPTED", "UNKNOWN"}

\* An effect as the ledger and its authorized intent's target show it.
BoundEffect ==
  [action : {"REPLAY", "REDELIVER", "ADMINISTRATIVE"},
   status : UNRESOLVED_EFFECT_STATES \cup {"APPLIED", "FAILED_CONFIRMED"},
   created : Int, updated : Int, target : MessageId \cup DeliveryRef, callback : EventId]

\* Per tool and scope, the evidence of its last observation.
latest_observation_evidence(evidence) ==
  {e \in evidence : \A x \in evidence : x.tool = e.tool /\ x.scope = e.scope => x.seen <= e.seen}

\* Mutant: the age limit is taken from the convergence window.
eligible_within_grace(e, now) ==
  /\ e.claim # "SOURCE_LOOKUP_STATUS"
  /\ e.fresh = "CURRENT" /\ e.complete = "COMPLETE" /\ e.source = "PRIMARY"
  /\ e.asof # NoTime /\ e.seen <= now /\ now - e.asof \in 0 .. Grace

eligible(e, now) ==
  /\ e.claim # "SOURCE_LOOKUP_STATUS"
  /\ e.fresh = "CURRENT" /\ e.complete = "COMPLETE" /\ e.source = "PRIMARY"
  /\ e.asof # NoTime /\ e.seen <= now /\ now - e.asof \in 0 .. MaxAge

InGrace(effects, usable, now) ==
  LET applied == {e.updated : e \in {x \in effects : x.status = "APPLIED"}}
      anchors == IF applied # {} THEN applied ELSE {e.at : e \in usable} \ {NoTime}
  IN  anchors # {} /\ now - Max(anchors) < Grace

\* The readings of the snapshot: the evidence `read', the part `last' of the
\* last observations, the part `usable' the rules see, and its index.
Indexed(read, last, usable, ix) ==
  [evidence |-> read, latest |-> last, usable |-> usable, index |-> ix,
   graph |-> IndexedGraph(ix, TRUE)]

Usable(read, last, usable) == Indexed(read, last, usable, Index(usable))

Recent(read, last, now) == Usable(read, last, {e \in last : eligible(e, now)})

\* Everything one evaluation reads.  `work' holds what other components
\* report: pending reads, unresolved recovery, an invalid authorization
\* binding, a terminal Case.
SnapshotOf(reading, provenance, effects, work, now) ==
  [evidence |-> reading.evidence, latest |-> reading.latest, usable |-> reading.usable,
   index |-> reading.index, graph |-> reading.graph,
   effects |-> effects, work |-> work, now |-> now, provenance |-> provenance,
   in_grace |-> InGrace(effects, reading.usable, now)]

ReadSnapshot(read, provenance, effects, work, now) ==
  SnapshotOf(Recent(read, latest_observation_evidence(read), now), provenance, effects, work, now)

Snapshot(stored, observations, effects, work, now) ==
  ReadSnapshot(read_verified_evidence(observations), ProvenanceValid(stored, observations),
               effects, work, now)

Check(d, s, reason, requirement) ==
  [dimension |-> d, status |-> s, reason |-> reason,
   requirement |-> IF s \in {"FAIL", "INCONCLUSIVE"} THEN requirement ELSE "NONE"]

aggregate(statuses) ==
  IF "FAIL" \in statuses THEN "FAIL"
  ELSE IF "INCONCLUSIVE" \in statuses THEN "INCONCLUSIVE" ELSE "PASS"

Money(s) == {e \in Now(s.index, "PAYMENT_FINALITY") : e.tool = "PAYMENT"}

\* The settled payments ever observed for the request: a later claim that
\* nothing was executed cannot erase them.
settled_history(s) ==
  {e \in s.evidence : /\ e.tool = "PAYMENT" /\ e.claim = "PAYMENT_FINALITY" /\ e.value = "SETTLED"
                      /\ e.request = s.index.request /\ e.source = "PRIMARY"
                      /\ e.fresh = "CURRENT" /\ e.complete = "COMPLETE"}

NoEffectClaimed(s) ==
  /\ {e.value : e \in Money(s)} = {"NOT_EXECUTED"}
  /\ \A e \in Money(s) : /\ e.kind = "FUND_REQUEST" /\ e.id = s.index.request
                         /\ e.request = s.index.request

Path(s) ==
  IF {e.value : e \in Money(s)} = {"SETTLED"} THEN "SETTLED_PATH"
  ELSE IF NoEffectClaimed(s) /\ settled_history(s) = {} THEN "NO_DISBURSEMENT_PATH"
  ELSE "NONE"

MoneyCheck(s) ==
  IF Path(s) # "NONE" THEN Check("MONEY", "PASS", "NONE", "NONE")
  ELSE IF Cardinality({e.value : e \in Money(s)}) > 1 \/ NoEffectClaimed(s)
  THEN Check("MONEY", "FAIL", "MONEY_STATE_CONTRADICTION", "PAYMENT_FINALITY")
  ELSE Check("MONEY", "INCONCLUSIVE", "PAYMENT_FINALITY_UNKNOWN", "PAYMENT_FINALITY")

IdentityCheck(s) ==
  LET result == s.graph.identity.result
  IN  CASE Path(s) = "NO_DISBURSEMENT_PATH" -> Check("IDENTITY", "NOT_APPLICABLE", "NONE", "NONE")
        [] Path(s) # "NO_DISBURSEMENT_PATH" /\ result = "MATCH" ->
             Check("IDENTITY", "PASS", "NONE", "NONE")
        [] Path(s) # "NO_DISBURSEMENT_PATH" /\ result = "MISMATCH" ->
             Check("IDENTITY", "FAIL", "PAYMENT_IDENTITY_MISMATCH", "PAYMENT_IDENTITY")
        [] OTHER -> Check("IDENTITY", "INCONCLUSIVE", "PAYMENT_IDENTITY_UNKNOWN", "PAYMENT_IDENTITY")

\* One party's state against its expectation; a state still on its way is
\* excused while the convergence window is open.
expect(s, claim, expected, reason, requirement) ==
  LET observed == {e.value : e \in Now(s.index, claim)}
      waiting == /\ observed \subseteq {"PROCESSING", "PENDING", "NOT_ATTEMPTED", "FALSE"}
                 /\ s.in_grace
  IN  IF observed = {}
      THEN Check("STATE_CONVERGENCE", "INCONCLUSIVE", reason, requirement)
      ELSE IF observed = {expected}
      THEN Check("STATE_CONVERGENCE", "PASS", "NONE", "NONE")
      ELSE IF waiting
      THEN Check("STATE_CONVERGENCE", "INCONCLUSIVE", "CONVERGENCE_WINDOW_OPEN", requirement)
      ELSE Check("STATE_CONVERGENCE", "FAIL", reason, requirement)

\* A signed callback whose every message was consumed after it arrived.
CallbackCheck(s) ==
  LET consumptions == Now(s.index, "MESSAGE_CONSUME_STATUS")
      matched == {g \in Now(s.index, "CALLBACK_GATEWAY_RECEIVED") :
                    /\ g.value = "TRUE"
                    /\ \E x \in Now(s.index, "CALLBACK_SIGNATURE_VERIFIED") :
                         x.id = g.id /\ x.obs = g.obs /\ x.value = "TRUE"
                    /\ \E m \in consumptions :
                         /\ m.callback = g.id /\ m.value = "CONSUMED"
                         /\ m.at # NoTime /\ g.at # NoTime /\ m.at >= g.at}
      failed == \E m \in consumptions : m.value = "FAILED"
  IN  IF matched # {} /\ \A m \in consumptions : m.value = "CONSUMED"
      THEN Check("STATE_CONVERGENCE", "PASS", "NONE", "NONE")
      ELSE Check("STATE_CONVERGENCE", IF failed /\ ~s.in_grace THEN "FAIL" ELSE "INCONCLUSIVE",
                 "CALLBACK_NOT_CONSUMED", "CALLBACK_CONSUMPTION")

\* Mutant: the asset party is not asked.
StateChecks_without_asset(s) ==
  LET final == IF Path(s) = "SETTLED_PATH" THEN "SUCCESS" ELSE "FAILED"
  IN  {expect(s, "FUND_BUSINESS_STATUS", final, "FUND_NOT_CONVERGED", "FUND_FINAL_STATE"),
       expect(s, "GUARANTEE_STATUS", final, "GUARANTEE_NOT_CONVERGED", "GUARANTEE_FINAL_STATE"),
       expect(s, "ASSET_DELIVERY_STATUS", "DELIVERED", "DELIVERY_NOT_DELIVERED", "ASSET_DELIVERY")}

StateChecks(s) ==
  LET path == Path(s)
      final == IF path = "SETTLED_PATH" THEN "SUCCESS" ELSE "FAILED"
  IN  IF path = "NONE"
      THEN {Check("STATE_CONVERGENCE", "INCONCLUSIVE", "BUSINESS_OUTCOME_NOT_CONVERGED", "NONE")}
      ELSE {expect(s, "FUND_BUSINESS_STATUS", final, "FUND_NOT_CONVERGED", "FUND_FINAL_STATE"),
            expect(s, "GUARANTEE_STATUS", final, "GUARANTEE_NOT_CONVERGED", "GUARANTEE_FINAL_STATE"),
            expect(s, "ASSET_STATUS", final, "ASSET_NOT_CONVERGED", "ASSET_FINAL_STATE"),
            expect(s, "ACCOUNTING_ENTRY_PRESENT", Bool(path = "SETTLED_PATH"),
                   "ACCOUNTING_NOT_CONVERGED", "ACCOUNTING_ENTRY")}
           \cup IF path = "SETTLED_PATH"
                THEN {CallbackCheck(s),
                      expect(s, "ASSET_DELIVERY_STATUS", "DELIVERED", "DELIVERY_NOT_DELIVERED",
                             "ASSET_DELIVERY")}
                ELSE {}

\* An applied effect is judged by evidence of its own target observed, and
\* current, after it was applied.
EffectCheck(s, effect) ==
  LET replay == effect.action = "REPLAY"
      claim == IF replay THEN "MESSAGE_CONSUME_STATUS" ELSE "ASSET_DELIVERY_STATUS"
      requirement == IF replay THEN "POST_EFFECT_MESSAGE_STATUS" ELSE "POST_EFFECT_DELIVERY_STATUS"
      associated(e) ==
        IF replay THEN e.id = effect.target /\ e.callback = effect.callback
        ELSE \E r \in Now(s.index, "ASSET_DELIVERY_EVENT_REF") :
               r.tool = "ASSET_DELIVERY" /\ r.value = effect.target /\ r.obs = e.obs
      matched == {e \in Now(s.index, claim) :
                    /\ e.tool = IF replay THEN "MESSAGES" ELSE "ASSET_DELIVERY"
                    /\ e.seen > effect.updated /\ e.asof >= effect.updated
                    /\ e.at # NoTime /\ e.at >= effect.created
                    /\ associated(e)}
  IN  IF effect.status \in UNRESOLVED_EFFECT_STATES
      THEN Check("SIDE_EFFECT", "INCONCLUSIVE", "UNRESOLVED_SIDE_EFFECT", "EFFECT_FINALITY")
      ELSE IF effect.status # "APPLIED" \/ effect.action = "ADMINISTRATIVE"
      THEN Check("SIDE_EFFECT", "NOT_APPLICABLE", "NONE", "NONE")
      ELSE IF matched = {}
      THEN Check("SIDE_EFFECT", "INCONCLUSIVE", "POST_EFFECT_EVIDENCE_MISSING", requirement)
      ELSE IF {e.value : e \in matched} = {IF replay THEN "CONSUMED" ELSE "DELIVERED"}
      THEN Check("SIDE_EFFECT", "PASS", "NONE", "NONE")
      ELSE Check("SIDE_EFFECT", "FAIL", IF replay THEN "CALLBACK_NOT_CONSUMED"
                                        ELSE "DELIVERY_NOT_DELIVERED", requirement)

SufficiencyChecks(s) ==
  LET d == "EVIDENCE_SUFFICIENCY"
      when(condition, reason, requirement) ==
        IF condition THEN {Check(d, "INCONCLUSIVE", reason, requirement)} ELSE {}
      relevant == {"PAYMENT", "TRACE", "FUND", "GUARANTEE", "ASSET", "ACCOUNTING"}
                  \cup IF Path(s) = "SETTLED_PATH"
                       THEN {"CALLBACK", "CALLBACK_RAW", "MESSAGES", "ASSET_DELIVERY"} ELSE {}
      inputs == {e \in s.latest : e.tool \in relevant}
      open == {g \in s.graph.gaps : /\ g.status = "OPEN" /\ g.priority = "SAFETY_CRITICAL"
                                    /\ ~(Path(s) = "NO_DISBURSEMENT_PATH"
                                         /\ g.name = "PAYMENT_IDENTITY")}
  IN  when(~s.provenance, "PROVENANCE_INVALID", "PROVENANCE")
      \cup when(s.work.pending_reads, "PENDING_READ_DISPATCH", "READ_PUBLICATION")
      \cup when(\E e \in inputs : e.fresh = "STALE" \/ (e.asof # NoTime /\ s.now - e.asof > MaxAge),
                "EVIDENCE_STALE", "NONE")
      \cup when(\E e \in inputs : e.complete # "COMPLETE", "EVIDENCE_INCOMPLETE", "NONE")
      \cup when(open # {}, "OPEN_SAFETY_CRITICAL_GAP", "SAFETY_GAP")

RecoveryChecks(s) ==
  LET unresolved == \/ s.work.recovery_unresolved
                    \/ \E e \in s.effects : e.status \in UNRESOLVED_EFFECT_STATES
  IN  (IF unresolved
       THEN {Check("RECOVERY", "INCONCLUSIVE", "RECOVERY_UNRESOLVED", "RECOVERY_FINALITY")} ELSE {})
      \cup (IF s.work.terminal /\ (s.work.pending_reads \/ unresolved)
            THEN {Check("RECOVERY", "FAIL", "CLOSURE_INVARIANT_VIOLATION", "NONE")} ELSE {})

PolicyChecks(s) ==
  IF s.work.policy_invalid
  THEN {Check("POLICY", "FAIL", "FORBIDDEN_EFFECT_OBSERVED", "SAFE_POLICY")} ELSE {}

Checks(s) ==
  {MoneyCheck(s), IdentityCheck(s)} \cup StateChecks(s)
  \cup {EffectCheck(s, e) : e \in s.effects}
  \cup SufficiencyChecks(s) \cup PolicyChecks(s) \cup RecoveryChecks(s)

\* A dimension is the aggregate of its checks, OUTCOME that of the four that
\* describe the business; the verdict is the aggregate of all eight.
Dimension(checks, d) ==
  LET statuses == {c.status : c \in {x \in checks :
                     \/ x.dimension = d
                     \/ d = "OUTCOME" /\ x.dimension \in {"MONEY", "IDENTITY", "STATE_CONVERGENCE",
                                                          "SIDE_EFFECT"}}}
  IN  IF d # "OUTCOME" /\ statuses = {"NOT_APPLICABLE"} THEN "NOT_APPLICABLE"
      ELSE aggregate(statuses)

ReportOf(path, checks, dimensions) ==
  [path |-> path, reasons |-> {c.reason : c \in checks} \ {"NONE"},
   unresolved |-> {c.requirement : c \in checks} \ {"NONE"}, dimensions |-> dimensions,
   verdict |-> aggregate({dimensions[d] : d \in EvaluationDimension})]

Judged(path, checks) ==
  ReportOf(path, checks, [d \in EvaluationDimension |-> Dimension(checks, d)])

Report(s) == Judged(Path(s), Checks(s))
=============================================================================

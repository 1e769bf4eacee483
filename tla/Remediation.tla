---------------------------- MODULE Remediation ----------------------------
(***************************************************************************)
(* The proposal stage: eligibility, the catalog of actions, the validation *)
(* of a candidate against the evidence it cites, the preflight on a fresh  *)
(* reading, and the choice among the candidates that are ready.  Nothing   *)
(* here dispatches an effect.  A state is what InvestigationStateReader    *)
(* reads: the Case status, the index, the graph and the snapshot identity, *)
(* which changes with every publication.                                   *)
(***************************************************************************)
EXTENDS Hypotheses

REPLAY == "REPLAY_CALLBACK_CONSUMPTION"
REDELIVER == "REDELIVER_ASSET_NOTIFICATION"
RECONCILE == "CREATE_RECONCILIATION_TASK"
REVIEW == "REQUEST_OPERATOR_REVIEW"
NO_ACTION == "NO_REMEDIATION"

RemediationActionType == {NO_ACTION, REPLAY, REDELIVER, RECONCILE, REVIEW}

PreflightStatus == {"READY", "NOT_NEEDED", "STALE", "BLOCKED"}

TerminalStatus == {"CLOSED", "CLOSED_VERIFIED"}

CaseStatus == {"NEW", "INVESTIGATING", "WAITING", "ESCALATED"} \cup TerminalStatus

\* The catalog: risk, selection role and scope of each action, both ranked
\* as selection_key ranks them, and the Case states it may be proposed in.
Contract(action) ==
  CASE action \in {REPLAY, REDELIVER} ->
         [risk |-> 2, role |-> 0, scope |-> 1, states |-> {"INVESTIGATING", "ESCALATED"}]
    [] action = RECONCILE -> [risk |-> 1, role |-> 1, scope |-> 2, states |-> CaseStatus \ TerminalStatus]
    [] action = REVIEW -> [risk |-> 1, role |-> 2, scope |-> 2, states |-> CaseStatus \ TerminalStatus]
    [] action = NO_ACTION -> [risk |-> 0, role |-> 3, scope |-> 0, states |-> CaseStatus]

\* What a candidate may be about.
Candidate == [action : RemediationActionType, problems : SUBSET STRING, cited : SUBSET EvidenceRecord]

StateOf(status, ix, snapshot) ==
  [status |-> status, index |-> ix, snapshot |-> snapshot,
   graph |-> IndexedGraph(ix, status = "INVESTIGATING")]

State(status, stored, snapshot) == StateOf(status, Index(stored), snapshot)

OpenSafetyGap(s) ==
  \E g \in s.graph.gaps : g.status = "OPEN" /\ g.priority = "SAFETY_CRITICAL"

\* Whether a plan is asked for, and its eligibility status.
Eligibility(s) ==
  LET answer(status, plans) == [status |-> status, can_plan |-> plans]
  IN  IF s.status \in TerminalStatus THEN answer("NO_REMEDIATION_NEEDED", FALSE)
      ELSE IF s.index.all = {} THEN answer("INVESTIGATION_INCOMPLETE", FALSE)
      ELSE IF s.graph.identity.result # "MATCH" THEN answer("IDENTITY_UNSAFE", TRUE)
      ELSE IF OpenSafetyGap(s) THEN answer("SAFETY_GAP_OPEN", TRUE)
      ELSE IF s.status \notin {"INVESTIGATING", "ESCALATED"} THEN answer("INVESTIGATION_INCOMPLETE", TRUE)
      ELSE answer("ELIGIBLE", TRUE)

same_record(a, b) == a.kind = b.kind /\ a.id = b.id /\ a.obs = b.obs /\ a.at = b.at

If(condition, reason) == IF condition THEN {reason} ELSE {}

NoTarget == [message |-> "NONE", callback |-> "NONE", delivery |-> "NONE"]

\* The result of an action's own validation: the target bound from the
\* cited evidence, the supporting evidence, the reasons to reject.
Outcome(target, support, reasons) == [target |-> target, support |-> support, reasons |-> reasons]

\* What a replay of each failed pair has to cite: the pair, the callback's
\* signature and, for a schema failure, its whole error witness, without
\* which the pair is broken.
ReplayEvidence(ix, pairs, errors) ==
  {[pair |-> p,
    signed |-> {e \in facts(ix, "CALLBACK_SIGNATURE_VERIFIED", "TRUE", {"CALLBACK", "CALLBACK_RAW"}) :
                  same_record(e, p[1])},
    details |-> UNION {g.items : g \in {x \in errors : x.failed = p[2]}},
    schema |-> \E e \in Now(ix, "MESSAGE_ERROR_CODE") :
                 /\ e.value = "CALLBACK_SCHEMA_MISMATCH"
                 /\ e.id = p[2].id /\ e.callback = p[2].callback]
   : p \in pairs}

Broken(r) == r.schema /\ r.details = {}

ReplayItems(r) == {r.pair[1], r.pair[2]} \cup r.signed \cup r.details

ReplayReasons(s, c, replays, groups) ==
  LET confirmed(h) == s.graph.results[h].status = "CONFIRMED"
  IN  If(~confirmed("H6"), "HYPOTHESIS_NOT_CONFIRMED")
      \cup If(\/ c.problems \cap {"H6", "H6_SCHEMA_MISMATCH", "CALLBACK_CONSUMPTION"} = {}
              \/ groups = {} \/ \E r \in replays : Broken(r), "EVIDENCE_DOES_NOT_SUPPORT_ACTION")
      \cup If(~confirmed("H6_SCHEMA_MISMATCH") /\ \E r \in replays : r.details # {},
              "HYPOTHESIS_NOT_CONFIRMED")
      \cup If(Cardinality({<<r.pair[1].id, r.pair[2].id>> : r \in groups}) > 1, "AMBIGUOUS_TARGET")

ReplayOutcome(s, groups, reasons) ==
  LET one == CHOOSE r \in groups : TRUE
  IN  IF groups = {} THEN Outcome(NoTarget, {}, reasons)
      ELSE Outcome([NoTarget EXCEPT !.message = one.pair[2].id, !.callback = one.pair[1].id],
                   ReplayItems(one) \cup s.graph.identity.refs, reasons)

ReplayBinding(s, c, replays, groups) ==
  ReplayOutcome(s, groups, ReplayReasons(s, c, replays, groups))

ReplayChoice(s, c, replays) ==
  ReplayBinding(s, c, replays,
                {r \in replays : ~Broken(r) /\ r.signed # {} /\ ReplayItems(r) \subseteq c.cited})

\* A replay binds the one failed message all of whose evidence the candidate
\* cites.
ValidateReplay(s, c) ==
  ReplayChoice(s, c, ReplayEvidence(s.index, callback_pairs(s.index, "FAILED"),
                                    mismatch_groups(s.index)))

ValidateRedelivery(s, c) ==
  LET ix == s.index
      local == facts(ix, "GUARANTEE_STATUS", "SUCCESS", {"GUARANTEE"})
      asset == facts(ix, "ASSET_STATUS", "PROCESSING", {"ASSET"})
      delivery == facts(ix, "ASSET_DELIVERY_STATUS", "FAILED", {"ASSET_DELIVERY"})
      refs == {e \in Now(ix, "ASSET_DELIVERY_EVENT_REF") :
                 e.tool = "ASSET_DELIVERY" /\ \E d \in delivery : same_record(e, d)}
      done == facts(ix, "ASSET_STATUS", "SUCCESS", {"ASSET"})
              \cup facts(ix, "ASSET_DELIVERY_STATUS", "DELIVERED", {"ASSET_DELIVERY"}) # {}
      bound == /\ local # {} /\ asset # {} /\ delivery # {}
               /\ Cardinality({e.value : e \in refs}) = 1
      support == local \cup asset \cup delivery \cup refs \cup s.graph.identity.refs
      reasons == If(done, "ACTION_ALREADY_SATISFIED")
                 \cup If(\/ c.problems \cap {"H7", "ASSET_CONVERGENCE"} = {} \/ ~bound
                         \/ ~(support \subseteq c.cited), "EVIDENCE_DOES_NOT_SUPPORT_ACTION")
  IN  IF bound THEN Outcome([NoTarget EXCEPT !.delivery = (CHOOSE e \in refs : TRUE).value],
                            support, reasons)
      ELSE Outcome(NoTarget, {}, reasons)

\* A divergence of the two parties, or a settled payment against a guarantee
\* record that is still processing.
ValidateReconciliation(s, c) ==
  LET ix == s.index
      known(claim, tool) == (UNION {facts(ix, claim, v, {tool}) : v \in LoanStatus}) \cap c.cited
      apart == {p \in known("GUARANTEE_STATUS", "GUARANTEE") \X known("ASSET_STATUS", "ASSET") :
                  p[1].value # p[2].value}
      lagging == facts(ix, "GUARANTEE_STATUS", "PROCESSING", {"GUARANTEE"}) \cap c.cited
      divergence == IF apart # {} THEN UNION {{p[1], p[2]} : p \in apart}
                    ELSE IF lagging # {} /\ settled_witness(ix) # {}
                    THEN lagging \cup settled_witness(ix) ELSE {}
  IN  Outcome(NoTarget, divergence,
              If(\/ divergence = {} \/ ~(divergence \subseteq c.cited) \/ c.problems = {},
                 "EVIDENCE_DOES_NOT_SUPPORT_ACTION"))

ValidateReview(s, c) ==
  LET live == {h \in HypothesisId : s.graph.results[h].status \in {"CONFIRMED", "SUPPORTED"}}
              \cup {g.name : g \in {x \in s.graph.gaps : x.status = "OPEN"}}
  IN  Outcome(NoTarget, c.cited \cap s.index.all, If(c.problems \cap live = {}, "ACTION_NOT_NEEDED"))

Validation(s, c) ==
  CASE c.action = REPLAY -> ValidateReplay(s, c)
    [] c.action = REDELIVER -> ValidateRedelivery(s, c)
    [] c.action = RECONCILE -> ValidateReconciliation(s, c)
    [] c.action = REVIEW -> ValidateReview(s, c)
    [] c.action = NO_ACTION -> Outcome(NoTarget, c.cited \cap s.index.all, {})

\* The checks every candidate shares; a candidate of risk 2 needs a matched
\* identity, no open safety gap, and the whole identity among its current
\* citations.
SharedReasons(s, c) ==
  If(~(c.problems \subseteq HypothesisId \cup {g.name : g \in s.graph.gaps}), "UNKNOWN_PROBLEM")
  \cup If(~(c.cited \subseteq s.index.all), "EVIDENCE_NOT_FOUND")
  \cup If(s.status \notin Contract(c.action).states, "CASE_NOT_ACTIONABLE")

EffectReasons(s, c) ==
  LET identity == s.graph.identity
  IN  If(identity.result = "MISMATCH", "IDENTITY_MISMATCH")
      \cup If(identity.result = "UNKNOWN", "IDENTITY_UNKNOWN")
      \cup If(OpenSafetyGap(s), "UNRESOLVED_SAFETY_GAP")
      \cup If(~(c.cited \subseteq s.index.now), "EVIDENCE_NOT_CURRENT")
      \cup If(~(identity.refs \subseteq c.cited), "EVIDENCE_DOES_NOT_SUPPORT_ACTION")

Validated(s, c, own) ==
  [candidate |-> c, target |-> own.target, support |-> own.support, snapshot |-> s.snapshot,
   reasons |-> SharedReasons(s, c) \cup own.reasons
               \cup (IF Contract(c.action).risk = 2 THEN EffectReasons(s, c) ELSE {})]

Validate(s, c) == Validated(s, c, Validation(s, c))

\* The complete current attestation of the consumer of a message.
DeploymentClaims == {"CONSUMER_DEPLOYED_SCHEMA_VERSION", "CONSUMER_ACCEPTED_PROTOCOL_VERSION",
                     "CONSUMER_LOAN_NO_FIELD_TYPE"}

deployment_witness(ix, m) ==
  LET versions == {v \in Now(ix, "CONSUMER_DEPLOYED_SCHEMA_VERSION") :
                     /\ v.id = m.id /\ v.tool = "MESSAGES" /\ v.callback = m.callback
                     /\ v.at # NoTime /\ m.at # NoTime /\ v.at >= m.at}
      fields(v, claim) == {e \in Now(ix, claim) :
                             /\ same_record(e, v) /\ e.source = "PRIMARY" /\ e.tool = "MESSAGES"
                             /\ e.callback = v.callback}
      known(v) == \A claim \in DeploymentClaims :
                    /\ Cardinality({e.value : e \in fields(v, claim)}) = 1
                    /\ Cardinality({e.value : e \in {x \in Now(ix, claim) : x.id = v.id}}) = 1
      good == {v \in versions : known(v)}
  IN  IF good = {} THEN {}
      ELSE LET v == CHOOSE x \in good : TRUE
           IN  UNION {fields(v, claim) : claim \in DeploymentClaims}

PreflightReplay(s, v) ==
  LET ix == s.index
      of(value) == {m \in messages(ix, value) : /\ m.id = v.target.message
                                                /\ m.callback = v.target.callback}
      groups == {g \in mismatch_groups(ix) : g.failed \in of("FAILED")}
      deployed == UNION {deployment_witness(ix, g.failed) : g \in groups}
      value(claim) == {e.value : e \in {x \in deployed : x.claim = claim}}
      accepted == UNION {facts(ix, "CALLBACK_PROTOCOL_VERSION", x, {"CALLBACK", "CALLBACK_RAW"})
                         : x \in value("CONSUMER_ACCEPTED_PROTOCOL_VERSION")}
      compatible == /\ \E e \in accepted : e.id = v.target.callback
                    /\ \A g \in groups : g.actual = value("CONSUMER_LOAN_NO_FIELD_TYPE")
  IN  IF of("CONSUMED") # {} THEN [status |-> "NOT_NEEDED", reasons |-> {"ACTION_ALREADY_SATISFIED"}]
      ELSE IF groups # {} /\ deployed = {}
      THEN [status |-> "BLOCKED", reasons |-> {"DEPLOYMENT_STATE_UNKNOWN"}]
      ELSE IF groups # {} /\ ~compatible
      THEN [status |-> "BLOCKED", reasons |-> {"DEPLOYMENT_INCOMPATIBLE"}]
      ELSE [status |-> "READY", reasons |-> {}]

PreflightRedelivery(s, v) ==
  LET ix == s.index
      delivered == {e \in facts(ix, "ASSET_DELIVERY_STATUS", "DELIVERED", {"ASSET_DELIVERY"}) :
                      \E r \in Now(ix, "ASSET_DELIVERY_EVENT_REF") :
                        r.value = v.target.delivery /\ r.obs = e.obs}
  IN  IF delivered \cup facts(ix, "ASSET_STATUS", "SUCCESS", {"ASSET"}) # {}
      THEN [status |-> "NOT_NEEDED", reasons |-> {"ACTION_ALREADY_SATISFIED"}]
      ELSE [status |-> "READY", reasons |-> {}]

\* What the action's own handler says.
Handle(s, v) ==
  CASE v.candidate.action = REPLAY -> PreflightReplay(s, v)
    [] v.candidate.action = REDELIVER -> PreflightRedelivery(s, v)
    [] OTHER -> [status |-> "READY", reasons |-> {}]

\* Mutant: only the handler is asked again.
SharedChecks_skipped(s, v, handled, again) == handled

\* The shared checks come after the handler and overrule it unless nothing
\* is needed: a changed snapshot is stale, and the validation is repeated.
SharedChecks(s, v, handled, again) ==
  IF handled.status = "NOT_NEEDED" THEN handled
  ELSE IF v.snapshot # s.snapshot THEN [status |-> "STALE", reasons |-> {"STALE_SNAPSHOT"}]
  ELSE IF again.reasons # {} THEN [status |-> "BLOCKED", reasons |-> again.reasons]
  ELSE IF again # v THEN [status |-> "BLOCKED", reasons |-> {"TARGET_BINDING_MISMATCH"}]
  ELSE handled

PreviewOf(s, v, checked) ==
  [validated |-> v, status |-> checked.status, reasons |-> checked.reasons, fresh |-> s.snapshot]

\* The preflight of validated candidate v on the fresh state s.
Preview(s, v) == PreviewOf(s, v, SharedChecks(s, v, Handle(s, v), Validate(s, v.candidate)))

\* A preview that was ready is not, once the snapshot it saw is outdated.
Recheck(preview, snapshot) ==
  IF preview.status = "READY" /\ preview.fresh # snapshot
  THEN [preview EXCEPT !.status = "STALE", !.reasons = {"STALE_SNAPSHOT"}]
  ELSE preview

\* The ready candidates that come first: by role, then scope, then risk.
Best(previews) ==
  LET ready == {p \in previews : p.status = "READY"}
      key(p) == LET e == Contract(p.validated.candidate.action)
                IN  e.role * 100 + e.scope * 10 + e.risk
  IN  {p \in ready : \A q \in ready : key(p) <= key(q)}
=============================================================================

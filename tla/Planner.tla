------------------------------ MODULE Planner ------------------------------
(***************************************************************************)
(* From a Case and its evidence to one authorized next step: the catalog   *)
(* of tool capabilities, the compacted lookup history, the reasoning       *)
(* snapshot a model is shown, the validation and the hard policy a         *)
(* proposal must pass, the ranking, and the offline model that proposes    *)
(* from the snapshot alone.  Everything is a function of a snapshot; Agent *)
(* has the loop around it.                                                 *)
(***************************************************************************)
EXTENDS Hypotheses

CONSTANTS
  AllowedTools,  \* the Case's tools that are not forbidden
  MaxHistory,    \* ContextBudget.max_history_items
  MaxPreview     \* ContextBudget.max_relation_ref_preview

ASSUME PlannerAssumption ==
  /\ AllowedTools \subseteq ToolName
  /\ MaxHistory \in Nat /\ MaxPreview \in Nat

\* Requirements no extractor supplies; a tool may still contribute to one.
UncollectedClaimType ==
  {"DEPLOYED_CONSUMER_SCHEMA_VERSION", "FUND_REQUEST_PROTOCOL_APPLICABILITY",
   "REQUEST_ASSOCIATION", "CALLBACK_EVENT_ASSOCIATION",
   "FUND_REJECTION_WITHOUT_DISBURSEMENT"}

CallbackClaimTypes == {"CALLBACK_GATEWAY_RECEIVED", "CALLBACK_SIGNATURE_VERIFIED",
                       "CALLBACK_PROTOCOL_VERSION"}

\* What each tool can produce, besides the status of its own lookup, and
\* the uncollected requirements it contributes to.
Produces ==
  [ASSET |-> {"ASSET_STATUS"},
   GUARANTEE |-> {"GUARANTEE_STATUS", "GUARANTEE_VERSION"},
   FUND |-> {"FUND_BUSINESS_STATUS", "LOAN_NO_PRESENT", "LOAN_NOTE_REFERENCE"},
   PAYMENT |-> IDENTITY_CLAIMS,
   LOAN_NOTE |-> {"LOAN_NO_PRESENT", "LOAN_NOTE_REFERENCE"},
   CALLBACK |-> CallbackClaimTypes, CALLBACK_RAW |-> CallbackClaimTypes,
   MESSAGES |-> {"MESSAGE_CONSUME_STATUS", "MESSAGE_DLQ"} \cup MessageErrorClaims,
   ACCOUNTING |-> {"ACCOUNTING_ENTRY_PRESENT"},
   TRACE |-> {"REQUEST_SENT", "HTTP_RESPONSE_STATUS"},
   ASSET_DELIVERY |-> {"ASSET_DELIVERY_STATUS"},
   PROTOCOL |-> {"PROTOCOL_FIELD_TYPE", "PROTOCOL_BUSINESS_SEMANTICS"}]

REQUIREMENTS(tool) ==
  CASE tool = "GUARANTEE" -> {"REQUEST_ASSOCIATION", "FUND_REQUEST_PROTOCOL_APPLICABILITY"}
    [] tool \in {"TRACE", "FUND", "PAYMENT"} -> {"REQUEST_ASSOCIATION"}
    [] tool \in {"CALLBACK", "CALLBACK_RAW", "MESSAGES"} -> {"CALLBACK_EVENT_ASSOCIATION"}
    [] OTHER -> {}

Capability(tool) == Produces[tool] \cup {"SOURCE_LOOKUP_STATUS"}

\* What would fill each gap.
required_claim_types ==
  [PAYMENT_IDENTITY |-> IDENTITY_CLAIMS,
   PAYMENT_FINALITY |-> {"PAYMENT_FINALITY"},
   HTTP_RESPONSE_STATUS |-> {"HTTP_RESPONSE_STATUS"},
   REQUEST_ASSOCIATION |-> {"REQUEST_ASSOCIATION", "PAYMENT_FINALITY"},
   TRACE_REQUEST_STATUS |-> {"REQUEST_SENT"},
   CALLBACK_GATEWAY_OBSERVATION |-> {"CALLBACK_GATEWAY_RECEIVED"},
   CALLBACK_CONSUMPTION |-> {"MESSAGE_CONSUME_STATUS"},
   CALLBACK_EVENT_ASSOCIATION |-> {"CALLBACK_EVENT_ASSOCIATION"},
   CONSUMER_FAILURE_DETAILS |-> MessageErrorClaims,
   DEPLOYED_CONSUMER_SCHEMA_VERSION |-> {"DEPLOYED_CONSUMER_SCHEMA_VERSION"},
   CALLBACK_SCHEMA_PROTOCOL |-> {"CALLBACK_PROTOCOL_VERSION", "PROTOCOL_FIELD_TYPE"},
   FUND_PROTOCOL_APPLICABILITY |-> {"FUND_REQUEST_PROTOCOL_APPLICABILITY",
                                    "PROTOCOL_BUSINESS_SEMANTICS"},
   ASSET_CONVERGENCE |-> {"GUARANTEE_STATUS", "ASSET_DELIVERY_STATUS", "ASSET_STATUS"}]

addressed_requirements(tool, gap) ==
  required_claim_types[gap.name] \cap (Capability(tool) \cup REQUIREMENTS(tool))

Addresses(tool, gap) == addressed_requirements(tool, gap) # {}

(***************************************************************************)
(* The lookup history.                                                     *)
(***************************************************************************)
\* Mutant: a resume does not reopen the window.
lookup_groups_forever(evidence, retry) ==
  LET lookups == {e \in evidence : e.claim = "SOURCE_LOOKUP_STATUS"}
      same(l) == {e \in lookups : e.tool = l.tool /\ e.scope = l.scope /\ e.value = l.value}
  IN  {[tool |-> l.tool, scope |-> l.scope, status |-> l.value, count |-> Cardinality(same(l))]
       : l \in lookups}

\* The failed lookups by tool, scope and status, each with the number of
\* answers of that tool and scope, back from the latest, that ended so, no
\* further than the last resume.  An answer is an observation that left
\* evidence; two at one instant that disagree end the count.
lookup_groups(evidence, retry) ==
  LET lookups == {e \in evidence : e.claim = "SOURCE_LOOKUP_STATUS"}
      answers(l) == {[obs |-> e.obs, seen |-> e.seen,
                      status |-> IF e.claim = "SOURCE_LOOKUP_STATUS" THEN e.value ELSE "OK"]
                     : e \in {x \in evidence : x.tool = l.tool /\ x.scope = l.scope}}
      run(l) == {a \in answers(l) :
                   /\ a.seen >= retry
                   /\ \A b \in answers(l) : b.seen >= a.seen => b.status = l.value}
  IN  {[tool |-> l.tool, scope |-> l.scope, status |-> l.value, count |-> Cardinality(run(l))]
       : l \in lookups}

\* The order of the tools' names and of the protocol versions.
ToolOrder == <<"ACCOUNTING", "ASSET_DELIVERY", "ASSET", "CALLBACK", "CALLBACK_RAW", "FUND",
               "GUARANTEE", "LOAN_NOTE", "MESSAGES", "PAYMENT", "PROTOCOL", "TRACE">>

ToolRank(tool) == CHOOSE i \in DOMAIN ToolOrder : ToolOrder[i] = tool

VersionRank(v) == CASE v = "2.2" -> 1 [] v = "2.3" -> 2 [] OTHER -> 0

Before(a, b) ==
  \E i \in DOMAIN a : a[i] < b[i] /\ \A j \in 1 .. i - 1 : a[j] = b[j]

\* The groups a snapshot has room for, in the order of tool, scope, status.
Retained(groups) ==
  LET rank(g) == <<ToolRank(g.tool), VersionRank(g.scope), IF g.status = "NOT_FOUND" THEN 0 ELSE 1>>
  IN  {g \in groups : Cardinality({h \in groups : Before(rank(h), rank(g))}) < MaxHistory}

\* No lookup group was dropped, and every call of the Case left an
\* observation of its own among the evidence.
lookup_history_complete(case, evidence, groups) ==
  /\ Retained(groups) = groups
  /\ Cardinality({e.obs : e \in evidence}) >= case.used

(***************************************************************************)
(* The snapshot.                                                           *)
(***************************************************************************)
MandatoryContextFacts ==
  {"REQUEST_SENT", "HTTP_RESPONSE_STATUS", "FUND_BUSINESS_STATUS", "GUARANTEE_STATUS",
   "CALLBACK_GATEWAY_RECEIVED", "MESSAGE_CONSUME_STATUS"} \cup IDENTITY_CLAIMS

Related(graph, h, kinds) ==
  {e \in DOMAIN graph.results[h].relations : graph.results[h].relations[e] \in kinds}

Decisive(graph) ==
  UNION {Related(graph, h, {"DECISIVE_SUPPORT", "DECISIVE_CONTRADICTION"}) : h \in HypothesisId}

\* Of the evidence for or against a hypothesis a few are shown, of equal
\* lookups the first and the latest; which ones depends on their digests.
relation_refs(refs) ==
  LET lookups == {e \in refs : e.claim = "SOURCE_LOOKUP_STATUS"}
      group(e) == {x \in lookups : x.tool = e.tool /\ x.scope = e.scope /\ x.value = e.value}
      ends == {e \in lookups : \/ \A x \in group(e) : x.seen >= e.seen
                               \/ \A x \in group(e) : x.seen <= e.seen}
      kept == (refs \ lookups) \cup ends
  IN  IF Cardinality(kept) <= MaxPreview THEN kept
      ELSE CHOOSE shown \in kSubset(MaxPreview, kept) : TRUE

\* The current claims a snapshot shows: the mandatory ones, those a
\* confirmed hypothesis or the identity rests on, and of the rest those
\* that an undecided question needs and no preview has folded away.  A
\* confirmed hypothesis has nothing decisive against it, and an open safety
\* question has no witness (gaps.py:17-22): neither adds a mandatory fact.
current_facts(graph, evidence) ==
  LET open == {g \in graph.gaps : g.status = "OPEN"}
      live == HypothesisId \ Eliminated(graph)
      pro(h) == Related(graph, h, {"SUPPORTS", "DECISIVE_SUPPORT"})
      contra(h) == Related(graph, h, {"CONTRADICTS", "DECISIVE_CONTRADICTION"})
      previews == UNION {relation_refs(pro(h)) \cup relation_refs(contra(h)) : h \in live}
      folded == ((UNION {pro(h) \cup contra(h) : h \in HypothesisId}) \ Decisive(graph)) \ previews
      wanted == (UNION {CATALOG[h] : h \in live}) \cup UNION {required_claim_types[g.name] : g \in open}
      witness == graph.identity.refs
                 \cup UNION {Related(graph, h, {"DECISIVE_SUPPORT"}) : h \in Confirmed(graph)}
      shown(e) == /\ e \notin folded
                  /\ e \in previews \/ /\ e.claim \in wanted
                                       /\ e.claim = "PROTOCOL_FIELD_TYPE" => e.field = "loanNo"
                                       /\ e.claim = "PROTOCOL_BUSINESS_SEMANTICS" => e.field = "SUCCESS"
  IN  {e \in current(evidence) : e.claim \in MandatoryContextFacts \/ e \in witness \/ shown(e)}

\* ReasoningContextAssembler.build, for the Case row and its evidence.  The
\* Case row stands for the snapshot's identity: its revision moves with
\* every publication.
Snapshot(case, evidence, graph) ==
  LET groups == lookup_groups(evidence, case.retry)
  IN  [case |-> case,
       gaps |-> {g \in graph.gaps : g.status = "OPEN"},
       undecided |-> HypothesisId \ (Confirmed(graph) \cup Eliminated(graph)),
       facts |-> current_facts(graph, evidence),
       lookups |-> Retained(groups),
       complete |-> lookup_history_complete(case, evidence, groups),
       tools |-> AllowedTools,
       remaining |-> case.max - case.used,
       allowed |-> case.status \in {"NEW", "INVESTIGATING"} /\ case.used < case.max]

(***************************************************************************)
(* Proposals.                                                              *)
(***************************************************************************)
\* A candidate: its place in the order of candidate ids, the query of a
\* CALL_TOOL, the gaps it targets, the claims it expects, the reason and
\* the capability an escalation asks for.
Candidate ==
  [id : Nat, type : {"CALL_TOOL", "WAIT", "ESCALATE"}, tool : ToolName \cup {"NONE"},
   version : STRING, targets : SUBSET DOMAIN required_claim_types,
   expected : SUBSET ClaimType, reason : STRING,
   requested : UncollectedClaimType \cup {"NONE"}]

CallTool(id, tool, version, targets, expected) ==
  [id |-> id, type |-> "CALL_TOOL", tool |-> tool, version |-> version, targets |-> targets,
   expected |-> expected, reason |-> "NONE", requested |-> "NONE"]

Defer(id, type, targets, reason, requested) ==
  [id |-> id, type |-> type, tool |-> "NONE", version |-> "NONE", targets |-> targets,
   expected |-> {}, reason |-> reason, requested |-> requested]

Targeted(s, c) == {g \in s.gaps : g.name \in c.targets}

\* The versions a PROTOCOL query may name: those already observed.
KnownVersions(s) ==
  ({f.protocol : f \in s.facts} \cup {g.scope : g \in s.lookups}) \ {"NONE"}

\* CandidateValidator.validate: the reasons to reject c.
validate_candidate(s, c) ==
  LET targets == Targeted(s, c)
      reject(condition, reason) == IF condition THEN {reason} ELSE {}
  IN  reject(~(c.targets \subseteq {g.name : g \in s.gaps}), "UNKNOWN_TARGET_GAP")
      \cup (IF c.type # "ESCALATE" THEN {} ELSE
            reject(/\ c.requested # "NONE"
                   /\ \A g \in targets : c.requested \notin required_claim_types[g.name],
                   "ESCALATION_CAPABILITY_MISMATCH")
            \cup reject(/\ c.reason = "NO_AVAILABLE_TOOL"
                        /\ \E g \in targets, t \in s.tools : Addresses(t, g),
                        "ESCALATION_REASON_INCONSISTENT"))
      \cup (IF c.type # "CALL_TOOL" THEN {} ELSE
            reject(c.tool \notin s.tools, "TOOL_NOT_AVAILABLE")
            \cup reject(IF c.tool = "PROTOCOL" THEN c.version \notin KnownVersions(s)
                        ELSE c.version # "NONE", "INVALID_PROTOCOL_QUERY")
            \cup reject(c.tool \in s.tools /\ ~(c.expected \subseteq Capability(c.tool)),
                        "EXPECTED_CLAIM_NOT_PRODUCED")
            \cup reject(c.tool \in s.tools /\ \A g \in targets : ~Addresses(c.tool, g),
                        "TOOL_DOES_NOT_ADDRESS_TARGET_GAP"))

REPEATED_FAILURE_THRESHOLD == 3

repeated_count(s, c) ==
  Max({0} \cup {g.count : g \in {x \in s.lookups : x.tool = c.tool /\ x.scope = c.version}})

\* The safety gaps some tool of the Case could do something about.
actionable_safety(s) ==
  {g \in s.gaps : g.priority = "SAFETY_CRITICAL" /\ \E t \in s.tools : Addresses(t, g)}

\* Mutant: a source may be asked for ever.
policy_filter_without_repeats(s, c) ==
  validate_candidate(s, c)
  \cup IF c.type = "CALL_TOOL" /\ (~s.allowed \/ ~s.complete) THEN {"INVESTIGATION_NOT_ALLOWED"} ELSE {}

\* HardPolicyFilter.filter.  Every catalog entry is a read-only tool.
policy_filter(s, c) ==
  LET safety == actionable_safety(s)
      reject(condition, reason) == IF condition THEN {reason} ELSE {}
  IN  validate_candidate(s, c)
      \cup (IF c.type # "CALL_TOOL"
            THEN reject(safety # {} /\ safety \cap Targeted(s, c) = {},
                        "ACTIONABLE_SAFETY_GAP_NOT_TARGETED")
            ELSE reject(~s.allowed, "INVESTIGATION_NOT_ALLOWED")
                 \cup reject(s.remaining <= 0, "BUDGET_EXHAUSTED")
                 \cup reject(/\ safety # {}
                             /\ ~\E g \in safety \cap Targeted(s, c) :
                                  c.tool \in s.tools /\ Addresses(c.tool, g),
                             "ACTIONABLE_SAFETY_GAP_NOT_ADDRESSED")
                 \cup reject(~s.complete, "INCOMPLETE_LOOKUP_HISTORY")
                 \cup reject(repeated_count(s, c) >= REPEATED_FAILURE_THRESHOLD,
                             "REPEATED_NO_NEW_INFORMATION"))

(***************************************************************************)
(* Ranking.                                                                *)
(***************************************************************************)
Priority(g) == IF g.priority = "SAFETY_CRITICAL" THEN 3 ELSE 2

First(S, key(_)) == CHOOSE c \in S : \A d \in S \ {c} : Before(key(c), key(d))

\* The sort key of one accepted proposal.  Every tool costs the same, so
\* the economy of a call is 2 and that of a deferral 0.
RankingDetail(s, valid, c) ==
  LET known == {f.claim : f \in {e \in s.facts : e.fresh = "CURRENT" /\ e.complete = "COMPLETE"}}
      covered == {g \in s.gaps : \E d \in valid : /\ d.type = "CALL_TOOL" /\ g.name \in d.targets
                                                  /\ Addresses(d.tool, g)}
      targets == {g \in Targeted(s, c) : Addresses(c.tool, g)}
      requirements == UNION {addressed_requirements(c.tool, g) : g \in targets}
      related == UNION {g.hypotheses : g \in targets}
      best(S) == Max({0} \cup {Priority(g) : g \in S})
  IN  IF c.type = "CALL_TOOL"
      THEN <<-best(targets), -Cardinality(requirements \ known), -Cardinality(requirements),
             -Cardinality(related \cap s.undecided), -2, repeated_count(s, c), c.id>>
      ELSE <<-best(Targeted(s, c) \ covered), 0, 0, 0, 0, 0, c.id>>

\* PlannerService.plan: the selected candidate of a draft, or none.
plan(s, draft) ==
  LET valid == {c \in draft : policy_filter(s, c) = {}}
      detail(c) == RankingDetail(s, valid, c)
  IN  IF valid = {} THEN {} ELSE {First(valid, detail)}

(***************************************************************************)
(* The offline model.                                                      *)
(***************************************************************************)
\* What a query could add: the requirements this tool has no current claim
\* for, an association only while the tool has no current claim at all.
novel_claims(s, p, addressed) ==
  {c \in UNION {addressed_requirements(p.tool, g) : g \in addressed} :
     \A f \in s.facts : f.tool = p.tool
       => /\ f.claim # c \/ (p.version # "NONE" /\ f.protocol # p.version)
          /\ c \notin UncollectedClaimType}

\* InvestigationFakePlannerModel.plan: up to three candidates; none at all
\* is the error it raises when no gap is open.
fake_plan(s) ==
  LET targets == IF actionable_safety(s) # {} THEN actionable_safety(s) ELSE s.gaps
      names(S) == {g.name : g \in S}
      blocked == ~s.allowed \/ s.remaining = 0 \/ ~s.complete
      versions(t) == IF t = "PROTOCOL" THEN {f.protocol : f \in s.facts} \ {"NONE"} ELSE {"NONE"}
      queries == UNION {{[tool |-> t, version |-> v] : v \in versions(t)} : t \in s.tools \ {"CALLBACK_RAW"}}
      addressed(p) == {g \in targets : Addresses(p.tool, g)}
      stuck(p) == \E g \in s.lookups : g.tool = p.tool /\ g.scope = p.version /\ g.count >= 3
      probes == {p \in queries : addressed(p) # {}}
      novel(p) == novel_claims(s, p, addressed(p))
      useful == {p \in probes : ~stuck(p) /\ novel(p) # {}}
      key(p) == <<-Max({Priority(g) : g \in addressed(p)}), -Cardinality(novel(p)),
                  -Cardinality(UNION {g.hypotheses : g \in addressed(p)}),
                  ToolRank(p.tool), VersionRank(p.version)>>
      best == First(useful, key)
      reach == names(addressed(best))
      unsolvable == {g \in targets : \A t \in s.tools : ~Addresses(t, g)}
      chosen == IF unsolvable # {} THEN unsolvable ELSE targets
      missing == (UNION {required_claim_types[g.name] : g \in chosen}) \cap UncollectedClaimType
  IN  CASE targets = {} -> {}
        [] targets # {} /\ blocked ->
             {Defer(1, "ESCALATE", names(targets),
                    IF s.remaining = 0 THEN "BUDGET_EXHAUSTED" ELSE "POLICY_BLOCKED", "NONE")}
        [] targets # {} /\ ~blocked /\ useful # {} ->
             {CallTool(2, best.tool, best.version, reach, Capability(best.tool)),
              CallTool(3, "ACCOUNTING", "NONE", reach, {"ACCOUNTING_ENTRY_PRESENT"}),
              Defer(1, "ESCALATE", reach, "INSUFFICIENT_EVIDENCE", "NONE")}
        [] targets # {} /\ ~blocked /\ useful = {} ->
             {IF \E p \in probes : stuck(p)
              THEN Defer(1, "WAIT", names(targets), "REPEATED_SOURCE_FAILURE", "NONE")
              ELSE Defer(1, "ESCALATE", names(chosen),
                         IF unsolvable # {} THEN "NO_AVAILABLE_TOOL" ELSE "INSUFFICIENT_EVIDENCE",
                         IF missing = {} THEN "NONE" ELSE CHOOSE c \in missing : TRUE)}
=============================================================================

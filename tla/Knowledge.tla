------------------------------ MODULE Knowledge ------------------------------
(***************************************************************************)
(* Organizational knowledge as pure operators: which skill or verified     *)
(* experience applies to a Case, in the index's SQL and in the code that   *)
(* rechecks the primary record, how candidates rank, how skills compose,   *)
(* and how a guidance bundle is cut to its budgets.  A document is one     *)
(* record for both kinds: a skill has no source case.  Texts are their     *)
(* sizes.                                                                  *)
(***************************************************************************)
EXTENDS Naturals, Integers, FiniteSets, Sequences, SequencesExt, FiniteSetsExt

CONSTANT None

DocumentType == {"SKILL", "EXPERIENCE"}

SCOPE_FIELDS ==
  {"business_domain", "environment", "funding_partner", "asset_partner", "guarantee_partner",
   "product_code"}

GuidanceInvariant ==
  {"NO_NEW_DISBURSEMENT_WHILE_PAYMENT_UNKNOWN", "HISTORICAL_EXPERIENCE_CANNOT_SATISFY_CURRENT_GAP",
   "MEMORY_CANNOT_AUTHORIZE_SIDE_EFFECT", "CURRENT_EVIDENCE_OVERRIDES_HISTORICAL_PATTERN"}

SimilarityFeature ==
  {"request_transport_status", "fund_business_status", "payment_finality_at_detection",
   "payment_identity_state", "callback_gateway_state", "message_consume_state",
   "schema_mismatch_present", "asset_state", "guarantee_state", "accounting_state",
   "protocol_version"}

----------------------------------------------------------------------------
(* Eligibility.                                                            *)

\* A primary record as load validates it: a skill comes from no Case, an
\* experience from one, and the scope has a start; a query names its Case.
WellFormed(d) ==
  /\ d.kind \in DocumentType
  /\ d.applicable_since \in Int /\ d.applicable_until \in Int \cup {None}
  /\ (d.kind = "SKILL") = (d.source_case_id = None)

WellFormedQuery(q) == q.at \in Int /\ q.case # None

\* scope_filters, over the columns an index row copied from its document
SqlEligible_GenericHistory(d, q) ==
  /\ d.tenant = q.tenant
  /\ d.applicable_since <= q.at
  /\ d.applicable_until = None \/ d.applicable_until > q.at
  /\ d.source_case_id # q.case
  /\ \A f \in SCOPE_FIELDS : d.scope[f] \in {None, q.scope[f]}
  /\ d.protocol_versions = {} \/ d.protocol_versions \cap q.protocol_versions # {}

SqlEligible(d, q) ==
  /\ d.tenant = q.tenant
  /\ d.applicable_since <= q.at
  /\ d.applicable_until = None \/ d.applicable_until > q.at
  /\ d.source_case_id = None \/ d.source_case_id # q.case
  /\ \A f \in SCOPE_FIELDS :
       IF q.scope[f] = None THEN d.scope[f] = None
       ELSE d.scope[f] = q.scope[f] \/ (d.source_case_id = None /\ d.scope[f] = None)
  /\ d.protocol_versions = {} \/ d.protocol_versions \cap q.protocol_versions # {}

\* SourceDocument.eligible, over the validated primary record
Eligible(d, q) ==
  /\ d.tenant = q.tenant /\ d.source_case_id # q.case
  /\ ~ (d.applicable_since > q.at)
  /\ ~ (d.applicable_until # None /\ d.applicable_until <= q.at)
  /\ \A f \in SCOPE_FIELDS :
       d.scope[f] = q.scope[f] \/ (d.kind = "SKILL" /\ d.scope[f] = None)
  /\ d.protocol_versions = {} \/ d.protocol_versions \cap q.protocol_versions # {}

----------------------------------------------------------------------------
(* Ranking.                                                                *)

Known(value) == value \notin {None, "UNKNOWN"}

\* StructuredExperienceReranker: the features both signatures know and share
Overlap(signature, pattern) ==
  {f \in SimilarityFeature : Known(signature[f]) /\ signature[f] = pattern[f]}

Score(features) ==
  MapThenSumSet(LAMBDA f : IF f \in {"request_transport_status", "schema_mismatch_present"} THEN 3 ELSE 1,
                features)
\* rank_key without the tie-break on the document id; gaps are sets of claims
RankKey(d, q, distance) ==
  LET Coverage(gaps) == MapThenSumSet(LAMBDA g : Cardinality(d.claims \cap g.required), gaps)
  IN << - Coverage({g \in q.gaps : g.priority = "SAFETY_CRITICAL"}), - Coverage(q.gaps),
        - Score(Overlap(q.signature, d.signature)),
        - (Cardinality({f \in SCOPE_FIELDS : d.scope[f] # None}) + (IF d.protocol_versions = {} THEN 0 ELSE 1)),
        - Cardinality(d.claims \cap q.available), - d.safety, distance >>

LexLess(a, b) ==
  \E i \in DOMAIN a : a[i] < b[i] /\ \A j \in 1..(i - 1) : a[j] = b[j]

TopK(kind) == IF kind = "SKILL" THEN 4 ELSE 3

\* rerank of the candidates and the cut to the kind's limit
Rerank(docs, q, kind, distance) ==
  LET Better(c, d) == LexLess(RankKey(c, q, distance[c]), RankKey(d, q, distance[d]))
  IN {d \in docs : Cardinality({c \in docs : Better(c, d)}) < TopK(kind)}

----------------------------------------------------------------------------
(* Skill composition and the guidance bundle.  A skill is its strategies'  *)
(* sizes and the invariants it declares enforced or not; an experience is  *)
(* the size of its capsule.                                                *)

MAX_STRATEGIES == 8

Sum(s) == FoldLeft(LAMBDA a, b : a + b, 0, s)

\* SkillComposer.compose: None is the organizational safety conflict
Compose(skills) ==
  IF \E i \in DOMAIN skills : \E v \in DOMAIN skills[i].enforced : ~ skills[i].enforced[v] THEN None
  ELSE [i \in DOMAIN skills |-> [strategies |-> skills[i].strategies,
          invariants |-> GuidanceInvariant \cup DOMAIN skills[i].enforced]]

\* the first four skills, with the strategies the common budget still admits
Selected(composed) ==
  LET first == SubSeq(composed, 1, IF Len(composed) < 4 THEN Len(composed) ELSE 4)
      Before(i) == Sum([j \in 1..(i - 1) |-> Len(first[j].strategies)])
      Room(i) == IF Before(i) < MAX_STRATEGIES THEN MAX_STRATEGIES - Before(i) ELSE 0
  IN [i \in DOMAIN first |-> [first[i] EXCEPT !.strategies =
        SubSeq(@, 1, IF Len(@) < Room(i) THEN Len(@) ELSE Room(i))]]

Strategies(skills) == Sum([i \in DOMAIN skills |-> Len(skills[i].strategies)])

\* len(model_dump_json): each skill's invariants always cost
Size(skills, experiences) ==
  Sum([i \in DOMAIN skills |-> Cardinality(skills[i].invariants) + Sum(skills[i].strategies)])
  + Sum(experiences)

\* the last strategy of the last skill that has one
DropStrategy(skills) ==
  LET last == Max({i \in DOMAIN skills : skills[i].strategies # <<>>})
  IN [skills EXCEPT ![last].strategies = Front(@)]

\* The bundle after n turns of the loop: experiences go first, from the end.
AfterTurns(skills, experiences, n) ==
  LET dropped == IF n < Len(experiences) THEN n ELSE Len(experiences)
  IN [skills |-> FoldLeft(LAMBDA s, i : DropStrategy(s), skills, [i \in 1..(n - dropped) |-> i]),
      experiences |-> SubSeq(experiences, 1, Len(experiences) - dropped)]

None_Bundle(status, degradation) == [bundle |-> None, status |-> status, degradation |-> degradation]

\* InvestigationGuidanceService.build_result after selection; limit is
\* MAX_GUIDANCE_CHARS
BuildResult_CutsFirst(skills, experiences, limit) ==
  LET composed == Compose(SubSeq(skills, 1, IF Len(skills) < 4 THEN Len(skills) ELSE 4))
      turns == {n \in 0..(Len(experiences) + (IF composed = None THEN 0 ELSE Strategies(Selected(composed)))) :
                  composed # None /\ LET b == AfterTurns(Selected(composed), experiences, n)
                                     IN Size(b.skills, b.experiences) <= limit}
  IN IF composed = None THEN None_Bundle("INVALID_SKILL", "NONE")
     ELSE IF turns = {} THEN None_Bundle("EMPTY", "BUDGET_DROPPED")
     ELSE [bundle |-> AfterTurns(Selected(composed), experiences, Min(turns)),
           status |-> "AVAILABLE", degradation |-> "NONE"]
BuildResult(skills, experiences, limit) ==
  LET composed == Compose(skills)
      selected == Selected(composed)
      turns == {n \in 0..(Len(experiences) + Strategies(selected)) :
                  LET b == AfterTurns(selected, experiences, n) IN Size(b.skills, b.experiences) <= limit}
      bundle == AfterTurns(selected, experiences, Min(turns))
      cut == Strategies(selected) < Strategies(composed)
  IN IF composed = None THEN None_Bundle("INVALID_SKILL", "NONE")
     ELSE IF turns = {}
     THEN None_Bundle("EMPTY", IF cut \/ Len(experiences) + Strategies(selected) > 0
                               THEN "BUDGET_DROPPED" ELSE "NONE")
     ELSE IF bundle.skills = <<>> /\ bundle.experiences = <<>>
     THEN None_Bundle("EMPTY", IF cut \/ Min(turns) > 0 THEN "BUDGET_DROPPED" ELSE "NONE")
     ELSE [bundle |-> bundle, status |-> "AVAILABLE",
           degradation |-> IF cut \/ Min(turns) > 0 THEN "BUDGET_DROPPED" ELSE "NONE"]

\* validate_guidance: what the planner still accepts
ValidGuidance(bundle, limit) ==
  /\ Strategies(bundle.skills) <= MAX_STRATEGIES
  /\ Size(bundle.skills, bundle.experiences) <= limit
  /\ \A i \in DOMAIN bundle.skills : GuidanceInvariant \subseteq bundle.skills[i].invariants

=============================================================================

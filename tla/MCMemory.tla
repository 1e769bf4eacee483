------------------------------- MODULE MCMemory -------------------------------
(***************************************************************************)
(* Skills and experiences for TLC.  A behaviour is about one subject,      *)
(* chosen at the start: the index of one experience with two workers,      *)
(* searches over a skill and an experience, two experiences of which a     *)
(* search returns one, a skill in two embedding spaces, or the pure        *)
(* operators of Knowledge over bounded inputs: eligibility of a document   *)
(* for a query, ranking and guidance building.                             *)
(***************************************************************************)
EXTENDS MemoryIndex, TLC

VARIABLES subject, input

CONSTANTS sk, ex, fo, p1, p2, w1, w2

mcvars == <<vars, subject, input>>

Anywhere == [f \in SCOPE_FIELDS |-> None]
AtBank == [Anywhere EXCEPT !["funding_partner"] = "bank"]

Document(kind, tenant, scope, case) ==
  [kind |-> kind, tenant |-> tenant, scope |-> scope, protocol_versions |-> {}, source_case_id |-> case,
   applicable_since |-> 0, applicable_until |-> None, enforced |-> TRUE]

ThreeDocs == [d \in {sk, ex, fo} |->
  IF d = sk THEN Document("SKILL", "t1", Anywhere, None)
  ELSE IF d = ex THEN Document("EXPERIENCE", "t1", AtBank, "case-0")
  ELSE Document("EXPERIENCE", "t1", Anywhere, "case-0")]

OneTenant == [w \in {w1, w2} |-> "t1"]

BankQuery == [tenant |-> "t1", case |-> "case-1", at |-> 1, scope |-> AtBank, protocol_versions |-> {}]

TwoDocuments == INSTANCE MemoryIndex WITH Docs <- {sk, fo}, Workers <- {w1}, MaxFaults <- 1
MoreThanFit == INSTANCE MemoryIndex WITH Docs <- {ex, fo}, Workers <- {w1}, MaxFaults <- 0
TwoSpaces == INSTANCE MemoryIndex WITH Docs <- {sk}, Spaces <- {p1, p2}, Workers <- {w1}, MaxFaults <- 0

----------------------------------------------------------------------------
Scope(partner, product) ==
  [f \in SCOPE_FIELDS |-> IF f = "funding_partner" THEN partner ELSE IF f = "product_code" THEN product ELSE None]

Signature(transport, finality) ==
  [f \in SimilarityFeature |-> IF f = "request_transport_status" THEN transport
                               ELSE IF f = "payment_finality_at_detection" THEN finality ELSE None]

FilterDocs ==
  {[kind |-> k, tenant |-> t, scope |-> Scope(p, c), protocol_versions |-> v, applicable_since |-> s,
    applicable_until |-> u, source_case_id |-> IF k = "SKILL" THEN None ELSE o] :
     k \in DocumentType, t \in {"t1", "t2"}, p \in {None, "bank"}, c \in {None, "loan", "card"},
     v \in {{}, {"1"}}, s \in {1, 2}, u \in {None, 2, 3}, o \in {"case-1", "case-2"}}

FilterQueries ==
  {[tenant |-> "t1", case |-> "case-1", at |-> 2, scope |-> Scope(p, c), protocol_versions |-> v] :
     p \in {None, "bank"}, c \in {None, "loan"}, v \in {{}, {"1", "2"}}}

RankDocs ==
  {[id |-> i, scope |-> Scope(IF i = 3 THEN "bank" ELSE None, None), protocol_versions |-> {},
    claims |-> IF i = 1 THEN {"FINALITY"} ELSE IF i = 2 THEN {"FINALITY", "GATEWAY"}
               ELSE IF i < 5 THEN {"GATEWAY"} ELSE {},
    signature |-> Signature(IF i = 4 THEN "TIMEOUT" ELSE "UNKNOWN", None), safety |-> i] : i \in 1..6}

RankQueries ==
  {[gaps |-> {[priority |-> p, required |-> {"FINALITY"}], [priority |-> r, required |-> {"GATEWAY"}]},
    signature |-> Signature(t, None), available |-> a] :
     p, r \in {"SAFETY_CRITICAL", "DISCRIMINATING"}, t \in {"UNKNOWN", "TIMEOUT"}, a \in {{}, {"GATEWAY"}}}

Skill(sizes, enforced) ==
  [strategies |-> sizes, enforced |-> [v \in {"MEMORY_CANNOT_AUTHORIZE_SIDE_EFFECT"} |-> enforced]]

SkillLists ==
  UNION {[1..n -> {Skill(<<1>>, TRUE), Skill(<<1, 2, 1>>, TRUE), Skill(<<>>, FALSE)}] : n \in 0..5}

Inputs ==
  [what : {"FILTER"}, d : FilterDocs, q : FilterQueries]
  \cup [what : {"RANK"}, docs : SUBSET RankDocs, q : RankQueries, kind : DocumentType, near : 1..6]
  \cup [what : {"BUILD"}, skills : SkillLists, experiences : {<<>>, <<2>>, <<2, 1>>}, limit : {3, 9, 20, 40}]

MCInit ==
  /\ subject \in {"index", "search", "limit", "spaces", "rules"}
  /\ input = None
  /\ CASE subject = "search" -> TwoDocuments!Init
       [] subject = "limit" -> MoreThanFit!Init
       [] subject = "spaces" -> TwoSpaces!Init
       [] OTHER -> Init

MCNext ==
  \/ UNCHANGED <<subject, input>> /\ \/ subject = "index" /\ Next
                                     \/ subject = "search" /\ TwoDocuments!Next
                                     \/ subject = "limit" /\ MoreThanFit!Next
                                     \/ subject = "spaces" /\ TwoSpaces!Next
  \/ subject = "rules" /\ input = None /\ input' \in Inputs /\ UNCHANGED <<vars, subject>>

Indexing == subject = "index"

\* The worker loop ticks for ever and its ticks end: it rescans, claims what is
\* claimable, and a call to the provider returns.
Fairness ==
  /\ \A d \in Docs, s \in Spaces :
       WF_vars(Indexing /\ status[d] = "ACTIVE" /\ space[s] # "RETIRED" /\ Enqueue(d, s))
  /\ \A w \in Workers :
       /\ WF_vars(Indexing /\ Embed(w)) /\ WF_vars(Indexing /\ CompleteJob(w))
       /\ WF_vars(Indexing /\ Reject(w)) /\ WF_vars(Indexing /\ ReconcileWrite(w))
       /\ \A k \in Keys : SF_vars(Indexing /\ Claim(w, k))
       /\ \A s \in Spaces : SF_vars(Indexing /\ ReconcileRead(w, s) /\ ~ Ready(Serves[w], s))
  /\ \A k \in Keys : WF_vars(Indexing /\ ExpireLease(k)) /\ WF_vars(Indexing /\ BackoffOver(k))

MCSpec == MCInit /\ [][MCNext]_mcvars /\ Fairness

----------------------------------------------------------------------------
\* A space that stays active becomes ready for every tenant: each active
\* document is embedded in spite of crashes, failures and lost rows, and a
\* reconciliation records it.
EventuallyReady ==
  \A s \in Spaces, t \in Tenants :
    <>[](subject = "index" /\ space[s] = "ACTIVE") => <>[](subject = "index" /\ Ready(t, s))

----------------------------------------------------------------------------
(* The rules of Knowledge.                                                 *)

Of(what) == input # None /\ input.what = what

FilterAgrees == Of("FILTER") => (SqlEligible(input.d, input.q) = Eligible(input.d, input.q))

SafetyGapsFirst ==
  Of("RANK") =>
    LET distance == [d \in input.docs |-> IF d.id = input.near THEN 0 ELSE d.id]
        chosen == Rerank(input.docs, input.q, input.kind, distance)
        Covers(d) == Cardinality({g \in input.q.gaps :
                       g.priority = "SAFETY_CRITICAL" /\ g.required \subseteq d.claims})
    IN /\ \A c \in chosen, d \in input.docs \ chosen : Covers(d) <= Covers(c)
       /\ Cardinality(chosen) = IF Cardinality(input.docs) < TopK(input.kind)
                                THEN Cardinality(input.docs) ELSE TopK(input.kind)

\* The candidates are the right ones.  The SQL over the columns an index row
\* copied admits a document exactly when the recheck of the primary record
\* does: the index neither hides knowledge that applies nor proposes some that
\* would fail the whole retrieval.  And however near its vector is, no candidate
\* displaces one that covers more of the Case's safety-critical evidence gaps,
\* and the cut fills its places.
CandidatesAreRight == FilterAgrees /\ SafetyGapsFirst

Built == BuildResult(input.skills, input.experiences, input.limit)

\* A bundle always satisfies the planner's validation with every baseline
\* invariant enforced, and one skill that switches an invariant off, even one
\* the limit of four would have cut, leaves no bundle at all.  It reports
\* BUDGET_DROPPED exactly when a selected strategy or experience is missing from
\* it, and drops no experience that fits beside all the strategies kept.
GuidanceIsSafe ==
  Of("BUILD") =>
    /\ (\E i \in DOMAIN input.skills : \E v \in DOMAIN input.skills[i].enforced : ~ input.skills[i].enforced[v])
         => Built.bundle = None
    /\ Built.bundle # None =>
         LET kept == Strategies(Built.bundle.skills)
             wanted == Sum([i \in DOMAIN input.skills |-> Len(input.skills[i].strategies)])
             history == Built.bundle.experiences
         IN /\ ValidGuidance(Built.bundle, input.limit) /\ Len(Built.bundle.skills) <= 4
            /\ (Built.degradation = "BUDGET_DROPPED") = (kept < wanted \/ Len(history) < Len(input.experiences))
            /\ history # input.experiences
                 => Size(Built.bundle.skills, SubSeq(input.experiences, 1, Len(history) + 1)) > input.limit
=============================================================================

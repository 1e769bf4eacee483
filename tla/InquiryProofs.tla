---------------------------- MODULE InquiryProofs ----------------------------
(***************************************************************************)
(* What an inquiry may conclude, for every set of scenarios, tool calls,   *)
(* faults and world changes.                                               *)
(*                                                                         *)
(* The graph is a function of the stored evidence, so the argument is in   *)
(* two parts.  The first is about the rules alone: what a conclusion rests *)
(* on is current evidence.  The second is an induction: current evidence   *)
(* is what the primary showed at the instant of its call, and the world    *)
(* changes in one direction only.                                          *)
(***************************************************************************)
EXTENDS Inquiry, FiniteSetTheorems, SequenceTheorems, NaturalsInduction, WellFoundedInduction, TLAPS

(***************************************************************************)
(* The decisive evidence of each rule.                                     *)
(***************************************************************************)
FundIs(ix, v) == for_request(ix, facts(ix, "FUND_BUSINESS_STATUS", v, {"FUND"}))

HttpIs(ix, v) == for_request(ix, facts(ix, "HTTP_RESPONSE_STATUS", v, {"TRACE"}))

TimedOut(ix) == {e \in HttpIs(ix, "TIMEOUT") : e.request = ix.request}

Applied(ix) == facts(ix, "GUARANTEE_STATUS", "SUCCESS", {"GUARANTEE"})

Undelivered(ix) == facts(ix, "ASSET_DELIVERY_STATUS", "FAILED", {"ASSET_DELIVERY"})

PendingAt(ix) == facts(ix, "ASSET_STATUS", "PROCESSING", {"ASSET"})

Confirming(ix, h) ==
  CASE h = "H1" -> facts(ix, "REQUEST_SENT", "FALSE", {"TRACE"})
    [] h = "H4" -> IF TimedOut(ix) # {} /\ settled_witness(ix) # {}
                   THEN TimedOut(ix) \cup settled_witness(ix) ELSE {}
    [] h = "H6" -> Pairs(ix, "FAILED")
    [] h = "H6_SCHEMA_MISMATCH" -> schema_witness(ix)
    [] h = "H7" -> IF Applied(ix) # {} /\ Undelivered(ix) # {} /\ PendingAt(ix) # {}
                   THEN Applied(ix) \cup Undelivered(ix) \cup PendingAt(ix) ELSE {}
    [] h = "H8" -> applicable(ix)
    [] OTHER -> {}

Eliminating(ix, h) ==
  CASE h = "H1" -> facts(ix, "REQUEST_SENT", "TRUE", {"TRACE"})
    [] h = "H2" -> settled_witness(ix) \cup UNION {FundIs(ix, v) : v \in {"PROCESSING", "SUCCESS", "FAILED"}}
    [] h = "H3" -> settled_witness(ix)
    [] h = "H4" -> HttpIs(ix, "OK")
    [] h = "H5" -> gateway(ix)
    [] h = "H6" -> IF Pairs(ix, "FAILED") = {} THEN Pairs(ix, "CONSUMED") ELSE {}
    [] h = "H7" -> facts(ix, "ASSET_STATUS", "SUCCESS", {"ASSET"})
    [] OTHER -> {}

Decision(ix, inv, h, r) ==
  \E S : r = decide(ix, inv, h, S, Confirming(ix, h), Eliminating(ix, h))

LEMMA Rules ==
  ASSUME NEW ix, NEW inv, NEW h \in HypothesisId
  PROVE  Decision(ix, inv, h, evaluate_rules(ix, inv)[h])
  <1> DEFINE R == evaluate_rules(ix, inv)
  <1>1. CASE h = "H1"
    BY <1>1 DEF evaluate_rules, Decision, Confirming, Eliminating
  <1>2. CASE h = "H2"
    BY <1>2 DEF evaluate_rules, Decision, Confirming, Eliminating, FundIs
  <1>3. CASE h = "H3"
    BY <1>3 DEF evaluate_rules, Decision, Confirming, Eliminating
  <1>4. CASE h = "H4"
    BY <1>4 DEF evaluate_rules, Decision, Confirming, Eliminating, TimedOut, HttpIs
  <1>5. CASE h = "H5"
    BY <1>5 DEF evaluate_rules, Decision, Confirming, Eliminating
  <1>6. CASE h = "H6"
    BY <1>6 DEF evaluate_rules, Decision, Confirming, Eliminating
  <1>7. CASE h = "H6_SCHEMA_MISMATCH"
    BY <1>7 DEF evaluate_rules, Decision, Confirming, Eliminating
  <1>8. CASE h = "H6_STALE_CONSUMER_SCHEMA"
    BY <1>8 DEF evaluate_rules, Decision, Confirming, Eliminating
  <1>9. CASE h = "H7"
    BY <1>9 DEF evaluate_rules, Decision, Confirming, Eliminating, Applied, Undelivered, PendingAt
  <1>10. CASE h = "H8"
    BY <1>10 DEF evaluate_rules, Decision, Confirming, Eliminating
  <1>11. QED
    BY <1>1, <1>2, <1>3, <1>4, <1>5, <1>6, <1>7, <1>8, <1>9, <1>10 DEF HypothesisId

Sound(C, E, r) ==
  /\ r.status \in HypothesisStatus
  /\ (r.status = "CONFIRMED") = (C # {} /\ E = {})
  /\ (r.status = "ELIMINATED") = (E # {} /\ C = {})
  /\ \A e \in DOMAIN r.relations :
       /\ r.relations[e] \in RelationKind
       /\ r.relations[e] \in {"DECISIVE_SUPPORT", "DECISIVE_CONTRADICTION"} => e \in C \cup E

LEMMA Decides ==
  ASSUME NEW ix, NEW inv, NEW h, NEW S, NEW C, NEW E
  PROVE  Sound(C, E, decide(ix, inv, h, S, C, E))
  <1> DEFINE r == decide(ix, inv, h, S, C, E)
  <1>1. /\ r.status \in HypothesisStatus
        /\ (r.status = "CONFIRMED") = (C # {} /\ E = {})
        /\ (r.status = "ELIMINATED") = (E # {} /\ C = {})
    BY DEF decide, HypothesisStatus
  <1>2. ASSUME NEW e \in DOMAIN r.relations
        PROVE  /\ r.relations[e] \in RelationKind
               /\ r.relations[e] \in {"DECISIVE_SUPPORT", "DECISIVE_CONTRADICTION"} => e \in C \cup E
    BY <1>2 DEF decide, RelationKind
  <1>3. QED
    BY <1>1, <1>2 DEF Sound

LEMMA RulesAreSound ==
  ASSUME NEW ix, NEW inv, NEW h \in HypothesisId
  PROVE  Sound(Confirming(ix, h), Eliminating(ix, h), evaluate_rules(ix, inv)[h])
  <1>1. PICK S : evaluate_rules(ix, inv)[h] = decide(ix, inv, h, S, Confirming(ix, h), Eliminating(ix, h))
    BY Rules DEF Decision
  <1>2. QED
    BY <1>1, Decides


(***************************************************************************)
(* What is decisive is current.                                            *)
(***************************************************************************)
LEMMA IndexParts ==
  ASSUME NEW ev
  PROVE  /\ Index(ev).all = ev /\ Index(ev).now = current(ev)
         /\ Index(ev).request = request_id(current(ev))
         /\ Index(ev).identity = verify_payment_identity(IndexBase(ev))
         /\ IndexBase(ev).now = current(ev)
         /\ IndexBase(ev).request = request_id(current(ev))
  BY DEF Index, Identified, IndexBase

LEMMA FactsAre ==
  ASSUME NEW ix, NEW claim, NEW value, NEW tools, NEW e \in facts(ix, claim, value, tools)
  PROVE  /\ e \in ix.now /\ e.claim = claim /\ e.value = value
         /\ e.tool \in tools /\ e.source = "PRIMARY"
         /\ \A x \in ix.now : x.claim = claim /\ dimension(x) = dimension(e) => x.value = value
  BY DEF facts, agreed, Now

LEMMA PairsAre ==
  ASSUME NEW ix, NEW value, NEW p \in callback_pairs(ix, value)
  PROVE  /\ p[1] \in gateway(ix) /\ p[2] \in messages(ix, value) /\ p[2].callback = p[1].id
         /\ p[1] \in ix.now /\ p[2] \in ix.now
  <1>1. p[1] \in gateway(ix) /\ p[2] \in messages(ix, value) /\ p[2].callback = p[1].id
    BY DEF callback_pairs
  <1>2. QED
    BY <1>1, FactsAre DEF gateway, messages

LEMMA PairsNow ==
  ASSUME NEW ix, NEW value
  PROVE  Pairs(ix, value) \subseteq ix.now
  BY PairsAre DEF Pairs

LEMMA SchemaNow ==
  ASSUME NEW ix
  PROVE  schema_witness(ix) \subseteq ix.now
  <1>1. ASSUME NEW g \in mismatch_groups(ix) PROVE g.items \subseteq ix.now
    <2>1. \A f \in messages(ix, "FAILED") : f \in ix.now
      BY FactsAre DEF messages
    <2>2. QED
      BY <2>1 DEF mismatch_groups, mismatch_errors
  <1>2. ASSUME NEW g PROVE ParentWitness(ix, g) \subseteq ix.now
    BY PairsAre DEF ParentWitness
  <1>3. QED
    BY <1>1, <1>2 DEF schema_witness

LEMMA ApplicableNow ==
  ASSUME NEW ix
  PROVE  applicable(ix) \subseteq ix.now
  <1>1. protocol_bindings(ix) \subseteq ix.now
    BY DEF protocol_bindings, for_request, Now
  <1>2. semantics(ix) \subseteq ix.now
    BY FactsAre DEF semantics
  <1>3. QED
    BY <1>1, <1>2 DEF applicable

LEMMA RefsNow ==
  ASSUME NEW base
  PROVE  verify_payment_identity(base).refs \subseteq base.now
  <1> DEFINE A == Anchors(base)
             P == IdentityReadings(base)
             W == Witnesses(base, A, P)
  <1>1. A \subseteq base.now /\ P \subseteq base.now
    BY DEF Anchors, IdentityReadings
  <1>2. ASSUME NEW w \in W PROVE w.refs \subseteq P \cup A
    <2>1. PICK g \in TransactionGroups(P) : w = Witness(base, A, P, g)
      BY DEF Witnesses
    <2>2. g \subseteq P
      BY <2>1 DEF TransactionGroups
    <2>3. w.refs = g \cup A
      BY <2>1 DEF Witness
    <2>4. QED
      BY <2>2, <2>3
  <1>3. verify_payment_identity(base).refs = UNION {w.refs : w \in W}
    BY DEF verify_payment_identity, verify_witnesses, IdentityAnswer
  <1> HIDE DEF W, A, P
  <1>4. QED
    BY <1>1, <1>2, <1>3

LEMMA DecisiveNow ==
  ASSUME NEW ix, ix.identity.refs \subseteq ix.now, NEW h
  PROVE  Confirming(ix, h) \cup Eliminating(ix, h) \subseteq ix.now
  <1>1. settled_witness(ix) \subseteq ix.now
    BY DEF settled_witness
  <1>2. \A claim, value, tools : facts(ix, claim, value, tools) \subseteq ix.now
    BY FactsAre
  <1>3. \A claim, value, tools : for_request(ix, facts(ix, claim, value, tools)) \subseteq ix.now
    BY <1>2 DEF for_request
  <1>4. Confirming(ix, h) \subseteq ix.now
    BY <1>1, <1>2, <1>3, PairsNow, SchemaNow, ApplicableNow
       DEF Confirming, TimedOut, HttpIs, Applied, Undelivered, PendingAt
  <1>5. Eliminating(ix, h) \subseteq ix.now
    BY <1>1, <1>2, <1>3, PairsNow DEF Eliminating, FundIs, HttpIs, gateway
  <1>6. QED
    BY <1>4, <1>5


(***************************************************************************)
(* The graph of a set of evidence.                                         *)
(***************************************************************************)
LEMMA GraphParts ==
  ASSUME NEW ev
  PROVE  /\ Graph(ev, TRUE).results = evaluate_rules(Index(ev), TRUE)
         /\ Graph(ev, TRUE).gaps = derive_gaps(Index(ev), evaluate_rules(Index(ev), TRUE))
         /\ Graph(ev, TRUE).identity = Index(ev).identity
  BY DEF Graph, IndexedGraph, Assessed, GraphOf

LEMMA ResultsAreSound ==
  ASSUME NEW ev, NEW h \in HypothesisId
  PROVE  Sound(Confirming(Index(ev), h), Eliminating(Index(ev), h), Graph(ev, TRUE).results[h])
  BY GraphParts, RulesAreSound

LEMMA ConfirmedBy ==
  ASSUME NEW ev, NEW h \in Confirmed(Graph(ev, TRUE))
  PROVE  h \in HypothesisId /\ Confirming(Index(ev), h) # {} /\ Eliminating(Index(ev), h) = {}
  BY ResultsAreSound DEF Sound, Confirmed

LEMMA EliminatedBy ==
  ASSUME NEW ev, NEW h \in Eliminated(Graph(ev, TRUE))
  PROVE  h \in HypothesisId /\ Eliminating(Index(ev), h) # {} /\ Confirming(Index(ev), h) = {}
  BY ResultsAreSound DEF Sound, Eliminated

LEMMA DecisiveIsCurrent ==
  ASSUME NEW ev, NEW h
  PROVE  Confirming(Index(ev), h) \cup Eliminating(Index(ev), h) \subseteq current(ev)
  <1>1. Index(ev).identity.refs \subseteq Index(ev).now
    BY IndexParts, RefsNow
  <1>2. QED
    BY <1>1, IndexParts, DecisiveNow

(* A confirmed schema mismatch rests on the failed pairs that confirm its  *)
(* parent; the stale consumer is never confirmed.                          *)
LEMMA GraphsAreValid ==
  ASSUME NEW ev
  PROVE  validate(Graph(ev, TRUE))
  <1> DEFINE ix == Index(ev)
  <1> SUFFICES ASSUME NEW h \in Confirmed(Graph(ev, TRUE)), NEW p \in Parent(h)
               PROVE  p \in Confirmed(Graph(ev, TRUE))
    BY DEF validate
  <1>1. h \in HypothesisId /\ Confirming(ix, h) # {}
    BY ConfirmedBy
  <1>2. h = "H6_SCHEMA_MISMATCH" /\ p = "H6"
    BY <1>1 DEF Parent, Confirming
  <1>3. schema_witness(ix) # {}
    BY <1>1, <1>2 DEF Confirming
  <1>4. PICK g \in mismatch_groups(ix) : ParentWitness(ix, g) # {}
    BY <1>3 DEF schema_witness
  <1>5. callback_pairs(ix, "FAILED") # {}
    BY <1>4 DEF ParentWitness
  <1>6. Pairs(ix, "FAILED") # {}
    <2>1. PICK p1 \in callback_pairs(ix, "FAILED") : TRUE
      BY <1>5
    <2>2. p1[1] \in Pairs(ix, "FAILED")
      BY <2>1 DEF Pairs
    <2>3. QED
      BY <2>2
  <1>7. Confirming(ix, "H6") # {} /\ Eliminating(ix, "H6") = {}
    BY <1>6 DEF Confirming, Eliminating
  <1>8. "H6" \in HypothesisId
    BY DEF HypothesisId
  <1>9. Graph(ev, TRUE).results["H6"].status = "CONFIRMED"
    BY <1>7, <1>8, ResultsAreSound DEF Sound
  <1>10. QED
    BY <1>2, <1>8, <1>9 DEF Confirmed

\* The witness of gap g, if it is a safety gap, is w.
IsGap(g, name, w) == g.name = name /\ g.status = IF w # {} THEN "SATISFIED" ELSE "OPEN"

Final(ix) ==
  facts(ix, "PAYMENT_FINALITY", "SETTLED", {"PAYMENT"})
  \cup facts(ix, "PAYMENT_FINALITY", "NOT_EXECUTED", {"PAYMENT"})

Links(ix) == {e \in Now(ix, "HTTP_RESPONSE_STATUS") : ix.request # "NONE" /\ e.request = ix.request}

Paid(ix) ==
  for_request(ix, facts(ix, "TRANSACTION_FUND_REQUEST_ID", ix.request, {"PAYMENT"}))
  \cup payment(ix, "NOT_EXECUTED") \cup payment(ix, "PENDING")

Decisive(r) == {e \in DOMAIN r.relations : r.relations[e] \in {"DECISIVE_SUPPORT", "DECISIVE_CONTRADICTION"}}

SafetyGap(ix, R, g) ==
  \/ IsGap(g, "PAYMENT_IDENTITY", settled_witness(ix))
  \/ IsGap(g, "PAYMENT_FINALITY", Final(ix))
  \/ IsGap(g, "REQUEST_ASSOCIATION", IF Links(ix) # {} /\ Paid(ix) # {} THEN Links(ix) \cup Paid(ix) ELSE {})
  \/ IsGap(g, "FUND_PROTOCOL_APPLICABILITY", IF R["H8"].status = "CONFIRMED" THEN Decisive(R["H8"]) ELSE {})

GapsWellFormed(ix, R, G) ==
  \A g \in G :
    /\ g.status \in GapStatus /\ g.priority \in PriorityClass
    /\ \/ g.priority = "SAFETY_CRITICAL" \/ g.name \in {"PAYMENT_IDENTITY", "PAYMENT_FINALITY", "REQUEST_ASSOCIATION"}
       => SafetyGap(ix, R, g)

LEMMA GapIs ==
  ASSUME NEW n, NEW H, NEW w, NEW p
  PROVE  /\ Gap(n, H, w, p).name = n /\ Gap(n, H, w, p).priority = p
         /\ Gap(n, H, w, p).status = IF w # {} THEN "SATISFIED" ELSE "OPEN"
  BY DEF Gap


LEMMA GapsAre ==
  ASSUME NEW ix, NEW R
  PROVE  GapsWellFormed(ix, R, derive_gaps(ix, R))
  <1> SUFFICES ASSUME NEW g \in derive_gaps(ix, R)
               PROVE  /\ g.status \in GapStatus /\ g.priority \in PriorityClass
                      /\ \/ g.priority = "SAFETY_CRITICAL"
                         \/ g.name \in {"PAYMENT_IDENTITY", "PAYMENT_FINALITY", "REQUEST_ASSOCIATION"}
                         => SafetyGap(ix, R, g)
    BY DEF GapsWellFormed
  <1> DEFINE money == {"H2", "H3", "H4"}
             Other(n) == \E H, w : g = Gap(n, H, w, "DISCRIMINATING")
  <1>1. \/ g = Gap("PAYMENT_IDENTITY", money, settled_witness(ix), "SAFETY_CRITICAL")
        \/ g = Gap("PAYMENT_FINALITY", money, Final(ix), "SAFETY_CRITICAL")
        \/ g = Gap("REQUEST_ASSOCIATION", money,
                   IF Links(ix) # {} /\ Paid(ix) # {} THEN Links(ix) \cup Paid(ix) ELSE {},
                   "SAFETY_CRITICAL")
        \/ g = Gap("FUND_PROTOCOL_APPLICABILITY", {"H8"},
                   IF R["H8"].status = "CONFIRMED" THEN Decisive(R["H8"]) ELSE {},
                   "SAFETY_CRITICAL")
        \/ Other("ASSET_CONVERGENCE") \/ Other("HTTP_RESPONSE_STATUS")
        \/ Other("TRACE_REQUEST_STATUS") \/ Other("CALLBACK_GATEWAY_OBSERVATION")
        \/ Other("CALLBACK_CONSUMPTION") \/ Other("CALLBACK_EVENT_ASSOCIATION")
        \/ Other("CONSUMER_FAILURE_DETAILS") \/ Other("DEPLOYED_CONSUMER_SCHEMA_VERSION")
        \/ Other("CALLBACK_SCHEMA_PROTOCOL")
    BY ZenonT(60) DEF derive_gaps, Final, Links, Paid, Decisive
  <1>2. QED
    BY <1>1, GapIs DEF IsGap, SafetyGap, GapStatus, PriorityClass


(***************************************************************************)
(* The current evidence.                                                   *)
(***************************************************************************)
\* Fresh, complete, dated and not followed by a failed lookup.
Undoubted(ev, e) ==
  /\ e \in ev /\ e.claim # "SOURCE_LOOKUP_STATUS"
  /\ e.fresh = "CURRENT" /\ e.complete = "COMPLETE" /\ e.asof # NoTime
  /\ \A l \in ev : l.claim = "SOURCE_LOOKUP_STATUS" /\ l.tool = e.tool /\ l.scope = e.scope
                   => ~(l.seen >= e.seen)

LEMMA CurrentIs ==
  ASSUME NEW ev, NEW e
  PROVE  e \in current(ev) <=>
           /\ Undoubted(ev, e)
           /\ \A x : Undoubted(ev, x) /\ x.claim = e.claim /\ dimension(x) = dimension(e)
                     => business_time(x) <= business_time(e)
  <1> DEFINE lookups == {x \in ev : x.claim = "SOURCE_LOOKUP_STATUS"}
             C == {x \in ev \ lookups :
                     /\ x.fresh = "CURRENT" /\ x.complete = "COMPLETE" /\ x.asof # NoTime
                     /\ ~\E l \in lookups : l.tool = x.tool /\ l.scope = x.scope /\ l.seen >= x.seen}
  <1>1. current(ev) = latest(C)
    BY DEF current
  <1>2. \A x : x \in C <=> Undoubted(ev, x)
    BY Zenon DEF Undoubted
  <1> HIDE DEF C
  <1>3. e \in latest(C) <=> /\ e \in C
                            /\ \A x \in C : x.claim = e.claim /\ dimension(x) = dimension(e)
                                            => business_time(x) <= business_time(e)
    BY Zenon DEF latest
  <1>4. QED
    BY <1>1, <1>2, <1>3, Zenon

(* Without current evidence there is no conclusion and no safety gap is    *)
(* closed.                                                                 *)
LEMMA NothingCurrent ==
  ASSUME NEW ev, current(ev) = {}
  PROVE  /\ Confirmed(Graph(ev, TRUE)) \cup Eliminated(Graph(ev, TRUE)) = {}
         /\ \A g \in Graph(ev, TRUE).gaps : g.priority = "SAFETY_CRITICAL" => g.status = "OPEN"
  <1> DEFINE ix == Index(ev)
             R == evaluate_rules(ix, TRUE)
  <1>1. Confirmed(Graph(ev, TRUE)) \cup Eliminated(Graph(ev, TRUE)) = {}
    BY DecisiveIsCurrent, ConfirmedBy, EliminatedBy
  <1>2. ix.now = {} /\ settled_witness(ix) = {}
    <2>1. ix.now = {} /\ ix.identity.refs = {}
      BY IndexParts, RefsNow
    <2>2. QED
      BY <2>1 DEF settled_witness
  <1>3. Final(ix) = {} /\ Links(ix) = {}
    BY <1>2, FactsAre DEF Final, Links, Now
  <1>4. R["H8"].status # "CONFIRMED"
    <2>1. "H8" \in HypothesisId
      BY DEF HypothesisId
    <2>2. QED
      BY <1>1, <2>1, GraphParts DEF Confirmed
  <1>5. ASSUME NEW g \in derive_gaps(ix, R), g.priority = "SAFETY_CRITICAL"
        PROVE  g.status = "OPEN"
    <2>1. SafetyGap(ix, R, g)
      BY <1>5, GapsAre DEF GapsWellFormed
    <2>2. QED
      BY <2>1, <1>2, <1>3, <1>4 DEF SafetyGap, IsGap
  <1>6. QED
    BY <1>1, <1>5, GraphParts


(***************************************************************************)
(* The world: what holds of every frame, and how a later one differs from  *)
(* an earlier one.                                                         *)
(***************************************************************************)
AtMostOne(S) == \A a, b \in S : a = b

\* No record is younger than its frame.
Dated(w) ==
  /\ w.asset.at <= w.at /\ w.guarantee.at <= w.at /\ w.fund.at <= w.at
  /\ w.accounting.at <= w.at /\ w.trace.at <= w.at /\ w.delivery.at <= w.at
  /\ \A g \in w.gateway : g.at <= w.at
  /\ \A m \in w.messages : m.at <= w.at

MessagesOK(M) ==
  /\ AtMostOne(M)
  /\ \A m \in M : m.message = "MSG" /\ m.event = "CB" /\ AtMostOne(m.error) /\ m.at >= 0

GatewayOK(G) == AtMostOne(G) /\ \A g \in G : g.event = "CB"

FundOK(f) ==
  /\ validate_transaction(f) /\ AtMostOne(f.tx)
  /\ f.status # "NOT_RECEIVED" => f.accepted
  /\ f.tx # {} => f.status # "NOT_RECEIVED"

\* While the notification has failed and the asset party waits, the
\* guarantee party has applied the payment.
LastMileOK(w) ==
  w.delivery.status = "FAILED" /\ w.asset.status = "PROCESSING" => w.guarantee.status = "SUCCESS"

WorldOK(w) ==
  /\ w \in WorldState /\ Dated(w)
  /\ FundOK(w.fund) /\ GatewayOK(w.gateway) /\ MessagesOK(w.messages)
  /\ w.guarantee.request = "FREQ" /\ w.trace.request = "FREQ"
  /\ LastMileOK(w)

\* Frame b is as late as frame a or later.
Evolves(a, b) ==
  /\ a.trace = b.trace
  /\ (a.gateway = {}) = (b.gateway = {})
  /\ (a.messages = {}) = (b.messages = {})
  /\ \A m \in a.messages, n \in b.messages : m.at <= n.at
  /\ b.fund.tx # {} => a.fund.tx # {}
  /\ \A t \in a.fund.tx, u \in b.fund.tx : t.at = u.at
  /\ b.asset.status = "PROCESSING" => a.asset.status = "PROCESSING"
  /\ b.delivery.status = "FAILED" => a.delivery.status = "FAILED"

\* The scenario's own frames; the last of them is the first that a call sees.
Seeded == 6

FramesOK(F, now) ==
  /\ F \in Seq(WorldState) /\ Len(F) >= Seeded
  /\ \A r \in 1 .. Len(F) : WorldOK(F[r]) /\ F[r].at <= now
  /\ \A r \in 1 .. Seeded : F[r].at <= InitialTime
  /\ \A i, j \in 1 .. Len(F) : Seeded <= i /\ i <= j => Evolves(F[i], F[j])

(***************************************************************************)
(* The observations: an answer of the primary is the frame of its instant. *)
(***************************************************************************)
Faithful(F, now, o) ==
  /\ o \in Observation /\ validate_observation(o)
  /\ InitialTime < o.seen /\ o.seen <= now
  /\ o.status # "OK" => o.at = NoTime
  /\ o.status = "OK" /\ o.source = "PRIMARY" => o.freshness = "CURRENT"
  /\ o.freshness = "CURRENT" => o.source = "PRIMARY" /\ o.asof = o.seen
  /\ o.freshness = "CURRENT" /\ o.status = "OK" =>
       o.completeness = "COMPLETE" /\ o.data = {Current(F, o.seen)}
  /\ \A w \in o.data : WorldOK(w)

ObservationsOK(F, now, O) ==
  /\ \A o \in O : Faithful(F, now, o)
  /\ \A o, x \in O : o.seen = x.seen => o = x

FaultsOK(S) == S \subseteq ObservationFault /\ \E b \in Nat : \A f \in S : f.arg <= b

InquiryInv ==
  /\ clock \in Nat /\ clock >= InitialTime /\ changed \in Nat /\ added \in Nat
  /\ FaultsOK(faults)
  /\ FramesOK(frames, clock)
  /\ ObservationsOK(frames, clock, observations)
  /\ ProvenanceHolds
  /\ graph = Graph(stored, TRUE)


(***************************************************************************)
(* Every change keeps the world in order and is one-directional.           *)
(***************************************************************************)

Orderly(w, v, now) == WorldOK(v) /\ v.at = now /\ Evolves(w, v)

LEMMA FrameTypes ==
  ASSUME NEW w \in WorldState
  PROVE  /\ w.at \in Int /\ w.asset \in AssetSystem /\ w.guarantee \in GuaranteeCore
         /\ w.fund \in FundSystem /\ w.gateway \in SUBSET CallbackGateway
         /\ w.messages \in SUBSET MessageSystem /\ w.accounting \in AccountingSystem
         /\ w.trace \in RequestTrace /\ w.delivery \in AssetDelivery
  BY DEF WorldState

LEMMA RecordTimes ==
  ASSUME NEW w \in WorldState
  PROVE  /\ w.asset.at \in Int /\ w.guarantee.at \in Int /\ w.fund.at \in Int
         /\ w.accounting.at \in Int /\ w.trace.at \in Int /\ w.delivery.at \in Int
         /\ \A g \in w.gateway : g.at \in Int
         /\ \A m \in w.messages : m.at \in Int
         /\ \A t \in w.fund.tx : t.at \in Int
  BY FrameTypes DEF AssetSystem, GuaranteeCore, FundSystem, CallbackGateway, MessageSystem,
                    AccountingSystem, RequestTrace, AssetDelivery, DisbursementTransaction

LEMMA GuaranteeMoves ==
  ASSUME NEW g \in GuaranteeCore, NEW now \in Int, NEW s \in LoanStatus, NEW x,
         x = Concluded(g, s, now)
  PROVE  x \in GuaranteeCore /\ x.status = s /\ x.at = now /\ x.request = g.request
  <1>1. g.version + 1 \in Nat
    BY DEF GuaranteeCore
  <1>2. PICK n \in Nat : n = g.version + 1
    BY <1>1
  <1>3. x = [g EXCEPT !.status = s, !.at = now, !.version = n]
    BY <1>2 DEF GuaranteeCore, Concluded
  <1>4. QED
    BY <1>3 DEF GuaranteeCore

(* A message that is consumed keeps its identity.                          *)
LEMMA MessageConsumed ==
  ASSUME NEW m \in MessageSystem, NEW now \in Int
  PROVE  LET n == ConvergedMessage(m, now)
         IN  /\ n \in MessageSystem /\ n.at = now /\ n.message = m.message /\ n.event = m.event
             /\ n.error = {} /\ n.status = "CONSUMED"
  BY DEF ConvergedMessage, MessageSystem, ConsumeStatus


Consumes(M, N) ==
  \A n \in N : \E m \in M : \E k \in Int : m.at <= k /\ n = ConvergedMessage(m, k)

LEMMA MessagesConsumed ==
  ASSUME NEW M \in SUBSET MessageSystem, MessagesOK(M), NEW N, AtMostOne(N), Consumes(M, N)
  PROVE  /\ N \in SUBSET MessageSystem /\ MessagesOK(N)
         /\ \A m \in M, n \in N : m.at <= n.at
  <1>1. ASSUME NEW n \in N
        PROVE  /\ n \in MessageSystem /\ n.message = "MSG" /\ n.event = "CB" /\ n.error = {}
               /\ n.at >= 0 /\ \A m \in M : m.at <= n.at
    <2>1. PICK m \in M, k \in Int : m.at <= k /\ n = ConvergedMessage(m, k)
      BY <1>1 DEF Consumes
    <2>2. /\ n \in MessageSystem /\ n.at = k /\ n.message = m.message /\ n.event = m.event
          /\ n.error = {}
      BY <2>1, MessageConsumed
    <2>3. m.at \in Int /\ m.at >= 0
      BY <2>1 DEF MessagesOK, MessageSystem
    <2>4. QED
      BY <2>1, <2>2, <2>3 DEF MessagesOK, AtMostOne
  <1>2. QED
    BY <1>1 DEF MessagesOK, AtMostOne

LEMMA ConvergeOrderly ==
  ASSUME NEW w, WorldOK(w), NEW now \in Int, w.at <= now, Possible(w, "converge")
  PROVE  Orderly(w, Changed(w, now, "converge"), now)
  <1>0. w \in WorldState
    BY DEF WorldOK
  <1>1. PICK v : v = Changed(w, now, "converge")
    OBVIOUS
  <1>2. PICK g : g = Concluded(w.guarantee, "SUCCESS", now)
    OBVIOUS
  <1>3. g \in GuaranteeCore /\ g.status = "SUCCESS" /\ g.at = now /\ g.request = w.guarantee.request
    <2>1. "SUCCESS" \in LoanStatus
      BY DEF LoanStatus
    <2>2. QED
      BY <1>0, <1>2, <2>1, FrameTypes, GuaranteeMoves
  <1>4. PICK N : N = {ConvergedMessage(m, now) : m \in w.messages}
    OBVIOUS
  <1>5. /\ N \in SUBSET MessageSystem /\ MessagesOK(N) /\ (w.messages = {}) = (N = {})
        /\ \A m \in w.messages, n \in N : m.at <= n.at
        /\ \A n \in N : n.at = now
    <2>1. \A m \in w.messages : m \in MessageSystem /\ m.at \in Int /\ m.at <= w.at
      BY <1>0, FrameTypes, RecordTimes DEF WorldOK, Dated
    <2>2. \A m \in w.messages : m.at <= now
      BY <2>1, <1>0, FrameTypes
    <2>3. AtMostOne(N) /\ Consumes(w.messages, N)
      BY <1>4, <2>2 DEF AtMostOne, Consumes, WorldOK, MessagesOK
    <2>4. \A n \in N : n.at = now
      BY <1>4, <2>1, MessageConsumed
    <2>5. w.messages \in SUBSET MessageSystem /\ MessagesOK(w.messages)
      BY <1>0, FrameTypes DEF WorldOK
    <2>6. QED
      BY <1>4, <2>3, <2>4, <2>5, MessagesConsumed
  <1>6. PICK a, c, d :
          /\ a = [at |-> now, status |-> "SUCCESS"] /\ c = [at |-> now, entry |-> TRUE]
          /\ d = [at |-> now, ref |-> "DELIVERY", status |-> "DELIVERED"]
    OBVIOUS
  <1>12. a \in AssetSystem /\ c \in AccountingSystem /\ d \in AssetDelivery
    <2>1. a \in AssetSystem
      BY <1>6 DEF AssetSystem, LoanStatus
    <2>2. c \in AccountingSystem
      BY <1>6 DEF AccountingSystem
    <2>3. d \in AssetDelivery
      BY <1>6 DEF AssetDelivery, DeliveryStatus, DeliveryRef
    <2>4. QED
      BY <2>1, <2>2, <2>3
  <1>13. v = [converge(w, now) EXCEPT !.at = now]
    BY <1>1 DEF Changed, TransactionFields, IdentityFields
  <1>14. converge(w, now) =
           [w EXCEPT !.guarantee = g, !.asset = a, !.accounting = c, !.messages = N, !.delivery = d]
    BY <1>2, <1>4, <1>6, Zenon DEF converge
  <1>7. v = [[w EXCEPT !.guarantee = g, !.asset = a, !.accounting = c, !.messages = N, !.delivery = d]
             EXCEPT !.at = now]
    BY <1>13, <1>14, Zenon
  <1>8. /\ v \in WorldState /\ v.at = now /\ v.guarantee = g /\ v.asset = a /\ v.accounting = c
        /\ v.messages = N /\ v.delivery = d /\ v.fund = w.fund /\ v.trace = w.trace
        /\ v.gateway = w.gateway
    BY <1>0, <1>3, <1>5, <1>7, <1>12 DEF WorldState
  <1>9. WorldOK(v)
    <2>1. Dated(v)
      BY <1>0, <1>3, <1>5, <1>6, <1>8, FrameTypes, RecordTimes DEF Dated, WorldOK
    <2>2. LastMileOK(v)
      BY <1>6, <1>8 DEF LastMileOK
    <2>3. QED
      BY <1>3, <1>5, <1>8, <2>1, <2>2 DEF WorldOK
  <1>10. Evolves(w, v)
    BY <1>0, <1>5, <1>6, <1>8, RecordTimes DEF Evolves, WorldOK, FundOK, AtMostOne
  <1>11. QED
    BY <1>1, <1>8, <1>9, <1>10 DEF Orderly


LEMMA NoDisbursementOrderly ==
  ASSUME NEW w, WorldOK(w), NEW now \in Int, w.at <= now, Possible(w, "no_disbursement")
  PROVE  Orderly(w, Changed(w, now, "no_disbursement"), now)
  <1>0. w \in WorldState /\ w.fund \in FundSystem
    BY FrameTypes DEF WorldOK
  <1>1. PICK v : v = Changed(w, now, "no_disbursement")
    OBVIOUS
  <1>2. PICK g : g = Concluded(w.guarantee, "FAILED", now)
    OBVIOUS
  <1>3. g \in GuaranteeCore /\ g.status = "FAILED" /\ g.at = now /\ g.request = w.guarantee.request
    <2>1. "FAILED" \in LoanStatus
      BY DEF LoanStatus
    <2>2. w.guarantee \in GuaranteeCore
      BY <1>0, FrameTypes
    <2>3. QED
      BY <1>2, <2>1, <2>2, GuaranteeMoves
  <1>4. PICK f : f = [w.fund EXCEPT !.status = "FAILED", !.finality = "NOT_EXECUTED", !.tx = {},
                                    !.loan = FALSE, !.at = now]
    OBVIOUS
  <1>5. /\ f \in FundSystem /\ f.at = now /\ f.tx = {} /\ f.finality = "NOT_EXECUTED"
        /\ f.accepted = w.fund.accepted
    BY <1>0, <1>4 DEF FundSystem, FundBusinessStatus, PaymentFinality
  <1>6. PICK a, c :
          a = [at |-> now, status |-> "FAILED"] /\ c = [at |-> now, entry |-> FALSE]
    OBVIOUS
  <1>7. a \in AssetSystem /\ c \in AccountingSystem
    BY <1>6 DEF AssetSystem, AccountingSystem, LoanStatus
  <1>8. v = [no_disbursement(w, now) EXCEPT !.at = now]
    BY <1>1 DEF Changed, TransactionFields, IdentityFields
  <1>9. no_disbursement(w, now) = [w EXCEPT !.guarantee = g, !.asset = a, !.accounting = c, !.fund = f]
    BY <1>2, <1>4, <1>6, Zenon DEF no_disbursement
  <1>10. v = [[w EXCEPT !.guarantee = g, !.asset = a, !.accounting = c, !.fund = f] EXCEPT !.at = now]
    BY <1>8, <1>9, Zenon
  <1>11. /\ v \in WorldState /\ v.at = now /\ v.guarantee = g /\ v.asset = a /\ v.accounting = c
         /\ v.fund = f /\ v.messages = w.messages /\ v.delivery = w.delivery
         /\ v.trace = w.trace /\ v.gateway = w.gateway
    BY <1>0, <1>3, <1>5, <1>7, <1>10 DEF WorldState
  <1>12. WorldOK(v)
    <2>1. Dated(v)
      BY <1>0, <1>3, <1>5, <1>6, <1>11, FrameTypes, RecordTimes DEF Dated, WorldOK
    <2>2. LastMileOK(v)
      BY <1>6, <1>11 DEF LastMileOK
    <2>3. FundOK(f)
      BY <1>5 DEF FundOK, validate_transaction, AtMostOne, Possible
    <2>4. QED
      BY <1>3, <1>11, <2>1, <2>2, <2>3 DEF WorldOK
  <1>13. Evolves(w, v)
    BY <1>0, <1>5, <1>6, <1>11, RecordTimes DEF Evolves, WorldOK, MessagesOK, AtMostOne
  <1>14. QED
    BY <1>1, <1>11, <1>12, <1>13 DEF Orderly

LEMMA TransactionUpdated ==
  ASSUME NEW t \in DisbursementTransaction, NEW c \in TransactionFields
  PROVE  LET u == UpdatedTransaction(t, c)
         IN  /\ u \in DisbursementTransaction /\ u.at = t.at /\ u.finality = t.finality
             /\ u.request = IF c = "request" THEN "FREQ_OTHER" ELSE t.request
  <1>1. CASE c = "request"
    BY <1>1 DEF UpdatedTransaction, DisbursementTransaction, Requests
  <1>2. CASE c = "missing_account"
    BY <1>2 DEF UpdatedTransaction, DisbursementTransaction, ReferenceValue
  <1>3. CASE c = "amount"
    BY <1>3 DEF UpdatedTransaction, DisbursementTransaction, ReferenceValue
  <1>4. CASE c = "currency"
    BY <1>4 DEF UpdatedTransaction, DisbursementTransaction, ReferenceValue
  <1>5. CASE c = "customer"
    BY <1>5 DEF UpdatedTransaction, DisbursementTransaction, ReferenceValue
  <1>6. CASE c = "beneficiary"
    BY <1>6 DEF UpdatedTransaction, DisbursementTransaction, ReferenceValue
  <1>7. CASE c = "account"
    BY <1>7 DEF UpdatedTransaction, DisbursementTransaction, ReferenceValue
  <1>8. QED
    BY <1>1, <1>2, <1>3, <1>4, <1>5, <1>6, <1>7 DEF TransactionFields, IdentityFields

LEMMA TransactionOrderly ==
  ASSUME NEW w, WorldOK(w), NEW now \in Int, w.at <= now, NEW c \in TransactionFields
  PROVE  Orderly(w, Changed(w, now, c), now)
  <1>0. w \in WorldState /\ w.fund \in FundSystem
    BY FrameTypes DEF WorldOK
  <1>1. PICK v : v = Changed(w, now, c)
    OBVIOUS
  <1>2. PICK T : T = {UpdatedTransaction(t, c) : t \in w.fund.tx}
    OBVIOUS
  <1>3. PICK r : r = IF c = "request" THEN "FREQ_OTHER" ELSE w.fund.request
    OBVIOUS
  <1>4. PICK f : f = transaction_update(w.fund, now, c)
    OBVIOUS
  <1>5. \A t \in w.fund.tx : /\ t \in DisbursementTransaction
                             /\ t.request = w.fund.request /\ t.finality = w.fund.finality
    BY <1>0 DEF FundSystem, WorldOK, FundOK, validate_transaction
  <1>6. /\ T \in SUBSET DisbursementTransaction /\ AtMostOne(T) /\ (T = {}) = (w.fund.tx = {})
        /\ \A u \in T : u.finality = w.fund.finality /\ u.request = r
        /\ \A t \in w.fund.tx, u \in T : t.at = u.at
    BY <1>2, <1>3, <1>5, TransactionUpdated DEF AtMostOne, WorldOK, FundOK
  <1>7. /\ f \in FundSystem /\ f.at = now /\ f.tx = T /\ f.finality = w.fund.finality
        /\ f.accepted = w.fund.accepted /\ f.status = w.fund.status /\ f.request = r
    <2>1. r \in Requests
      BY <1>0, <1>3 DEF FundSystem, Requests
    <2>2. QED
      BY <1>0, <1>2, <1>3, <1>4, <1>6, <2>1 DEF FundSystem, transaction_update
  <1>8. v = [[w EXCEPT !.fund = transaction_update(w.fund, now, c)] EXCEPT !.at = now]
    BY <1>1 DEF Changed, TransactionFields, IdentityFields
  <1>10. v = [[w EXCEPT !.fund = f] EXCEPT !.at = now]
    BY <1>4, <1>8, Zenon
  <1>11. /\ v \in WorldState /\ v.at = now /\ v.guarantee = w.guarantee /\ v.asset = w.asset
         /\ v.accounting = w.accounting /\ v.fund = f /\ v.messages = w.messages
         /\ v.delivery = w.delivery /\ v.trace = w.trace /\ v.gateway = w.gateway
    BY <1>0, <1>7, <1>10 DEF WorldState
  <1>12. WorldOK(v)
    <2>1. Dated(v)
      BY <1>0, <1>7, <1>11, FrameTypes, RecordTimes DEF Dated, WorldOK
    <2>2. LastMileOK(v)
      BY <1>11 DEF LastMileOK, WorldOK
    <2>3. FundOK(f)
      BY <1>6, <1>7 DEF FundOK, validate_transaction, AtMostOne, WorldOK
    <2>4. QED
      BY <1>11, <2>1, <2>2, <2>3 DEF WorldOK
  <1>13. Evolves(w, v)
    BY <1>0, <1>6, <1>7, <1>11, RecordTimes DEF Evolves, WorldOK, MessagesOK, AtMostOne
  <1>14. QED
    BY <1>1, <1>11, <1>12, <1>13 DEF Orderly


LEMMA ConsumedOrderly ==
  ASSUME NEW w, WorldOK(w), NEW now \in Int, w.at <= now
  PROVE  Orderly(w, Changed(w, now, "already_consumed"), now)
  <1>0. w \in WorldState
    BY DEF WorldOK
  <1>1. PICK v : v = Changed(w, now, "already_consumed")
    OBVIOUS
  <1>2. PICK N : N = {ConvergedMessage(m, m.at) : m \in w.messages}
    OBVIOUS
  <1>3. /\ N \in SUBSET MessageSystem /\ MessagesOK(N) /\ (w.messages = {}) = (N = {})
        /\ \A m \in w.messages, n \in N : m.at <= n.at
        /\ \A n \in N : n.at <= w.at
    <2>1. \A m \in w.messages : m \in MessageSystem /\ m.at \in Int /\ m.at <= w.at
      BY <1>0, FrameTypes, RecordTimes DEF WorldOK, Dated
    <2>2. AtMostOne(N) /\ Consumes(w.messages, N)
      BY <1>2, <2>1 DEF AtMostOne, Consumes, WorldOK, MessagesOK
    <2>3. \A n \in N : n.at <= w.at
      BY <1>2, <2>1, MessageConsumed
    <2>4. w.messages \in SUBSET MessageSystem /\ MessagesOK(w.messages)
      BY <1>0, FrameTypes DEF WorldOK
    <2>5. QED
      BY <1>2, <2>2, <2>3, <2>4, MessagesConsumed
  <1>4. v = [[w EXCEPT !.messages = N] EXCEPT !.at = now]
    BY <1>1, <1>2 DEF Changed, TransactionFields, IdentityFields
  <1>5. /\ v \in WorldState /\ v.at = now /\ v.guarantee = w.guarantee /\ v.asset = w.asset
        /\ v.accounting = w.accounting /\ v.messages = N /\ v.delivery = w.delivery
        /\ v.fund = w.fund /\ v.trace = w.trace /\ v.gateway = w.gateway
    BY <1>0, <1>3, <1>4 DEF WorldState
  <1>6. WorldOK(v)
    <2>1. Dated(v)
      <3>1. \A n \in N : n.at \in Int
        BY <1>3 DEF MessageSystem
      <3>2. QED
        BY <3>1, <1>0, <1>3, <1>5, FrameTypes, RecordTimes DEF Dated, WorldOK
    <2>2. LastMileOK(v)
      BY <1>5 DEF LastMileOK, WorldOK
    <2>3. QED
      BY <1>3, <1>5, <2>1, <2>2 DEF WorldOK
  <1>7. Evolves(w, v)
    BY <1>0, <1>3, <1>5, RecordTimes DEF Evolves, WorldOK, FundOK, AtMostOne
  <1>8. QED
    BY <1>1, <1>5, <1>6, <1>7 DEF Orderly

LEMMA SignatureOrderly ==
  ASSUME NEW w, WorldOK(w), NEW now \in Int, w.at <= now
  PROVE  Orderly(w, Changed(w, now, "signature_invalid"), now)
  <1>0. w \in WorldState
    BY DEF WorldOK
  <1>1. PICK v : v = Changed(w, now, "signature_invalid")
    OBVIOUS
  <1>2. PICK G : G = {[g EXCEPT !.signed = FALSE] : g \in w.gateway}
    OBVIOUS
  <1>3. /\ G \in SUBSET CallbackGateway /\ GatewayOK(G) /\ (w.gateway = {}) = (G = {})
        /\ \A g \in G : g.at <= w.at
    <2>1. \A g \in w.gateway : g \in CallbackGateway /\ g.event = "CB" /\ g.at <= w.at
      BY <1>0, FrameTypes DEF WorldOK, GatewayOK, Dated
    <2>2. ASSUME NEW g \in w.gateway
          PROVE  LET h == [g EXCEPT !.signed = FALSE]
                 IN  h \in CallbackGateway /\ h.event = "CB" /\ h.at <= w.at
      BY <2>1, <2>2 DEF CallbackGateway
    <2>3. \A h \in G : h \in CallbackGateway /\ h.event = "CB" /\ h.at <= w.at
      BY <1>2, <2>2
    <2>4. AtMostOne(G)
      BY <1>2 DEF WorldOK, GatewayOK, AtMostOne
    <2>5. (w.gateway = {}) = (G = {})
      BY <1>2
    <2>6. QED
      BY <2>3, <2>4, <2>5 DEF GatewayOK
  <1>4. v = [[w EXCEPT !.gateway = G] EXCEPT !.at = now]
    BY <1>1, <1>2 DEF Changed, TransactionFields, IdentityFields
  <1>5. /\ v \in WorldState /\ v.at = now /\ v.guarantee = w.guarantee /\ v.asset = w.asset
        /\ v.accounting = w.accounting /\ v.messages = w.messages /\ v.delivery = w.delivery
        /\ v.fund = w.fund /\ v.trace = w.trace /\ v.gateway = G
    BY <1>0, <1>3, <1>4 DEF WorldState
  <1>6. WorldOK(v)
    <2>1. Dated(v)
      <3>1. \A g \in G : g.at \in Int
        BY <1>3 DEF CallbackGateway
      <3>2. QED
        BY <3>1, <1>0, <1>3, <1>5, FrameTypes, RecordTimes DEF Dated, WorldOK
    <2>2. LastMileOK(v)
      BY <1>5 DEF LastMileOK, WorldOK
    <2>3. QED
      BY <1>3, <1>5, <2>1, <2>2 DEF WorldOK
  <1>7. Evolves(w, v)
    BY <1>0, <1>3, <1>5, RecordTimes DEF Evolves, WorldOK, FundOK, MessagesOK, AtMostOne
  <1>8. QED
    BY <1>1, <1>5, <1>6, <1>7 DEF Orderly

LEMMA AssetOrderly ==
  ASSUME NEW w, WorldOK(w), NEW now \in Int, w.at <= now
  PROVE  Orderly(w, Changed(w, now, "asset_failed"), now)
  <1>0. w \in WorldState
    BY DEF WorldOK
  <1>1. PICK v : v = Changed(w, now, "asset_failed")
    OBVIOUS
  <1>2. PICK a : a = [w.asset EXCEPT !.status = "FAILED"]
    OBVIOUS
  <1>3. a \in AssetSystem /\ a.at = w.asset.at /\ a.status = "FAILED"
    BY <1>0, <1>2, FrameTypes DEF AssetSystem, LoanStatus
  <1>4. v = [[w EXCEPT !.asset = a] EXCEPT !.at = now]
    BY <1>1, <1>2 DEF Changed, TransactionFields, IdentityFields
  <1>5. /\ v \in WorldState /\ v.at = now /\ v.guarantee = w.guarantee /\ v.asset = a
        /\ v.accounting = w.accounting /\ v.messages = w.messages /\ v.delivery = w.delivery
        /\ v.fund = w.fund /\ v.trace = w.trace /\ v.gateway = w.gateway
    BY <1>0, <1>3, <1>4 DEF WorldState
  <1>6. WorldOK(v)
    <2>1. Dated(v)
      BY <1>0, <1>3, <1>5, FrameTypes, RecordTimes DEF Dated, WorldOK
    <2>2. LastMileOK(v)
      BY <1>3, <1>5 DEF LastMileOK, WorldOK
    <2>3. QED
      BY <1>5, <2>1, <2>2 DEF WorldOK
  <1>7. Evolves(w, v)
    BY <1>0, <1>3, <1>5, RecordTimes DEF Evolves, WorldOK, FundOK, MessagesOK, AtMostOne
  <1>8. QED
    BY <1>1, <1>5, <1>6, <1>7 DEF Orderly

LEMMA DeliveryOrderly ==
  ASSUME NEW w, WorldOK(w), NEW now \in Int, w.at <= now
  PROVE  Orderly(w, Changed(w, now, "delivery_missing"), now)
  <1>0. w \in WorldState
    BY DEF WorldOK
  <1>1. PICK v : v = Changed(w, now, "delivery_missing")
    OBVIOUS
  <1>2. PICK d : d = [w.delivery EXCEPT !.ref = "NONE", !.status = "NOT_ATTEMPTED"]
    OBVIOUS
  <1>3. d \in AssetDelivery /\ d.at = w.delivery.at /\ d.status = "NOT_ATTEMPTED"
    BY <1>0, <1>2, FrameTypes DEF AssetDelivery, DeliveryStatus, DeliveryRef
  <1>4. v = [[w EXCEPT !.delivery = d] EXCEPT !.at = now]
    BY <1>1, <1>2 DEF Changed, TransactionFields, IdentityFields
  <1>5. /\ v \in WorldState /\ v.at = now /\ v.guarantee = w.guarantee /\ v.asset = w.asset
        /\ v.accounting = w.accounting /\ v.messages = w.messages /\ v.delivery = d
        /\ v.fund = w.fund /\ v.trace = w.trace /\ v.gateway = w.gateway
    BY <1>0, <1>3, <1>4 DEF WorldState
  <1>6. WorldOK(v)
    <2>1. Dated(v)
      BY <1>0, <1>3, <1>5, FrameTypes, RecordTimes DEF Dated, WorldOK
    <2>2. LastMileOK(v)
      BY <1>3, <1>5 DEF LastMileOK, WorldOK
    <2>3. QED
      BY <1>5, <2>1, <2>2 DEF WorldOK
  <1>7. Evolves(w, v)
    BY <1>0, <1>3, <1>5, RecordTimes DEF Evolves, WorldOK, FundOK, MessagesOK, AtMostOne
  <1>8. QED
    BY <1>1, <1>5, <1>6, <1>7 DEF Orderly

LEMMA ChangesAreOrderly ==
  ASSUME NEW w, WorldOK(w), NEW now \in Int, w.at <= now, NEW c \in ChangeName, Possible(w, c)
  PROVE  Orderly(w, Changed(w, now, c), now)
  <1>1. \/ c \in TransactionFields \/ c = "converge" \/ c = "no_disbursement"
        \/ c = "already_consumed" \/ c = "signature_invalid" \/ c = "asset_failed"
        \/ c = "delivery_missing"
    BY DEF ChangeName
  <1>2. QED
    BY <1>1, ConvergeOrderly, NoDisbursementOrderly, TransactionOrderly, ConsumedOrderly,
       SignatureOrderly, AssetOrderly, DeliveryOrderly


(***************************************************************************)
(* The scenarios.                                                          *)
(***************************************************************************)
LEMMA EvolvesReflexive ==
  ASSUME NEW w, WorldOK(w)
  PROVE  Evolves(w, w)
  <1>1. w \in WorldState
    BY DEF WorldOK
  <1>2. QED
    BY <1>1, RecordTimes DEF Evolves, WorldOK, FundOK, MessagesOK, AtMostOne

LEMMA EvolvesTransitive ==
  ASSUME NEW a, NEW b, NEW c, a \in WorldState, b \in WorldState, c \in WorldState,
         Evolves(a, b), Evolves(b, c)
  PROVE  Evolves(a, c)
  <1>1. \A m \in a.messages, n \in c.messages : m.at <= n.at
    <2>1. SUFFICES ASSUME NEW m \in a.messages, NEW n \in c.messages PROVE m.at <= n.at
      OBVIOUS
    <2>2. PICK k \in b.messages : TRUE
      BY <2>1 DEF Evolves
    <2>3. m.at <= k.at /\ k.at <= n.at
      BY <2>1, <2>2 DEF Evolves
    <2>4. m.at \in Int /\ k.at \in Int /\ n.at \in Int
      BY <2>1, <2>2, RecordTimes
    <2>5. QED
      BY <2>3, <2>4
  <1>2. \A t \in a.fund.tx, u \in c.fund.tx : t.at = u.at
    <2>1. SUFFICES ASSUME NEW t \in a.fund.tx, NEW u \in c.fund.tx PROVE t.at = u.at
      OBVIOUS
    <2>2. PICK k \in b.fund.tx : TRUE
      BY <2>1 DEF Evolves
    <2>3. t.at = k.at /\ k.at = u.at
      BY <2>1, <2>2 DEF Evolves
    <2>4. QED
      BY <2>3
  <1>3. QED
    BY <1>1, <1>2 DEF Evolves

LEMMA ScenarioFundOK ==
  ASSUME NEW s \in ScenarioId
  PROVE  ScenarioFund(s) \in FundSystem /\ FundOK(ScenarioFund(s)) /\ ScenarioFund(s).at = 2
  <1> DEFINE f == ScenarioFund(s)
             x == [at |-> 2, request |-> "FREQ", finality |-> "SETTLED",
                   amount |-> "EXPECTED", currency |-> "EXPECTED", customer |-> "EXPECTED",
                   beneficiary |-> "EXPECTED", account |-> "EXPECTED"]
  <1>1. /\ x \in DisbursementTransaction /\ x.request = "FREQ" /\ x.finality = "SETTLED"
    BY DEF DisbursementTransaction, Requests, PaymentFinality, ReferenceValue
  <1>2. /\ f.at = 2 /\ f.request = "FREQ" /\ f.accepted = Accepted(s) /\ f.loan = Settled(s)
        /\ f.finality = Finality(s) /\ f.tx = IF ~Settled(s) THEN {} ELSE {x}
        /\ f.status = IF Settled(s) THEN "SUCCESS" ELSE IF s = "S3" THEN "FAILED"
                      ELSE IF s = "S8" THEN "PROCESSING" ELSE "NOT_RECEIVED"
    BY DEF ScenarioFund
  <1>3. f \in FundSystem
    <2>1. Accepted(s) \in BOOLEAN /\ Settled(s) \in BOOLEAN /\ Finality(s) \in PaymentFinality
      BY DEF Accepted, Settled, Finality, PaymentFinality
    <2>2. PICK st \in FundBusinessStatus : f.status = st
      BY <1>2 DEF FundBusinessStatus
    <2>3. PICK T \in SUBSET DisbursementTransaction : f.tx = T
      BY <1>1, <1>2
    <2>4. f = [at |-> 2, request |-> "FREQ", accepted |-> Accepted(s), loan |-> Settled(s),
               status |-> st, finality |-> Finality(s), tx |-> T]
      BY <2>2, <2>3 DEF ScenarioFund
    <2> HIDE DEF f
    <2>5. QED
      BY <2>1, <2>4 DEF FundSystem, Requests
  <1>4. validate_transaction(f)
    BY <1>1, <1>2 DEF validate_transaction, Finality
  <1>5. FundOK(f)
    <2>1. f.status # "NOT_RECEIVED" => Accepted(s)
      BY <1>2 DEF Accepted, Settled
    <2>2. QED
      BY <1>2, <1>4, <2>1 DEF FundOK, AtMostOne
  <1>6. QED
    BY <1>2, <1>3, <1>5

LEMMA BaseWorldOK == WorldOK(BaseWorld) /\ BaseWorld.at = 0
  <1>1. BaseWorld \in WorldState
    BY DEF BaseWorld, WorldState, AssetSystem, GuaranteeCore, FundSystem, AccountingSystem,
           RequestTrace, AssetDelivery, LoanStatus, Requests, ProtocolVersion, FundBusinessStatus,
           PaymentFinality, TransportStatus, DeliveryRef, DeliveryStatus
  <1>2. Dated(BaseWorld) /\ LastMileOK(BaseWorld)
    BY DEF BaseWorld, Dated, LastMileOK
  <1>3. FundOK(BaseWorld.fund) /\ GatewayOK(BaseWorld.gateway) /\ MessagesOK(BaseWorld.messages)
    BY DEF BaseWorld, FundOK, GatewayOK, MessagesOK, AtMostOne, validate_transaction
  <1>4. QED
    BY <1>1, <1>2, <1>3 DEF WorldOK, BaseWorld


LEMMA FinalWorldParts ==
  ASSUME NEW s \in ScenarioId
  PROVE  /\ FinalWorld(s).asset \in AssetSystem /\ FinalWorld(s).asset.at = 6
         /\ FinalWorld(s).guarantee \in GuaranteeCore /\ FinalWorld(s).guarantee.at = 5
         /\ FinalWorld(s).guarantee.request = "FREQ"
         /\ FinalWorld(s).fund \in FundSystem /\ FundOK(FinalWorld(s).fund) /\ FinalWorld(s).fund.at = 2
         /\ FinalWorld(s).gateway \in SUBSET CallbackGateway /\ GatewayOK(FinalWorld(s).gateway)
         /\ FinalWorld(s).messages \in SUBSET MessageSystem /\ MessagesOK(FinalWorld(s).messages)
         /\ FinalWorld(s).accounting \in AccountingSystem /\ FinalWorld(s).accounting.at = 5
         /\ FinalWorld(s).trace \in RequestTrace /\ FinalWorld(s).trace.at = 3
         /\ FinalWorld(s).trace.request = "FREQ"
         /\ FinalWorld(s).delivery \in AssetDelivery /\ FinalWorld(s).delivery.at = 6
         /\ FinalWorld(s).delivery.status = "FAILED" => FinalWorld(s).guarantee.status = "SUCCESS"
  <1>1. FinalWorld(s).asset \in AssetSystem /\ FinalWorld(s).asset.at = 6
    BY DEF FinalWorld, AssetSystem, LoanStatus
  <1>2. /\ FinalWorld(s).guarantee \in GuaranteeCore /\ FinalWorld(s).guarantee.at = 5
        /\ FinalWorld(s).guarantee.request = "FREQ"
        /\ FinalWorld(s).guarantee.status = IF Consumed(s) THEN "SUCCESS"
                                            ELSE IF s = "S3" THEN "FAILED" ELSE "PROCESSING"
    <2>1. BaseWorld.guarantee \in GuaranteeCore /\ BaseWorld.guarantee.request = "FREQ"
      BY BaseWorldOK, FrameTypes DEF WorldOK
    <2>2. PICK st \in LoanStatus : st = IF Consumed(s) THEN "SUCCESS"
                                        ELSE IF s = "S3" THEN "FAILED" ELSE "PROCESSING"
      BY DEF LoanStatus
    <2>3. PICK n \in Nat : n = IF Consumed(s) \/ s = "S3" THEN 18 ELSE 17
      OBVIOUS
    <2>4. PICK b : b = BaseWorld.guarantee
      OBVIOUS
    <2>5. PICK g : g = FinalWorld(s).guarantee
      OBVIOUS
    <2>6. g = [b EXCEPT !.at = 5, !.status = st, !.version = n]
      BY <2>2, <2>3, <2>4, <2>5 DEF FinalWorld
    <2>7. b \in GuaranteeCore /\ b.request = "FREQ" /\ st \in LoanStatus /\ n \in Nat /\ 5 \in Int
      BY <2>1, <2>2, <2>3, <2>4
    <2>8. g \in GuaranteeCore /\ g.at = 5 /\ g.request = "FREQ" /\ g.status = st
      BY <2>6, <2>7 DEF GuaranteeCore
    <2>9. QED
      BY <2>2, <2>5, <2>8
  <1>3. /\ FinalWorld(s).fund \in FundSystem /\ FundOK(FinalWorld(s).fund) /\ FinalWorld(s).fund.at = 2
    BY ScenarioFundOK DEF FinalWorld
  <1>4. FinalWorld(s).gateway \in SUBSET CallbackGateway /\ GatewayOK(FinalWorld(s).gateway)
    <2>1. PICK g : g = [at |-> 3, event |-> "CB", signed |-> TRUE, protocol |-> "2.3"]
      OBVIOUS
    <2>2. g \in CallbackGateway /\ g.event = "CB"
      BY <2>1 DEF CallbackGateway, EventId, ProtocolVersion
    <2>3. FinalWorld(s).gateway = IF Received(s) THEN {g} ELSE {}
      BY <2>1 DEF FinalWorld
    <2>4. QED
      BY <2>2, <2>3 DEF GatewayOK, AtMostOne
  <1>5. FinalWorld(s).messages \in SUBSET MessageSystem /\ MessagesOK(FinalWorld(s).messages)
    <2>1. PICK m : m = Consume(s = "S6")
      OBVIOUS
    <2>2. PICK x : x = [code |-> "CALLBACK_SCHEMA_MISMATCH", field |-> "loanNo",
                        expected |-> "integer", actual |-> "string"]
      OBVIOUS
    <2>3. x \in MessageError
      BY <2>2 DEF MessageError, FieldType
    <2>4. /\ m = [at |-> 4, message |-> "MSG", event |-> "CB",
                  status |-> IF s = "S6" THEN "FAILED" ELSE "CONSUMED",
                  dlq |-> s = "S6", error |-> IF s = "S6" THEN {x} ELSE {}]
      BY <2>1, <2>2 DEF Consume
    <2>5. m \in MessageSystem /\ m.message = "MSG" /\ m.event = "CB" /\ AtMostOne(m.error) /\ m.at >= 0
      BY <2>3, <2>4 DEF MessageSystem, MessageId, EventId, ConsumeStatus, AtMostOne
    <2>6. FinalWorld(s).messages = IF Received(s) THEN {m} ELSE {}
      BY <2>1 DEF FinalWorld
    <2>7. QED
      BY <2>5, <2>6 DEF MessagesOK, AtMostOne
  <1>6. FinalWorld(s).accounting \in AccountingSystem /\ FinalWorld(s).accounting.at = 5
    BY DEF FinalWorld, AccountingSystem, Consumed
  <1>7. /\ FinalWorld(s).trace \in RequestTrace /\ FinalWorld(s).trace.at = 3
        /\ FinalWorld(s).trace.request = "FREQ"
    BY DEF FinalWorld, RequestTrace, Requests, TransportStatus, Sent
  <1>8. /\ FinalWorld(s).delivery \in AssetDelivery /\ FinalWorld(s).delivery.at = 6
        /\ FinalWorld(s).delivery.status = "FAILED" => s = "S7"
    BY DEF FinalWorld, AssetDelivery, DeliveryRef, DeliveryStatus
  <1>9. QED
    BY <1>1, <1>2, <1>3, <1>4, <1>5, <1>6, <1>7, <1>8 DEF Consumed

LEMMA FrameOK ==
  ASSUME NEW s \in ScenarioId, NEW t \in 2 .. 6
  PROVE  WorldOK(Frame(s, t)) /\ Frame(s, t).at = t
  <1> DEFINE f == FinalWorld(s)
  <1>1. PICK w : w = Frame(s, t)
    OBVIOUS
  <1>2. /\ w.at = t
        /\ w.asset = IF f.asset.at <= t THEN f.asset ELSE BaseWorld.asset
        /\ w.guarantee = IF f.guarantee.at <= t THEN f.guarantee ELSE BaseWorld.guarantee
        /\ w.fund = IF f.fund.at <= t THEN f.fund ELSE BaseWorld.fund
        /\ w.gateway = {g \in f.gateway : g.at <= t}
        /\ w.messages = {m \in f.messages : m.at <= t}
        /\ w.accounting = IF f.accounting.at <= t THEN f.accounting ELSE BaseWorld.accounting
        /\ w.trace = IF f.trace.at <= t THEN f.trace ELSE BaseWorld.trace
        /\ w.delivery = IF f.delivery.at <= t THEN f.delivery ELSE BaseWorld.delivery
    BY <1>1 DEF Frame
  <1>3. w = [at |-> w.at, asset |-> w.asset, guarantee |-> w.guarantee, fund |-> w.fund,
             gateway |-> w.gateway, messages |-> w.messages, accounting |-> w.accounting,
             trace |-> w.trace, delivery |-> w.delivery]
    BY <1>1 DEF Frame
  <1> HIDE DEF f
  <1>4. BaseWorld \in WorldState /\ BaseWorld.delivery.status = "NOT_ATTEMPTED"
    BY BaseWorldOK DEF WorldOK, BaseWorld
  <1>5. /\ w.asset \in AssetSystem /\ w.guarantee \in GuaranteeCore /\ w.fund \in FundSystem
        /\ w.gateway \in SUBSET CallbackGateway /\ w.messages \in SUBSET MessageSystem
        /\ w.accounting \in AccountingSystem /\ w.trace \in RequestTrace
        /\ w.delivery \in AssetDelivery
    BY <1>2, <1>4, FinalWorldParts, FrameTypes DEF f
  <1>6. w \in WorldState
    BY <1>2, <1>3, <1>5 DEF WorldState
  <1>7. Dated(w)
    <2>1. /\ BaseWorld.asset.at <= t /\ BaseWorld.guarantee.at <= t /\ BaseWorld.fund.at <= t
          /\ BaseWorld.accounting.at <= t /\ BaseWorld.trace.at <= t /\ BaseWorld.delivery.at <= t
      BY DEF BaseWorld
    <2>2. QED
      BY <1>2, <2>1 DEF Dated
  <1>8. FundOK(w.fund) /\ GatewayOK(w.gateway) /\ MessagesOK(w.messages)
    BY <1>2, FinalWorldParts, BaseWorldOK DEF WorldOK, GatewayOK, MessagesOK, AtMostOne, f
  <1>9. w.guarantee.request = "FREQ" /\ w.trace.request = "FREQ"
    BY <1>2, FinalWorldParts, BaseWorldOK DEF WorldOK, f
  <1>10. LastMileOK(w)
    BY <1>2, <1>4, FinalWorldParts DEF LastMileOK, f
  <1>11. QED
    BY <1>1, <1>2, <1>6, <1>7, <1>8, <1>9, <1>10 DEF WorldOK

LEMMA ScenarioOK ==
  ASSUME NEW s \in ScenarioId, NEW F, F = build_scenario(s)
  PROVE  /\ F \in Seq(WorldState) /\ Len(F) = 6
         /\ \A r \in 1 .. 6 : WorldOK(F[r]) /\ F[r].at <= 6
  <1>1. PICK B : B = <<BaseWorld>>
    OBVIOUS
  <1>2. PICK G : G = [i \in 1 .. 5 |-> Frame(s, i + 1)]
    OBVIOUS
  <1>3. B \in Seq(WorldState) /\ Len(B) = 1 /\ B[1] = BaseWorld
    BY <1>1, BaseWorldOK DEF WorldOK
  <1>4. \A i \in 1 .. 5 : WorldOK(G[i]) /\ G[i].at = i + 1
    BY <1>2, FrameOK
  <1>5. G \in Seq(WorldState) /\ Len(G) = 5
    <2>1. \A i \in 1 .. 5 : G[i] \in WorldState
      BY <1>4 DEF WorldOK
    <2>2. QED
      BY <1>2, <2>1
  <1>6. F = B \o G
    BY <1>1, <1>2 DEF build_scenario
  <1>9. /\ F \in Seq(WorldState) /\ Len(F) = 6
        /\ \A i \in 1 .. 6 : F[i] = IF i <= 1 THEN B[i] ELSE G[i - 1]
    <2>0. B \in Seq(WorldState) /\ G \in Seq(WorldState)
      BY <1>3, <1>5
    <2>3. /\ B \o G \in Seq(WorldState) /\ Len(B \o G) = Len(B) + Len(G)
          /\ \A i \in 1 .. Len(B) + Len(G) : (B \o G)[i] = IF i <= Len(B) THEN B[i] ELSE G[i - Len(B)]
      BY <2>0, ConcatProperties, Zenon
    <2>1. /\ F \in Seq(WorldState) /\ Len(F) = Len(B) + Len(G)
          /\ \A i \in 1 .. Len(B) + Len(G) : F[i] = IF i <= Len(B) THEN B[i] ELSE G[i - Len(B)]
      BY <1>6, <2>3, Zenon
    <2>2. QED
      BY <1>3, <1>5, <2>1
  <1>7. ASSUME NEW r \in 1 .. 6 PROVE WorldOK(F[r]) /\ F[r].at <= 6
    <2>1. CASE r = 1
      BY <2>1, <1>3, <1>9, BaseWorldOK
    <2>2. CASE r \in 2 .. 6
      <3>1. r - 1 \in 1 .. 5 /\ F[r] = G[r - 1]
        BY <2>2, <1>9
      <3>2. QED
        BY <3>1, <1>4
    <2>3. QED
      BY <2>1, <2>2
  <1>8. QED
    BY <1>7, <1>9


(***************************************************************************)
(* The latest frame a call can see.                                        *)
(***************************************************************************)
LEMMA LeastOf ==
  ASSUME NEW S \in SUBSET Nat, S # {}
  PROVE  \E x \in S : \A y \in S : x <= y
  <1>0. S \subseteq Nat /\ S # {}
    OBVIOUS
  <1>1. PICK x \in S : \A y \in S : ~(<<y, x>> \in OpToRel(<, Nat))
    BY <1>0, NatLessThanWellFounded, WFMin
  <1>2. ASSUME NEW y \in S PROVE x <= y
    <2>1. y < x => <<y, x>> \in OpToRel(<, Nat)
      BY DEF OpToRel
    <2>2. ~(y < x)
      BY <1>1, <2>1, Zenon
    <2>3. QED
      BY <2>2
  <1>3. QED
    BY <1>2

LEMMA MinIs ==
  ASSUME NEW S \in SUBSET Nat, S # {}
  PROVE  Min(S) \in S /\ \A y \in S : Min(S) <= y
  BY LeastOf DEF Min

LEMMA GreatestOf ==
  ASSUME NEW S \in SUBSET Nat, S # {}, NEW b \in Nat, \A x \in S : x <= b
  PROVE  \E x \in S : \A y \in S : x >= y
  <1> DEFINE U == {u \in Nat : \A x \in S : x <= u}
  <1>1. U \in SUBSET Nat /\ U # {}
    OBVIOUS
  <1>2. PICK u \in U : \A v \in U : u <= v
    BY <1>1, LeastOf
  <1>3. u \in Nat /\ \A x \in S : x <= u
    OBVIOUS
  <1>4. u \in S
    <2>1. SUFFICES ASSUME u \notin S PROVE FALSE
      OBVIOUS
    <2>2. \A x \in S : x <= u - 1
      BY <1>3, <2>1
    <2>3. u - 1 \in Nat
      <3>1. PICK x \in S : x \in Nat
        OBVIOUS
      <3>2. QED
        BY <1>3, <2>2, <3>1
    <2>4. u - 1 \in U
      BY <2>2, <2>3
    <2>5. QED
      BY <1>2, <1>3, <2>4
  <1>5. QED
    BY <1>3, <1>4

LEMMA MaxIs ==
  ASSUME NEW S \in SUBSET Nat, S # {}, NEW b \in Nat, \A x \in S : x <= b
  PROVE  Max(S) \in S /\ \A y \in S : y <= Max(S)
  <1>1. \E x \in S : \A y \in S : x >= y
    BY GreatestOf
  <1>2. Max(S) \in S /\ \A y \in S : Max(S) >= y
    BY <1>1 DEF Max
  <1>3. QED
    BY <1>2

LEMMA SnapshotsAre ==
  ASSUME NEW F, NEW now \in Nat, FramesOK(F, now), NEW s \in Int, s >= InitialTime
  PROVE  /\ snapshots(F, s) \in SUBSET (1 .. Len(F))
         /\ Max(snapshots(F, s)) \in snapshots(F, s) /\ Max(snapshots(F, s)) >= Seeded
         /\ \A r \in snapshots(F, s) : r <= Max(snapshots(F, s))
         /\ 1 \in snapshots(F, s)
         /\ Current(F, s) = F[Max(snapshots(F, s))]
  <1>1. F \in Seq(WorldState) /\ Len(F) \in Nat /\ Len(F) >= 6
    BY DEF FramesOK, Seeded
  <1>2. PICK S : S = snapshots(F, s)
    OBVIOUS
  <1>3. S = {r \in 1 .. Len(F) : F[r].at <= s}
    BY <1>1, <1>2 DEF snapshots
  <1>4. ASSUME NEW r \in 1 .. 6 PROVE r \in S
    <2>3. r \in 1 .. Len(F) /\ r \in 1 .. Seeded
      BY <1>1 DEF Seeded
    <2>4. F[r] \in WorldState
      BY <2>3 DEF FramesOK, WorldOK
    <2>1. F[r].at <= InitialTime /\ F[r].at \in Int
      BY <2>3, <2>4 DEF FramesOK, WorldState
    <2>2. QED
      BY <1>1, <1>3, <2>1 DEF InitialTime
  <1>5. S \in SUBSET Nat /\ S # {} /\ \A x \in S : x <= Len(F)
    BY <1>1, <1>3, <1>4
  <1>6. Max(S) \in S /\ \A y \in S : y <= Max(S)
    BY <1>1, <1>5, MaxIs
  <1>7. 6 \in S /\ 1 \in S
    BY <1>4
  <1>8. QED
    BY <1>2, <1>3, <1>6, <1>7 DEF Seeded, Current

LEMMA CurrentIsOK ==
  ASSUME NEW F, NEW now \in Nat, FramesOK(F, now), NEW s \in Int, s >= InitialTime
  PROVE  WorldOK(Current(F, s)) /\ Current(F, s) \in WorldState /\ Current(F, s).at <= s
  <1>1. PICK k \in snapshots(F, s) : Current(F, s) = F[k]
    BY SnapshotsAre
  <1>2. k \in 1 .. Len(F) /\ F[k].at <= s
    BY <1>1, SnapshotsAre DEF snapshots
  <1>3. QED
    BY <1>1, <1>2 DEF FramesOK, WorldOK

LEMMA CurrentEvolves ==
  ASSUME NEW F, NEW now \in Nat, FramesOK(F, now), NEW s \in Int, NEW t \in Int,
         s >= InitialTime, s <= t
  PROVE  Evolves(Current(F, s), Current(F, t))
  <1>1. t >= InitialTime
    BY DEF InitialTime
  <1>2. PICK i : i = Max(snapshots(F, s))
    OBVIOUS
  <1>3. PICK j : j = Max(snapshots(F, t))
    OBVIOUS
  <1>4. i \in snapshots(F, s) /\ i \in 1 .. Len(F) /\ i >= Seeded /\ Current(F, s) = F[i]
    BY <1>2, SnapshotsAre
  <1>5. j \in 1 .. Len(F) /\ (\A r \in snapshots(F, t) : r <= j) /\ Current(F, t) = F[j]
    BY <1>1, <1>3, SnapshotsAre
  <1>6. F[i].at \in Int
    BY <1>4 DEF FramesOK, WorldOK, WorldState
  <1>7. i \in snapshots(F, t)
    BY <1>4, <1>6 DEF snapshots
  <1>8. i <= j
    BY <1>5, <1>7
  <1>9. QED
    BY <1>4, <1>5, <1>8 DEF FramesOK

LEMMA CurrentKept ==
  ASSUME NEW F, NEW now \in Nat, FramesOK(F, now), NEW v \in WorldState, v.at = now + 1,
         NEW s \in Int, s >= InitialTime, s <= now
  PROVE  Current(Append(F, v), s) = Current(F, s)
  <1>1. PICK G : G = Append(F, v)
    OBVIOUS
  <1>2. F \in Seq(WorldState) /\ Len(F) \in Nat
    BY DEF FramesOK
  <1>3. /\ G \in Seq(WorldState) /\ Len(G) = Len(F) + 1 /\ G[Len(F) + 1] = v
        /\ \A i \in 1 .. Len(F) : G[i] = F[i]
    BY <1>1, <1>2, AppendProperties
  <1>4. snapshots(G, s) = snapshots(F, s)
    BY <1>2, <1>3 DEF snapshots
  <1>5. PICK k : k = Max(snapshots(F, s))
    OBVIOUS
  <1>6. k \in 1 .. Len(F)
    BY <1>5, SnapshotsAre
  <1>7. QED
    BY <1>1, <1>3, <1>4, <1>5, <1>6 DEF Current


(***************************************************************************)
(* The answer to a call.                                                   *)
(***************************************************************************)
LEMMA DocumentIsOne ==
  ASSUME NEW w, NEW version, w.guarantee.at \in Int
  PROVE  /\ AtMostOne(Document(w, version))
         /\ \A p \in Document(w, version) : p \in protocols /\ p.at \in Int /\ p.at <= w.guarantee.at
  <1>1. \A p \in protocols : p.at \in Int
    BY DEF protocols
  <1>2. \A p, q \in protocols : p.at = q.at => p = q
    BY DEF protocols
  <1>3. QED
    BY <1>1, <1>2 DEF Document, AtMostOne

LEMMA DisclosesOne ==
  ASSUME NEW w, WorldOK(w), NEW tool \in ToolName, NEW version
  PROVE  /\ AtMostOne(project(w, tool, version))
         /\ \A r \in project(w, tool, version) : r.at \in Int /\ r.at <= w.at
  <1>1. w \in WorldState /\ w.at \in Int
    BY DEF WorldOK, WorldState
  <1>2. Dated(w) /\ AtMostOne(w.gateway) /\ AtMostOne(w.messages)
    BY DEF WorldOK, GatewayOK, MessagesOK
  <1>3. PICK D : D = Document(w, version)
    OBVIOUS
  <1>4. AtMostOne(D) /\ \A p \in D : p.at \in Int /\ p.at <= w.at
    BY <1>1, <1>2, <1>3, DocumentIsOne, RecordTimes DEF Dated
  <1>5. CASE tool \in {"ASSET", "GUARANTEE", "ACCOUNTING", "TRACE", "ASSET_DELIVERY"}
    BY <1>1, <1>2, <1>5, RecordTimes DEF project, AtMostOne, Dated
  <1>6. CASE tool \in {"FUND", "PAYMENT", "LOAN_NOTE"}
    BY <1>1, <1>2, <1>6, RecordTimes DEF project, AtMostOne, Dated
  <1>7. CASE tool \in {"CALLBACK", "CALLBACK_RAW", "MESSAGES"}
    BY <1>1, <1>2, <1>7, RecordTimes DEF project, AtMostOne, Dated
  <1>8. CASE tool = "PROTOCOL"
    BY <1>3, <1>4, <1>8 DEF project
  <1>9. QED
    BY <1>5, <1>6, <1>7, <1>8 DEF ToolName

LEMMA MaxOfOne ==
  ASSUME NEW k \in Int
  PROVE  Max({k}) = k
  <1>1. \E x \in {k} : \A y \in {k} : x >= y
    OBVIOUS
  <1>2. Max({k}) \in {k}
    BY <1>1 DEF Max
  <1>3. QED
    BY <1>2

LEMMA EventTimeIs ==
  ASSUME NEW tool, NEW R, AtMostOne(R), NEW s \in Int, s >= InitialTime,
         \A r \in R : r.at \in Int /\ r.at <= s
  PROVE  EventTime(tool, R) \in Int /\ EventTime(tool, R) <= s
  <1>1. NoTime \in Int /\ NoTime <= s
    BY DEF NoTime, InitialTime
  <1>2. ASSUME R # {}
        PROVE  Max({r.at : r \in R}) \in Int /\ Max({r.at : r \in R}) <= s
    <2>1. PICK r \in R : TRUE
      BY <1>2
    <2>2. {x.at : x \in R} = {r.at}
      BY <2>1 DEF AtMostOne
    <2>3. QED
      BY <2>1, <2>2, MaxOfOne
  <1>3. QED
    BY <1>1, <1>2 DEF EventTime

\* The frame chosen from the eligible revisions.
Selected(F, E) == {F[r] : r \in {x \in E : \A y \in E : y <= x}}

LEMMA SelectsOne ==
  ASSUME NEW F, NEW n \in Nat, NEW E \in SUBSET (1 .. n)
  PROVE  /\ AtMostOne(Selected(F, E))
         /\ \A w \in Selected(F, E) : \E r \in E : w = F[r]
         /\ E # {} => Max(E) \in E /\ Selected(F, E) = {F[Max(E)]}
  <1>1. \A a, b \in E : (\A y \in E : y <= a) /\ (\A y \in E : y <= b) => a = b
    OBVIOUS
  <1>2. ASSUME E # {} PROVE Max(E) \in E /\ Selected(F, E) = {F[Max(E)]}
    <2>1. E \in SUBSET Nat /\ \A x \in E : x <= n
      OBVIOUS
    <2>2. PICK m : m = Max(E)
      OBVIOUS
    <2>3. m \in E /\ \A y \in E : y <= m
      BY <1>2, <2>1, <2>2, MaxIs
    <2>4. {x \in E : \A y \in E : y <= x} = {m}
      BY <1>1, <2>3
    <2>5. QED
      BY <2>2, <2>3, <2>4 DEF Selected
  <1>3. QED
    BY <1>1, <1>2 DEF Selected, AtMostOne


\* An answer in its parts, as observe gives it.
Answer(tool, version, s, status, source, complete, fresh, at, asof, data) ==
  [tool |-> tool, version |-> version, status |-> status, at |-> at, seen |-> s,
   asof |-> asof, source |-> source, completeness |-> complete, freshness |-> fresh,
   data |-> data]

LEMMA AnswerParts ==
  ASSUME NEW tool \in ToolName, NEW version \in STRING, NEW s \in Int,
         NEW status \in {"OK", "TIMEOUT", "NOT_FOUND"}, NEW source \in SourceKind,
         NEW complete \in Completeness, NEW fresh \in Freshness, NEW at \in Int, NEW asof \in Int,
         NEW data \in SUBSET WorldState, NEW o,
         o = Answer(tool, version, s, status, source, complete, fresh, at, asof, data)
  PROVE  /\ o \in Observation
         /\ o.tool = tool /\ o.version = version /\ o.status = status /\ o.at = at /\ o.seen = s
         /\ o.asof = asof /\ o.source = source /\ o.completeness = complete /\ o.freshness = fresh
         /\ o.data = data
  BY DEF Answer, Observation

LEMMA FoundFrame ==
  ASSUME NEW F, NEW now \in Nat, FramesOK(F, now), NEW s \in Int, s >= InitialTime,
         NEW E \in SUBSET snapshots(F, s),
         NEW D, D = Selected(F, E)
  PROVE  /\ D \in SUBSET WorldState /\ AtMostOne(D)
         /\ \A w \in D : WorldOK(w) /\ w.at \in Int /\ w.at <= s
         /\ E # {} => Max(E) \in E /\ D = {F[Max(E)]} /\ F[Max(E)].at \in Int /\ F[Max(E)].at <= s
  <1>3. E \in SUBSET (1 .. Len(F)) /\ Len(F) \in Nat
    <2>1. snapshots(F, s) \in SUBSET (1 .. Len(F))
      BY SnapshotsAre
    <2>2. Len(F) \in Nat
      BY DEF FramesOK
    <2>3. QED
      BY <2>1, <2>2, Zenon
  <1>4. /\ AtMostOne(D) /\ \A w \in D : \E r \in E : w = F[r]
        /\ E # {} => Max(E) \in E /\ D = {F[Max(E)]}
    BY <1>3, SelectsOne
  <1>5. \A r \in E : WorldOK(F[r]) /\ F[r] \in WorldState /\ F[r].at \in Int /\ F[r].at <= s
    <2>1. ASSUME NEW r \in E PROVE WorldOK(F[r]) /\ F[r] \in WorldState /\ F[r].at <= s
      BY <1>3 DEF FramesOK, WorldOK, snapshots
    <2>2. QED
      BY <2>1 DEF WorldState
  <1>6. \A w \in D : WorldOK(w) /\ w \in WorldState /\ w.at \in Int /\ w.at <= s
    BY <1>4, <1>5
  <1>7. QED
    BY <1>4, <1>5, <1>6

LEMMA FoundIs ==
  ASSUME NEW D, AtMostOne(D), NEW s \in Int, s >= InitialTime,
         \A w \in D : WorldOK(w) /\ w.at \in Int /\ w.at <= s,
         NEW tool \in ToolName, NEW version,
         NEW R, \A r \in R : \E w \in D : r \in project(w, tool, version)
  PROVE  EventTime(tool, R) \in Int /\ EventTime(tool, R) <= s
  <1>7. AtMostOne(R) /\ \A r \in R : r.at \in Int /\ r.at <= s
    <2>1. ASSUME NEW r \in R
          PROVE  \E w \in D : r \in project(w, tool, version)
      OBVIOUS
    <2>2. ASSUME NEW r \in R PROVE r.at \in Int /\ r.at <= s
      <3>1. PICK w \in D : r \in project(w, tool, version)
        BY <2>1
      <3>2. w.at \in Int /\ w.at <= s /\ r.at \in Int /\ r.at <= w.at
        BY <3>1, DisclosesOne
      <3>3. QED
        BY <3>2
    <2>3. ASSUME NEW a \in R, NEW b \in R PROVE a = b
      <3>1. PICK w \in D : a \in project(w, tool, version)
        BY <2>1
      <3>2. PICK v \in D : b \in project(v, tool, version)
        BY <2>1
      <3>3. v = w
        BY DEF AtMostOne
      <3>4. AtMostOne(project(w, tool, version))
        BY DisclosesOne
      <3>5. QED
        BY <3>1, <3>2, <3>3, <3>4 DEF AtMostOne
    <2>4. QED
      BY <2>2, <2>3 DEF AtMostOne
  <1>8. EventTime(tool, R) \in Int /\ EventTime(tool, R) <= s
    BY <1>7, EventTimeIs
  <1>9. QED
    BY <1>8


LEMMA AnswerIsFaithful ==
  ASSUME NEW F, NEW now \in Nat, FramesOK(F, now), NEW S, FaultsOK(S),
         NEW s \in Int, s > InitialTime, NEW tool \in ToolName, NEW version \in STRING,
         NEW o, o = observe(F, S, s, tool, version)
  PROVE  Faithful(F, s, o) /\ o.seen = s /\ o.tool = tool /\ o.version = version
  <1>0. s >= InitialTime /\ NoTime \in Int /\ NoTime <= s
    BY DEF InitialTime, NoTime
  <1> DEFINE on == {f \in S : f.tool = tool /\ active(f, s)}
             kinds == {f.kind : f \in on}
             args(k) == {f.arg : f \in {g \in on : g.kind = k}}
             history == snapshots(F, s)
             lagged == s - Max(args("REPLICA_LAG"))
             eligible == CASE "OLD_CACHE" \in kinds -> {r \in history : r <= Min(args("OLD_CACHE")) + 1}
                           [] "OLD_CACHE" \notin kinds /\ "REPLICA_LAG" \in kinds ->
                                {r \in history : F[r].at <= lagged}
                           [] OTHER -> history
             stale == kinds \cap {"OLD_CACHE", "REPLICA_LAG"} # {}
             records == UNION {project(w, tool, version) : w \in Selected(F, eligible)}
             found == Selected(F, eligible) # {} /\ Answers(tool, records)
             asof == CASE "OLD_CACHE" \in kinds -> F[Max(eligible)].at
                       [] "OLD_CACHE" \notin kinds /\ stale -> lagged
                       [] OTHER -> s
  <1>1. CASE "TIMEOUT" \in kinds
    <2>1. o = Answer(tool, version, s, "TIMEOUT", "PRIMARY", "UNKNOWN", "UNKNOWN", NoTime, NoTime, {})
      BY <1>1 DEF observe, Answer
    <2>2. "PRIMARY" \in SourceKind /\ "UNKNOWN" \in Completeness /\ "UNKNOWN" \in Freshness
      BY DEF SourceKind, Completeness, Freshness
    <2>3. QED
      BY <1>0, <2>1, <2>2, AnswerParts DEF Faithful, validate_observation
  <1>2. CASE "TIMEOUT" \notin kinds /\ kinds \cap {"DATA_DELAY", "INDEX_MISSING"} # {}
    <2>1. o = Answer(tool, version, s, "NOT_FOUND", "INDEX", "PARTIAL", "UNKNOWN", NoTime, NoTime, {})
      BY <1>2 DEF observe, Answer
    <2>2. "INDEX" \in SourceKind /\ "PARTIAL" \in Completeness /\ "UNKNOWN" \in Freshness
      BY DEF SourceKind, Completeness, Freshness
    <2>3. QED
      BY <1>0, <2>1, <2>2, AnswerParts DEF Faithful, validate_observation
  <1>3. CASE "TIMEOUT" \notin kinds /\ kinds \cap {"DATA_DELAY", "INDEX_MISSING"} = {}
    <2>1. o = Answer(tool, version, s, IF found THEN "OK" ELSE "NOT_FOUND",
                     IF "OLD_CACHE" \in kinds THEN "CACHE" ELSE IF stale THEN "REPLICA" ELSE "PRIMARY",
                     IF stale THEN "PARTIAL" ELSE IF found THEN "COMPLETE" ELSE "UNKNOWN",
                     IF stale THEN "STALE" ELSE "CURRENT",
                     IF found THEN EventTime(tool, records) ELSE NoTime,
                     asof,
                     IF found THEN Selected(F, eligible) ELSE {})
      BY <1>3, Zenon DEF observe, Answer, Selected
    <2>2. /\ 1 \in history /\ history \in SUBSET (1 .. Len(F))
          /\ Current(F, s) = F[Max(history)]
      BY <1>0, SnapshotsAre
    <2>3. PICK b \in Nat : \A f \in S : f.arg \in Nat /\ f.arg <= b
      BY DEF FaultsOK, ObservationFault
    <2>4. \A k : args(k) \in SUBSET Nat /\ (\A x \in args(k) : x <= b) /\ (k \in kinds => args(k) # {})
      BY <2>3
    <2>5. eligible \in SUBSET history /\ (~stale => eligible = history)
      OBVIOUS
    <2>6. "OLD_CACHE" \in kinds => 1 \in eligible
      <3>1. SUFFICES ASSUME "OLD_CACHE" \in kinds PROVE 1 \in eligible
        OBVIOUS
      <3>2. Min(args("OLD_CACHE")) \in Nat
        BY <2>4, <3>1, MinIs
      <3>5. PICK m \in Nat : m = Min(args("OLD_CACHE"))
        BY <3>2
      <3>3. eligible = {r \in history : r <= m + 1}
        BY <3>1, <3>5
      <3>6. PICK H : H = history
        OBVIOUS
      <3>4. QED
        <4> HIDE DEF history, eligible
        <4>1. 1 \in {r \in H : r <= m + 1}
          BY <2>2, <3>5, <3>6
        <4>2. QED
          BY <3>3, <3>6, <4>1
    <2>7. stale /\ "OLD_CACHE" \notin kinds => lagged \in Int /\ lagged <= s
      <3>1. SUFFICES ASSUME "REPLICA_LAG" \in kinds PROVE lagged \in Int /\ lagged <= s
        OBVIOUS
      <3>4. PICK A : A = args("REPLICA_LAG")
        OBVIOUS
      <3>5. A \in SUBSET Nat /\ A # {} /\ \A x \in A : x <= b
        BY <2>4, <3>1, <3>4
      <3>6. Max(A) \in Nat
        BY <2>3, <3>5, MaxIs
      <3>2. Max(args("REPLICA_LAG")) \in Nat
        BY <3>4, <3>6
      <3>3. QED
        BY <3>2
    <2>8. PICK E : E = eligible
      OBVIOUS
    <2>9. PICK D : D = Selected(F, E)
      OBVIOUS
    <2>10. PICK at : at = IF found THEN EventTime(tool, records) ELSE NoTime
      OBVIOUS
    <2>11. /\ D \in SUBSET WorldState /\ (\A w \in D : WorldOK(w)) /\ at \in Int /\ at <= s
           /\ E # {} => /\ Max(E) \in E /\ D = {F[Max(E)]}
                        /\ F[Max(E)].at \in Int /\ F[Max(E)].at <= s
      <3>1. E \in SUBSET snapshots(F, s)
        BY <2>5, <2>8
      <3>2. PICK R : R = UNION {project(w, tool, version) : w \in D}
        OBVIOUS
      <3>3. /\ D \in SUBSET WorldState /\ (\A w \in D : WorldOK(w))
            /\ EventTime(tool, R) \in Int /\ EventTime(tool, R) <= s
            /\ E # {} => /\ Max(E) \in E /\ D = {F[Max(E)]}
                         /\ F[Max(E)].at \in Int /\ F[Max(E)].at <= s
        <4>1. \A r \in R : \E w \in D : r \in project(w, tool, version)
          BY <3>2
        <4> HIDE DEF on, kinds, args, history, lagged, eligible, stale, records, found, asof
        <4>2. /\ D \in SUBSET WorldState /\ AtMostOne(D)
              /\ \A w \in D : WorldOK(w) /\ w.at \in Int /\ w.at <= s
              /\ E # {} => /\ Max(E) \in E /\ D = {F[Max(E)]}
                           /\ F[Max(E)].at \in Int /\ F[Max(E)].at <= s
          BY <1>0, <2>9, <3>1, FoundFrame
        <4>3. EventTime(tool, R) \in Int /\ EventTime(tool, R) <= s
          BY <1>0, <4>1, <4>2, FoundIs
        <4>4. QED
          BY <4>2, <4>3
      <3>4. at = IF found THEN EventTime(tool, R) ELSE NoTime
        BY <2>8, <2>9, <2>10, <3>2
      <3>6. PICK t : t = EventTime(tool, R)
        OBVIOUS
      <3>7. at = t \/ at = NoTime
        BY <3>4, <3>6
      <3>8. at \in Int /\ at <= s
        BY <1>0, <3>3, <3>6, <3>7
      <3>5. QED
        BY <3>3, <3>8
    <2>12. asof \in Int /\ asof <= s /\ (~stale => asof = s)
      <3>1. CASE "OLD_CACHE" \in kinds
        <4>1. F[Max(E)].at \in Int /\ F[Max(E)].at <= s
          BY <2>6, <2>8, <2>11, <3>1
        <4>2. asof = F[Max(E)].at
          BY <2>8, <3>1
        <4>3. QED
          BY <3>1, <4>1, <4>2
      <3>2. CASE "OLD_CACHE" \notin kinds
        BY <2>7, <3>2
      <3>3. QED
        BY <3>1, <3>2
    <2>13. ~stale => D = {Current(F, s)}
      BY <2>2, <2>5, <2>8, <2>11
    <2>14. PICK a : a = asof
      OBVIOUS
    <2>15. PICK status \in {"OK", "NOT_FOUND"} : status = IF found THEN "OK" ELSE "NOT_FOUND"
      OBVIOUS
    <2>16. PICK fresh \in {"STALE", "CURRENT"} : fresh = IF stale THEN "STALE" ELSE "CURRENT"
      OBVIOUS
    <2>17. PICK data : data = IF status = "OK" THEN D ELSE {}
      OBVIOUS
    <2>18. PICK source \in SourceKind :
             /\ source = IF "OLD_CACHE" \in kinds THEN "CACHE" ELSE IF stale THEN "REPLICA" ELSE "PRIMARY"
             /\ (source = "PRIMARY") = (fresh = "CURRENT")
      BY <2>16 DEF SourceKind
    <2>19. PICK complete \in Completeness :
             /\ complete = IF stale THEN "PARTIAL" ELSE IF found THEN "COMPLETE" ELSE "UNKNOWN"
             /\ fresh = "CURRENT" /\ status = "OK" => complete = "COMPLETE"
      BY <2>15, <2>16 DEF Completeness
    <2>20. o = Answer(tool, version, s, status, source, complete, fresh, at, a, data)
      BY <2>1, <2>8, <2>9, <2>10, <2>14, <2>15, <2>16, <2>17, <2>18, <2>19
    <2>21. /\ fresh \in Freshness /\ a \in Int /\ a <= s /\ (fresh = "CURRENT" => a = s)
           /\ (status # "OK" => at = NoTime) /\ data \in SUBSET WorldState
           /\ (\A w \in data : WorldOK(w)) /\ (status # "OK" => data = {})
           /\ fresh = "CURRENT" /\ status = "OK" => data = {Current(F, s)}
      BY <2>10, <2>11, <2>12, <2>13, <2>14, <2>15, <2>16, <2>17 DEF Freshness
    <2> HIDE DEF on, kinds, args, history, lagged, eligible, stale, records, found, asof
    <2>22. /\ o \in Observation
           /\ o.tool = tool /\ o.version = version /\ o.status = status /\ o.at = at /\ o.seen = s
           /\ o.asof = a /\ o.source = source /\ o.completeness = complete /\ o.freshness = fresh
           /\ o.data = data
      BY <2>11, <2>20, <2>21, AnswerParts
    <2>23. QED
      BY <1>0, <2>11, <2>18, <2>19, <2>21, <2>22 DEF Faithful, validate_observation
  <1>4. QED
    BY <1>1, <1>2, <1>3


(***************************************************************************)
(* What an observation's claims say.                                       *)
(***************************************************************************)
LEMMA EmitParts ==
  ASSUME NEW o, NEW on, NEW c, NEW v, NEW e, e = emit(o, on, c, v)
  PROVE  /\ e.claim = c /\ e.value = v /\ e.kind = on.kind /\ e.id = on.id /\ e.field = on.field
         /\ e.tool = o.tool /\ e.source = o.source /\ e.at = on.at /\ e.seen = o.seen
         /\ e.asof = o.asof /\ e.protocol = on.protocol /\ e.complete = o.completeness
         /\ e.fresh = o.freshness /\ e.scope = o.version /\ e.request = on.request
         /\ e.callback = on.callback /\ e.obs = ObservationId(o)
  BY DEF emit

\* A claim of observation o.
ClaimOf(o, e) ==
  \E on, c, v : e = emit(o, on, c, v) /\ c \in ClaimType /\ on.kind \in SubjectKind

LEMMA OrderParts ==
  ASSUME NEW o
  PROVE  /\ Order(o).kind = "ORDER" /\ Order(o).id = "ORDER" /\ Order(o).field = "NONE"
         /\ Order(o).at = o.at /\ Order(o).protocol = "NONE" /\ Order(o).request = "NONE"
         /\ Order(o).callback = "NONE"
  BY DEF Order

LEMMA TraceSays ==
  ASSUME NEW o, NEW t, NEW e \in TraceClaims(o, t)
  PROVE  /\ ClaimOf(o, e) /\ e.claim \in {"REQUEST_SENT", "HTTP_RESPONSE_STATUS"}
         /\ e.claim = "REQUEST_SENT" => e.value = Bool(t.sent)
         /\ e.claim = "HTTP_RESPONSE_STATUS" => e.value = t.http
         /\ e.request = t.request
  <1>1. PICK on : on = [Order(o) EXCEPT !.request = t.request]
    OBVIOUS
  <1>2. on.kind = "ORDER" /\ on.request = t.request
    BY <1>1 DEF Order
  <1>3. e \in {emit(o, on, "REQUEST_SENT", Bool(t.sent)), emit(o, on, "HTTP_RESPONSE_STATUS", t.http)}
    BY <1>1 DEF TraceClaims
  <1>4. QED
    BY <1>2, <1>3, EmitParts DEF ClaimOf, ClaimType, SubjectKind

LEMMA GuaranteeSays ==
  ASSUME NEW o, NEW g, NEW e \in GuaranteeClaims(o, g)
  PROVE  /\ ClaimOf(o, e) /\ e.claim \in {"GUARANTEE_STATUS", "GUARANTEE_VERSION"}
         /\ e.claim = "GUARANTEE_STATUS" => e.value = g.status
         /\ e.request = g.request /\ e.at = o.at
         /\ e.kind = "ORDER" /\ e.id = "ORDER" /\ e.field = "NONE"
  <1>1. PICK on : on = [Order(o) EXCEPT !.request = g.request, !.protocol = g.protocol]
    OBVIOUS
  <1>2. /\ on.kind = "ORDER" /\ on.id = "ORDER" /\ on.field = "NONE" /\ on.request = g.request
        /\ on.at = o.at
    BY <1>1 DEF Order
  <1>3. PICK v : v = ToString(g.version)
    OBVIOUS
  <1>4. e \in {emit(o, on, "GUARANTEE_STATUS", g.status), emit(o, on, "GUARANTEE_VERSION", v)}
    BY <1>1, <1>3 DEF GuaranteeClaims
  <1>5. QED
    BY <1>2, <1>4, EmitParts DEF ClaimOf, ClaimType, SubjectKind

LEMMA FundSays ==
  ASSUME NEW o, NEW f, NEW e, e \in FundClaims(o, f) \cup LoanNoteClaims(o, f)
  PROVE  /\ ClaimOf(o, e)
         /\ e.claim \in {"FUND_BUSINESS_STATUS", "LOAN_NO_PRESENT", "LOAN_NOTE_REFERENCE"}
  <1>1. PICK on : on = OnRequest(o, f)
    OBVIOUS
  <1>2. on.kind = "FUND_REQUEST"
    BY <1>1 DEF OnRequest, Order
  <1>3. \/ e = emit(o, on, "FUND_BUSINESS_STATUS", f.status)
        \/ e = emit(o, on, "LOAN_NO_PRESENT", Bool(f.loan))
        \/ e = emit(o, on, "LOAN_NOTE_REFERENCE", "L1")
        \/ e = emit(o, on, "LOAN_NO_PRESENT", "TRUE")
    BY <1>1, Zenon DEF FundClaims, LoanNoteClaims
  <1>4. QED
    BY <1>2, <1>3, EmitParts DEF ClaimOf, ClaimType, SubjectKind

LEMMA AssetSays ==
  ASSUME NEW o, NEW v, NEW e, NEW c \in {"ASSET_STATUS", "ACCOUNTING_ENTRY_PRESENT"},
         e = emit(o, Order(o), c, v)
  PROVE  ClaimOf(o, e) /\ e.claim = c /\ e.value = v
  BY EmitParts, OrderParts DEF ClaimOf, ClaimType, SubjectKind

LEMMA DeliverySays ==
  ASSUME NEW o, NEW d, NEW e \in DeliveryClaims(o, d)
  PROVE  /\ ClaimOf(o, e) /\ e.claim \in {"ASSET_DELIVERY_STATUS", "ASSET_DELIVERY_EVENT_REF"}
         /\ e.claim = "ASSET_DELIVERY_STATUS" => e.value = d.status
  <1>1. \/ e = emit(o, Order(o), "ASSET_DELIVERY_STATUS", d.status)
        \/ e = emit(o, Order(o), "ASSET_DELIVERY_EVENT_REF", d.ref)
    BY DEF DeliveryClaims
  <1>2. QED
    BY <1>1, EmitParts, OrderParts DEF ClaimOf, ClaimType, SubjectKind

LEMMA CallbackSays ==
  ASSUME NEW o, NEW g, NEW e \in CallbackClaims(o, g)
  PROVE  /\ ClaimOf(o, e)
         /\ e.claim \in {"CALLBACK_GATEWAY_RECEIVED", "CALLBACK_SIGNATURE_VERIFIED",
                         "CALLBACK_PROTOCOL_VERSION"}
  <1>1. PICK on : on = [Order(o) EXCEPT !.kind = "CALLBACK", !.id = g.event, !.protocol = g.protocol]
    OBVIOUS
  <1>2. on.kind = "CALLBACK"
    BY <1>1 DEF Order
  <1>3. \E c \in {"CALLBACK_GATEWAY_RECEIVED", "CALLBACK_SIGNATURE_VERIFIED",
                  "CALLBACK_PROTOCOL_VERSION"} : \E v : e = emit(o, on, c, v)
    BY <1>1 DEF CallbackClaims
  <1>4. QED
    BY <1>2, <1>3, EmitParts DEF ClaimOf, ClaimType, SubjectKind

LEMMA ProtocolSays ==
  ASSUME NEW o, NEW p, NEW e \in ProtocolClaims(o, p)
  PROVE  ClaimOf(o, e) /\ e.claim \in {"PROTOCOL_FIELD_TYPE", "PROTOCOL_BUSINESS_SEMANTICS"}
  <1>1. \E f, v : \E c \in {"PROTOCOL_FIELD_TYPE", "PROTOCOL_BUSINESS_SEMANTICS"} :
          e = emit(o, [Order(o) EXCEPT !.kind = "PROTOCOL", !.id = p.version,
                                       !.protocol = p.version, !.field = f], c, v)
    BY Zenon DEF ProtocolClaims
  <1>2. \A f : [Order(o) EXCEPT !.kind = "PROTOCOL", !.id = p.version,
                                !.protocol = p.version, !.field = f].kind = "PROTOCOL"
    BY DEF Order
  <1>3. \E on, v : \E c \in {"PROTOCOL_FIELD_TYPE", "PROTOCOL_BUSINESS_SEMANTICS"} :
          e = emit(o, on, c, v) /\ on.kind = "PROTOCOL"
    BY <1>1, <1>2, Zenon
  <1>4. QED
    BY <1>3, EmitParts DEF ClaimOf, ClaimType, SubjectKind


LEMMA MessageSays ==
  ASSUME NEW o, NEW m, NEW e \in MessageClaims(o, m)
  PROVE  /\ ClaimOf(o, e)
         /\ e.claim \in {"MESSAGE_CONSUME_STATUS", "MESSAGE_DLQ", "CONSUMER_DEPLOYED_SCHEMA_VERSION",
                         "CONSUMER_ACCEPTED_PROTOCOL_VERSION", "CONSUMER_LOAN_NO_FIELD_TYPE"}
                        \cup MessageErrorClaims
         /\ e.kind = "MESSAGE" /\ e.id = m.message /\ e.field = "NONE" /\ e.callback = m.event
         /\ e.claim = "MESSAGE_CONSUME_STATUS" => e.value = m.status /\ e.at = m.at
         /\ e.claim = "MESSAGE_EXPECTED_FIELD_TYPE" => \E x \in m.error : e.value = x.expected
         /\ e.claim = "MESSAGE_ACTUAL_FIELD_TYPE" => \E x \in m.error : e.value = x.actual
  <1> DEFINE on == OnMessage(o, m, m.at)
             dep == OnMessage(o, m, o.seen)
  <1>1. \A t : /\ OnMessage(o, m, t).kind = "MESSAGE" /\ OnMessage(o, m, t).id = m.message
               /\ OnMessage(o, m, t).field = "NONE" /\ OnMessage(o, m, t).at = t
               /\ OnMessage(o, m, t).callback = m.event
    BY DEF OnMessage, Order
  <1>3. /\ on.kind = "MESSAGE" /\ on.id = m.message /\ on.field = "NONE" /\ on.at = m.at
        /\ on.callback = m.event
        /\ dep.kind = "MESSAGE" /\ dep.id = m.message /\ dep.field = "NONE" /\ dep.callback = m.event
    BY <1>1
  <1>4. \/ e = emit(o, on, "MESSAGE_CONSUME_STATUS", m.status)
        \/ e = emit(o, on, "MESSAGE_DLQ", "DLQ")
        \/ \E x \in m.error : e \in ErrorClaims(o, on, x)
        \/ e = emit(o, dep, "CONSUMER_DEPLOYED_SCHEMA_VERSION", "2.3")
        \/ e = emit(o, dep, "CONSUMER_ACCEPTED_PROTOCOL_VERSION", "2.3")
        \/ e = emit(o, dep, "CONSUMER_LOAN_NO_FIELD_TYPE", "string")
    BY DEF MessageClaims, DeployedClaims
  <1> HIDE DEF on, dep
  <1>5. CASE \E x \in m.error : e \in ErrorClaims(o, on, x)
    <2>1. PICK x \in m.error : e \in ErrorClaims(o, on, x)
      BY <1>5
    <2>2. \/ e = emit(o, on, "MESSAGE_ERROR_CODE", x.code)
          \/ e = emit(o, on, "MESSAGE_ERROR_FIELD", x.field)
          \/ e = emit(o, on, "MESSAGE_EXPECTED_FIELD_TYPE", x.expected)
          \/ e = emit(o, on, "MESSAGE_ACTUAL_FIELD_TYPE", x.actual)
      BY <2>1 DEF ErrorClaims
    <2>3. QED
      BY <1>3, <2>1, <2>2, EmitParts DEF ClaimOf, ClaimType, SubjectKind, MessageErrorClaims
  <1>6. CASE ~\E x \in m.error : e \in ErrorClaims(o, on, x)
    BY <1>3, <1>4, <1>6, EmitParts DEF ClaimOf, ClaimType, SubjectKind
  <1>7. QED
    BY <1>5, <1>6

LEMMA MessageIsRead ==
  ASSUME NEW o, NEW m
  PROVE  \E e \in MessageClaims(o, m) : e.claim = "MESSAGE_CONSUME_STATUS"
  <1>1. emit(o, OnMessage(o, m, m.at), "MESSAGE_CONSUME_STATUS", m.status) \in MessageClaims(o, m)
    BY DEF MessageClaims
  <1>2. QED
    BY <1>1, EmitParts

LEMMA TransactionSays ==
  ASSUME NEW o, NEW f, NEW t, NEW e \in TransactionClaims(o, OnTransaction(o, f, t), t)
  PROVE  /\ ClaimOf(o, e) /\ e.claim \in IDENTITY_CLAIMS
         /\ e.kind = "TRANSACTION" /\ e.id = "TX" /\ e.field = "NONE"
         /\ e.request = f.request /\ e.at = t.at
         /\ e.claim = "PAYMENT_FINALITY" => e.value = t.finality
         /\ e.claim = "TRANSACTION_FUND_REQUEST_ID" => e.value = t.request
         /\ e.claim \in IdentityFields => e.value = t[e.claim]
  <1>1. PICK on : on = OnTransaction(o, f, t)
    OBVIOUS
  <1>2. /\ on.kind = "TRANSACTION" /\ on.id = "TX" /\ on.field = "NONE" /\ on.request = f.request
        /\ on.at = t.at
    BY <1>1 DEF OnTransaction, Order
  <1>3. \/ e = emit(o, on, "PAYMENT_FINALITY", t.finality)
        \/ e = emit(o, on, "PAYMENT_TRANSACTION_ID", "TX")
        \/ e = emit(o, on, "TRANSACTION_FUND_REQUEST_ID", t.request)
        \/ \E d \in IdentityFields : e = emit(o, on, d, t[d])
    BY <1>1, Zenon DEF TransactionClaims
  <1>4. CASE \E d \in IdentityFields : e = emit(o, on, d, t[d])
    <2>1. PICK d \in IdentityFields : e = emit(o, on, d, t[d])
      BY <1>4
    <2>2. e.claim = d /\ e.value = t[d]
      BY <2>1, EmitParts
    <2>3. ClaimOf(o, e)
      BY <1>2, <2>1 DEF ClaimOf, ClaimType, SubjectKind
    <2>4. d \notin {"PAYMENT_FINALITY", "TRANSACTION_FUND_REQUEST_ID"} /\ d \in IDENTITY_CLAIMS
      BY <2>1 DEF IdentityFields, IDENTITY_CLAIMS
    <2>5. QED
      BY <1>2, <2>1, <2>2, <2>3, <2>4, EmitParts
  <1>5. CASE ~\E d \in IdentityFields : e = emit(o, on, d, t[d])
    BY <1>2, <1>3, <1>5, EmitParts DEF ClaimOf, ClaimType, SubjectKind, IDENTITY_CLAIMS, IdentityFields
  <1>6. QED
    BY <1>4, <1>5

LEMMA PaymentSays ==
  ASSUME NEW o, NEW f, NEW e \in PaymentClaims(o, f)
  PROVE  /\ ClaimOf(o, e) /\ e.claim \in IDENTITY_CLAIMS /\ e.field = "NONE"
         /\ e.kind \in {"TRANSACTION", "FUND_REQUEST"}
         /\ e.kind = "TRANSACTION" =>
              \E t \in f.tx : e \in TransactionClaims(o, OnTransaction(o, f, t), t)
         /\ e.claim # "PAYMENT_FINALITY" => e.kind = "TRANSACTION"
  <1>1. CASE f.tx = {}
    <2>1. PICK on : on = [OnRequest(o, f) EXCEPT !.at = f.at]
      OBVIOUS
    <2>2. on.kind = "FUND_REQUEST" /\ on.field = "NONE"
      BY <2>1 DEF OnRequest, Order
    <2>3. e = emit(o, on, "PAYMENT_FINALITY", f.finality)
      BY <1>1, <2>1 DEF PaymentClaims
    <2>4. QED
      BY <2>2, <2>3, EmitParts DEF ClaimOf, ClaimType, SubjectKind, IDENTITY_CLAIMS
  <1>2. CASE f.tx # {}
    <2>1. PICK t \in f.tx : e \in TransactionClaims(o, OnTransaction(o, f, t), t)
      BY <1>2 DEF PaymentClaims
    <2>2. QED
      BY <2>1, TransactionSays
  <1>3. QED
    BY <1>1, <1>2

LEMMA PaymentIsRead ==
  ASSUME NEW o, NEW f, f.tx # {}
  PROVE  \E e \in PaymentClaims(o, f) : e.claim = "PAYMENT_FINALITY" /\ e.kind = "TRANSACTION"
  <1>1. PICK t \in f.tx : TRUE
    OBVIOUS
  <1>2. PICK e : e = emit(o, OnTransaction(o, f, t), "PAYMENT_FINALITY", t.finality)
    OBVIOUS
  <1>3. e \in TransactionClaims(o, OnTransaction(o, f, t), t)
    BY <1>2, Zenon DEF TransactionClaims
  <1>4. e.claim = "PAYMENT_FINALITY"
    BY <1>2, EmitParts
  <1>5. QED
    BY <1>1, <1>3, <1>4, TransactionSays DEF PaymentClaims


\* What claim e of observation o says of frame w.
Says(w, o, e) ==
  /\ e.tool = "TRACE" =>
       /\ e.claim \in {"REQUEST_SENT", "HTTP_RESPONSE_STATUS"} /\ e.request = w.trace.request
       /\ e.claim = "REQUEST_SENT" => e.value = Bool(w.trace.sent)
       /\ e.claim = "HTTP_RESPONSE_STATUS" => e.value = w.trace.http
  /\ e.tool = "GUARANTEE" => e \in GuaranteeClaims(o, w.guarantee)
  /\ e.tool = "FUND" => w.fund.status # "NOT_RECEIVED"
  /\ e.tool = "PAYMENT" => w.fund.status # "NOT_RECEIVED" /\ e \in PaymentClaims(o, w.fund)
  /\ e.tool \in {"CALLBACK", "CALLBACK_RAW"} => w.gateway # {}
  /\ e.tool = "MESSAGES" => \E m \in w.messages : e \in MessageClaims(o, m)
  /\ e.tool = "ASSET" => e.claim = "ASSET_STATUS" /\ e.value = w.asset.status
  /\ e.tool = "ASSET_DELIVERY" => (e.claim = "ASSET_DELIVERY_STATUS" => e.value = w.delivery.status)
  /\ e.claim \in IDENTITY_CLAIMS => e.tool = "PAYMENT"
  /\ e.claim = "MESSAGE_CONSUME_STATUS" => e.tool = "MESSAGES"
  /\ e.claim \in {"GUARANTEE_STATUS", "GUARANTEE_VERSION"} => e.tool = "GUARANTEE"

LEMMA ClaimsSay ==
  ASSUME NEW o, o.tool \in ToolName, NEW w, NEW r \in project(w, o.tool, o.version),
         NEW e \in Claims(o, r)
  PROVE  ClaimOf(o, e) /\ Says(w, o, e) /\ e.claim # "SOURCE_LOOKUP_STATUS"
  <1>0. \A x : ClaimOf(o, x) => x.tool = o.tool
    BY EmitParts DEF ClaimOf
  <1>1. CASE o.tool = "TRACE"
    <2>1. r = w.trace /\ e \in TraceClaims(o, r)
      BY <1>1 DEF project, Claims
    <2>2. QED
      BY <1>0, <1>1, <2>1, TraceSays DEF Says, IDENTITY_CLAIMS, IdentityFields
  <1>2. CASE o.tool = "GUARANTEE"
    <2>1. r = w.guarantee /\ e \in GuaranteeClaims(o, r)
      BY <1>2 DEF project, Claims
    <2>2. QED
      BY <1>0, <1>2, <2>1, GuaranteeSays DEF Says, IDENTITY_CLAIMS, IdentityFields
  <1>3. CASE o.tool \in {"FUND", "LOAN_NOTE"}
    <2>1. w.fund.status # "NOT_RECEIVED" /\ e \in FundClaims(o, r) \cup LoanNoteClaims(o, r)
      BY <1>3 DEF project, Claims
    <2>2. /\ ClaimOf(o, e)
          /\ e.claim \in {"FUND_BUSINESS_STATUS", "LOAN_NO_PRESENT", "LOAN_NOTE_REFERENCE"}
      BY <2>1, FundSays
    <2>3. QED
      BY <1>0, <1>3, <2>1, <2>2 DEF Says, IDENTITY_CLAIMS, IdentityFields
  <1>4. CASE o.tool = "PAYMENT"
    <2>1. r = w.fund /\ w.fund.status # "NOT_RECEIVED" /\ e \in PaymentClaims(o, r)
      BY <1>4 DEF project, Claims
    <2>2. QED
      BY <1>0, <1>4, <2>1, PaymentSays DEF Says, IDENTITY_CLAIMS, IdentityFields
  <1>5. CASE o.tool \in {"CALLBACK", "CALLBACK_RAW"}
    <2>1. r \in w.gateway /\ e \in CallbackClaims(o, r)
      BY <1>5 DEF project, Claims
    <2>2. QED
      BY <1>0, <1>5, <2>1, CallbackSays DEF Says, IDENTITY_CLAIMS, IdentityFields
  <1>6. CASE o.tool = "MESSAGES"
    <2>1. r \in w.messages /\ e \in MessageClaims(o, r)
      BY <1>6 DEF project, Claims
    <2>2. QED
      BY <1>0, <1>6, <2>1, MessageSays DEF Says, IDENTITY_CLAIMS, IdentityFields, MessageErrorClaims
  <1>7. CASE o.tool = "PROTOCOL"
    <2>1. e \in ProtocolClaims(o, r)
      BY <1>7 DEF Claims
    <2>2. QED
      BY <1>0, <1>7, <2>1, ProtocolSays DEF Says, IDENTITY_CLAIMS, IdentityFields
  <1>8. CASE o.tool = "ASSET"
    <2>1. r = w.asset /\ e = emit(o, Order(o), "ASSET_STATUS", r.status)
      BY <1>8 DEF project, Claims
    <2>2. QED
      BY <1>0, <1>8, <2>1, AssetSays DEF Says, IDENTITY_CLAIMS, IdentityFields
  <1>9. CASE o.tool = "ACCOUNTING"
    <2>1. e = emit(o, Order(o), "ACCOUNTING_ENTRY_PRESENT", Bool(r.entry))
      BY <1>9 DEF Claims
    <2>2. QED
      BY <1>0, <1>9, <2>1, AssetSays DEF Says, IDENTITY_CLAIMS, IdentityFields
  <1>10. CASE o.tool = "ASSET_DELIVERY"
    <2>1. r = w.delivery /\ e \in DeliveryClaims(o, r)
      BY <1>10 DEF project, Claims
    <2>2. QED
      BY <1>0, <1>10, <2>1, DeliverySays DEF Says, IDENTITY_CLAIMS, IdentityFields
  <1>11. QED
    BY <1>1, <1>2, <1>3, <1>4, <1>5, <1>6, <1>7, <1>8, <1>9, <1>10 DEF ToolName


LEMMA ClaimParts ==
  ASSUME NEW o, NEW e, ClaimOf(o, e)
  PROVE  /\ e.claim \in ClaimType /\ e.kind \in SubjectKind
         /\ e.tool = o.tool /\ e.source = o.source /\ e.seen = o.seen /\ e.asof = o.asof
         /\ e.complete = o.completeness /\ e.fresh = o.freshness /\ e.scope = o.version
         /\ e.obs = ObservationId(o)
  BY EmitParts DEF ClaimOf

LEMMA ExtractSays ==
  ASSUME NEW o, o.tool \in ToolName, NEW e \in extract(o)
  PROVE  /\ ClaimOf(o, e)
         /\ o.status # "OK" => e.claim = "SOURCE_LOOKUP_STATUS" /\ e.at = o.at
         /\ o.status = "OK" => /\ e.claim # "SOURCE_LOOKUP_STATUS"
                               /\ \E w \in o.data : Says(w, o, e)
  <1>1. CASE o.status # "OK"
    <2>1. e = emit(o, Order(o), "SOURCE_LOOKUP_STATUS", o.status)
      BY <1>1 DEF extract
    <2>2. QED
      BY <1>1, <2>1, EmitParts, OrderParts DEF ClaimOf, ClaimType, SubjectKind
  <1>2. CASE o.status = "OK"
    <2>1. PICK w \in o.data : \E r \in project(w, o.tool, o.version) : e \in Claims(o, r)
      BY <1>2 DEF extract
    <2>2. QED
      BY <1>2, <2>1, ClaimsSay
  <1>3. QED
    BY <1>1, <1>2

(***************************************************************************)
(* The store: repeated readings add nothing and lose nothing.              *)
(***************************************************************************)
LEMMA ProvenanceKept ==
  ASSUME NEW st, NEW O, ProvenanceValid(st, O), NEW o
  PROVE  ProvenanceValid(record_call(st, o), O \cup {o})
  <1> DEFINE all == UNION {extract(x) : x \in O}
             new == UNION {extract(x) : x \in O \cup {o}}
             next == record_call(st, o)
  <1>1. st \subseteq all /\ {fingerprint(e) : e \in st} = {fingerprint(e) : e \in all}
    BY DEF ProvenanceValid
  <1>2. new = all \cup extract(o)
    OBVIOUS
  <1>3. next \subseteq new /\ st \subseteq next
    BY <1>1, <1>2 DEF record_call
  <1>4. ASSUME NEW e \in new PROVE \E x \in next : fingerprint(x) = fingerprint(e)
    <2>1. CASE e \in all
      <3>1. \E x \in st : fingerprint(x) = fingerprint(e)
        BY <1>1, <2>1
      <3>2. QED
        BY <1>3, <3>1
    <2>2. CASE e \in extract(o) /\ \A s \in st : ~same_fact(s, e)
      <3>1. e \in next
        BY <2>2 DEF record_call
      <3>2. QED
        BY <3>1
    <2>3. CASE \E s \in st : same_fact(s, e)
      BY <1>3, <2>3 DEF same_fact
    <2>4. QED
      BY <1>2, <1>4, <2>1, <2>2, <2>3
  <1> HIDE DEF new, next
  <1>5. {fingerprint(e) : e \in next} = {fingerprint(e) : e \in new}
    BY <1>3, <1>4
  <1>6. QED
    BY <1>3, <1>5, Zenon DEF ProvenanceValid, new, next

LEMMA StoredIsExtracted ==
  ASSUME NEW st, NEW O, ProvenanceValid(st, O), NEW e \in st
  PROVE  \E o \in O : e \in extract(o)
  BY DEF ProvenanceValid

LEMMA ExtractedIsStored ==
  ASSUME NEW st, NEW O, ProvenanceValid(st, O), NEW o \in O, NEW e \in extract(o)
  PROVE  \E s \in st : fingerprint(s) = fingerprint(e)
  <1>1. e \in UNION {extract(x) : x \in O}
    OBVIOUS
  <1>2. fingerprint(e) \in {fingerprint(x) : x \in UNION {extract(x) : x \in O}}
    BY <1>1
  <1>3. fingerprint(e) \in {fingerprint(x) : x \in st}
    BY <1>2, Zenon DEF ProvenanceValid
  <1>4. QED
    BY <1>3

\* What the fingerprint of a claim keeps.
LEMMA FingerprintIs ==
  ASSUME NEW o, NEW a, NEW x, NEW b, ClaimOf(o, a), ClaimOf(x, b), fingerprint(a) = fingerprint(b)
  PROVE  /\ a.claim = b.claim /\ a.value = b.value /\ a.kind = b.kind /\ a.id = b.id
         /\ a.field = b.field /\ a.tool = b.tool /\ a.source = b.source /\ a.at = b.at
         /\ a.asof = b.asof /\ a.protocol = b.protocol /\ a.complete = b.complete
         /\ a.fresh = b.fresh /\ a.scope = b.scope /\ a.request = b.request
         /\ a.callback = b.callback
         /\ a.at = NoTime => a.seen = b.seen
         /\ o = x => a = b
  <1>1. PICK p, c, u : a = emit(o, p, c, u)
    BY DEF ClaimOf
  <1>2. PICK q, d, v : b = emit(x, q, d, v)
    BY DEF ClaimOf
  <1>3. PICK f : f = fingerprint(a)
    OBVIOUS
  <1>4. /\ f.claim = a.claim /\ f.value = a.value /\ f.kind = a.kind /\ f.id = a.id
        /\ f.field = a.field /\ f.tool = a.tool /\ f.source = a.source /\ f.at = a.at
        /\ f.asof = a.asof /\ f.protocol = a.protocol /\ f.complete = a.complete
        /\ f.fresh = a.fresh /\ f.scope = a.scope /\ f.request = a.request
        /\ f.callback = a.callback
        /\ f.seen = IF a.at = NoTime THEN a.seen ELSE NoTime
    BY <1>1, <1>3 DEF emit, fingerprint
  <1>5. /\ f.claim = b.claim /\ f.value = b.value /\ f.kind = b.kind /\ f.id = b.id
        /\ f.field = b.field /\ f.tool = b.tool /\ f.source = b.source /\ f.at = b.at
        /\ f.asof = b.asof /\ f.protocol = b.protocol /\ f.complete = b.complete
        /\ f.fresh = b.fresh /\ f.scope = b.scope /\ f.request = b.request
        /\ f.callback = b.callback
        /\ f.seen = IF b.at = NoTime THEN b.seen ELSE NoTime
    BY <1>2, <1>3 DEF emit, fingerprint
  <1>6. ASSUME o = x PROVE a = b
    <2>1. /\ p.kind = q.kind /\ p.id = q.id /\ p.field = q.field /\ p.at = q.at
          /\ p.protocol = q.protocol /\ p.request = q.request /\ p.callback = q.callback
          /\ c = d /\ u = v
      <3>1. /\ a.kind = p.kind /\ a.id = p.id /\ a.field = p.field /\ a.at = p.at
            /\ a.protocol = p.protocol /\ a.request = p.request /\ a.callback = p.callback
            /\ a.claim = c /\ a.value = u
        BY <1>1, EmitParts
      <3>2. /\ b.kind = q.kind /\ b.id = q.id /\ b.field = q.field /\ b.at = q.at
            /\ b.protocol = q.protocol /\ b.request = q.request /\ b.callback = q.callback
            /\ b.claim = d /\ b.value = v
        BY <1>2, EmitParts
      <3>3. QED
        BY <1>4, <1>5, <3>1, <3>2
    <2>2. QED
      BY <1>1, <1>2, <1>6, <2>1 DEF emit
  <1>7. QED
    BY <1>4, <1>5, <1>6


(***************************************************************************)
(* Undoubted evidence is what the primary showed at the instant of a call. *)
(***************************************************************************)
Known(F, now, O, st) ==
  /\ now \in Nat /\ FramesOK(F, now)
  /\ ObservationsOK(F, now, O)
  /\ ProvenanceValid(st, O)

\* Claim e was read from the primary by call o.
Reads(F, o, e) ==
  /\ e \in extract(o) /\ ClaimOf(o, e) /\ e.claim # "SOURCE_LOOKUP_STATUS"
  /\ o.tool \in ToolName /\ o.status = "OK" /\ o.source = "PRIMARY" /\ o.freshness = "CURRENT"
  /\ o.completeness = "COMPLETE" /\ o.seen \in Int /\ o.seen > InitialTime /\ o.asof = o.seen
  /\ o.data = {Current(F, o.seen)} /\ WorldOK(Current(F, o.seen)) /\ Says(Current(F, o.seen), o, e)

LEMMA ObservationParts ==
  ASSUME NEW F, NEW now \in Nat, NEW o, Faithful(F, now, o)
  PROVE  /\ o.tool \in ToolName /\ o.seen \in Int /\ o.asof \in Int /\ o.at \in Int
         /\ o.seen > InitialTime
         /\ o.status # "OK" => o.at = NoTime
  BY DEF Faithful, Observation, InitialTime

LEMMA ReadFrom ==
  ASSUME NEW F, NEW now, NEW O, NEW st, Known(F, now, O, st),
         NEW o \in O, o.status = "OK", o.freshness = "CURRENT", NEW e \in extract(o)
  PROVE  Reads(F, o, e)
  <1>1. now \in Nat /\ Faithful(F, now, o)
    BY DEF Known, ObservationsOK
  <1>2. /\ o.tool \in ToolName /\ o.seen \in Int /\ o.seen > InitialTime
        /\ o.source = "PRIMARY" /\ o.completeness = "COMPLETE" /\ o.asof = o.seen
        /\ o.data = {Current(F, o.seen)}
    BY <1>1, ObservationParts DEF Faithful
  <1>3. WorldOK(Current(F, o.seen))
    BY <1>1, <1>2 DEF Faithful
  <1>4. /\ ClaimOf(o, e) /\ e.claim # "SOURCE_LOOKUP_STATUS"
        /\ \E w \in o.data : Says(w, o, e)
    BY <1>2, ExtractSays
  <1>5. QED
    BY <1>2, <1>3, <1>4 DEF Reads

LEMMA StoredFrom ==
  ASSUME NEW F, NEW now, NEW O, NEW st, Known(F, now, O, st), NEW e \in st
  PROVE  \E o \in O : /\ e \in extract(o) /\ ClaimOf(o, e) /\ Faithful(F, now, o)
                      /\ o.tool \in ToolName /\ o.seen \in Int
                      /\ (o.status # "OK") = (e.claim = "SOURCE_LOOKUP_STATUS")
                      /\ o.status # "OK" => e.at = NoTime
  <1>1. PICK o \in O : e \in extract(o)
    BY StoredIsExtracted DEF Known
  <1>2. Faithful(F, now, o) /\ now \in Nat
    BY DEF Known, ObservationsOK
  <1>3. o.tool \in ToolName /\ o.seen \in Int /\ (o.status # "OK" => o.at = NoTime)
    BY <1>2, ObservationParts
  <1>4. QED
    BY <1>1, <1>2, <1>3, ExtractSays

LEMMA UndoubtedIsRead ==
  ASSUME NEW F, NEW now, NEW O, NEW st, Known(F, now, O, st), NEW e, Undoubted(st, e)
  PROVE  \E o \in O : Reads(F, o, e)
  <1>1. e \in st /\ e.claim # "SOURCE_LOOKUP_STATUS" /\ e.fresh = "CURRENT"
    BY DEF Undoubted
  <1>2. PICK o \in O : /\ e \in extract(o) /\ ClaimOf(o, e)
                       /\ (o.status # "OK") = (e.claim = "SOURCE_LOOKUP_STATUS")
    BY <1>1, StoredFrom
  <1>3. o.status = "OK" /\ o.freshness = "CURRENT"
    BY <1>1, <1>2, ClaimParts
  <1>4. QED
    BY <1>2, <1>3, ReadFrom

LEMMA FreshIsStored ==
  ASSUME NEW F, NEW now, NEW O, NEW st, Known(F, now, O, st),
         NEW o \in O, o.status = "OK", o.freshness = "CURRENT", NEW e \in extract(o)
  PROVE  e \in st
  <1>1. PICK s \in st : fingerprint(s) = fingerprint(e)
    BY ExtractedIsStored DEF Known
  <1>2. PICK x \in O : /\ s \in extract(x) /\ ClaimOf(x, s) /\ Faithful(F, now, x)
    BY StoredFrom
  <1>3. ClaimOf(o, e) /\ Faithful(F, now, o)
    BY ReadFrom DEF Reads, Known, ObservationsOK
  <1>4. s.asof = e.asof /\ s.fresh = e.fresh /\ (x = o => s = e)
    BY <1>1, <1>2, <1>3, FingerprintIs
  <1>5. /\ s.asof = x.asof /\ s.fresh = x.freshness
        /\ e.asof = o.asof /\ e.fresh = o.freshness
    BY <1>2, <1>3, ClaimParts
  <1>6. x.seen = o.seen
    BY <1>2, <1>3, <1>4, <1>5 DEF Faithful
  <1>7. x = o
    BY <1>6 DEF Known, ObservationsOK
  <1>8. QED
    BY <1>4, <1>7

LEMMA LookupIsStored ==
  ASSUME NEW F, NEW now, NEW O, NEW st, Known(F, now, O, st), NEW o \in O, o.status # "OK"
  PROVE  \E l \in st : /\ l.claim = "SOURCE_LOOKUP_STATUS" /\ l.tool = o.tool
                       /\ l.scope = o.version /\ l.seen = o.seen
  <1>1. PICK e : e = emit(o, Order(o), "SOURCE_LOOKUP_STATUS", o.status)
    OBVIOUS
  <1>2. e \in extract(o)
    BY <1>1 DEF extract
  <1>3. /\ o.tool \in ToolName /\ o.at = NoTime
    BY ObservationParts DEF Known, ObservationsOK
  <1>4. ClaimOf(o, e) /\ e.claim = "SOURCE_LOOKUP_STATUS" /\ e.at = NoTime
    BY <1>2, <1>3, ExtractSays
  <1>5. PICK s \in st : fingerprint(s) = fingerprint(e)
    BY <1>2, ExtractedIsStored DEF Known
  <1>6. PICK x : ClaimOf(x, s)
    BY StoredFrom
  <1>7. /\ s.claim = e.claim /\ s.tool = e.tool /\ s.scope = e.scope /\ s.at = e.at
        /\ s.at = NoTime => s.seen = e.seen
    BY <1>4, <1>5, <1>6, FingerprintIs
  <1>8. e.tool = o.tool /\ e.scope = o.version /\ e.seen = o.seen
    BY <1>4, ClaimParts
  <1>9. QED
    BY <1>4, <1>7, <1>8

LEMMA LookupIsFailed ==
  ASSUME NEW F, NEW now, NEW O, NEW st, Known(F, now, O, st), NEW l \in st,
         l.claim = "SOURCE_LOOKUP_STATUS"
  PROVE  \E o \in O : /\ o.status # "OK" /\ o.tool = l.tool /\ o.seen = l.seen
                      /\ o.version = l.scope /\ o.seen \in Int
  <1>1. PICK o \in O : /\ ClaimOf(o, l) /\ (o.status # "OK") = (l.claim = "SOURCE_LOOKUP_STATUS")
                       /\ o.seen \in Int
    BY StoredFrom
  <1>2. QED
    BY <1>1, ClaimParts


(***************************************************************************)
(* A payment identity that matches.                                        *)
(***************************************************************************)
Compared(base, e, c) ==
  LET A == Anchors(base)
      P == IdentityReadings(base)
      X == Expected(base, A, c, e.id)
  IN  /\ X # "NONE"
      /\ \E x \in P : /\ x.claim = c /\ x.id = e.id /\ x.obs = e.obs /\ x.at = e.at
                      /\ x.value = X
      /\ \A y \in P : y.claim = c /\ y.id = e.id => y.value = X

LEMMA WitnessMatches ==
  ASSUME NEW base, NEW A, NEW P, NEW g \in SUBSET P, NEW t, g # {}, \A x \in g : x.id = t,
         NEW w, w = Witness(base, A, P, g), w.mismatch = {}, w.unknown = {},
         NEW c \in IDENTITY_CLAIMS, NEW X, X = Expected(base, A, c, t)
  PROVE  /\ X # "NONE"
         /\ \E x \in g : x.claim = c /\ x.value = X
         /\ \A y \in P : y.claim = c /\ y.id = t => y.value = X
  <1> DEFINE tx == (CHOOSE e \in g : TRUE).id
             values(S, claim) == {e.value : e \in {x \in S : x.claim = claim /\ x.id = tx}}
             open(claim) == \/ ~Single(values(g, claim))
                            \/ ~Single(values(P, claim))
                            \/ Expected(base, A, claim, tx) = "NONE"
             differs(claim) == ~open(claim) /\ values(g, claim) # {Expected(base, A, claim, tx)}
             mismatch == {d \in IDENTITY_CLAIMS \ {"PAYMENT_FINALITY"} : differs(d)}
  <1>1. tx = t
    OBVIOUS
  <1>2. w.mismatch = mismatch /\ w.unknown = {d \in IDENTITY_CLAIMS : open(d) \/ differs(d)} \ mismatch
    BY DEF Witness
  <1>3. ~open(c) /\ ~differs(c)
    BY <1>2
  <1>4. Single(values(P, c)) /\ X # "NONE" /\ values(g, c) = {X}
    BY <1>1, <1>3
  <1>5. \E x \in g : x.claim = c /\ x.value = X
    BY <1>4
  <1>6. X \in values(P, c)
    BY <1>1, <1>5
  <1>7. values(P, c) = {X}
    BY <1>4, <1>6 DEF Single
  <1>8. QED
    BY <1>1, <1>4, <1>5, <1>7

LEMMA MatchIs ==
  ASSUME NEW base, verify_payment_identity(base).result = "MATCH"
  PROVE  /\ \A w \in Witnesses(base, Anchors(base), IdentityReadings(base)) :
              w.mismatch = {} /\ w.unknown = {}
         /\ Witnesses(base, Anchors(base), IdentityReadings(base)) # {}
  <1> DEFINE W == Witnesses(base, Anchors(base), IdentityReadings(base))
  <1>1. PICK M : M = UNION {w.mismatch : w \in W}
    OBVIOUS
  <1>2. PICK U : U = (UNION {w.unknown : w \in W})
                     \cup (IF W = {} THEN IDENTITY_CLAIMS ELSE {})
                     \cup (IF Cardinality({w.tx : w \in W}) > 1 THEN {"PAYMENT_TRANSACTION_ID"} ELSE {})
    OBVIOUS
  <1>3. verify_payment_identity(base) = IdentityAnswer(W, M, U)
    BY <1>1, <1>2 DEF verify_payment_identity, verify_witnesses
  <1>4. M = {} /\ U = {}
    BY <1>3 DEF IdentityAnswer
  <1>5. IDENTITY_CLAIMS # {}
    BY DEF IDENTITY_CLAIMS
  <1> HIDE DEF W
  <1>6. QED
    BY <1>1, <1>2, <1>4, <1>5 DEF W

LEMMA MatchMeans ==
  ASSUME NEW base, verify_payment_identity(base).result = "MATCH",
         NEW e \in IdentityReadings(base), NEW c \in IDENTITY_CLAIMS
  PROVE  Compared(base, e, c)
  <1> DEFINE A == Anchors(base)
             P == IdentityReadings(base)
  <1>1. PICK g : g = {x \in P : x.id = e.id /\ x.obs = e.obs /\ x.at = e.at}
    OBVIOUS
  <1>2. g \in SUBSET P /\ g # {} /\ \A x \in g : x.id = e.id
    BY <1>1
  <1>3. PICK w : w = Witness(base, A, P, g)
    OBVIOUS
  <1>4. w \in Witnesses(base, A, P)
    BY <1>1, <1>3 DEF Witnesses, TransactionGroups
  <1>5. w.mismatch = {} /\ w.unknown = {}
    BY <1>4, MatchIs
  <1>6. PICK X : X = Expected(base, A, c, e.id)
    OBVIOUS
  <1> HIDE DEF A, P
  <1>7. /\ X # "NONE" /\ \E x \in g : x.claim = c /\ x.value = X
        /\ \A y \in P : y.claim = c /\ y.id = e.id => y.value = X
    BY <1>2, <1>3, <1>5, <1>6, WitnessMatches
  <1>8. QED
    BY <1>1, <1>6, <1>7 DEF Compared, A, P

LEMMA MatchHasReading ==
  ASSUME NEW base, verify_payment_identity(base).result = "MATCH"
  PROVE  IdentityReadings(base) # {}
  BY MatchIs DEF Witnesses, TransactionGroups


(***************************************************************************)
(* The Case's own request.                                                 *)
(***************************************************************************)
LEMMA NowIsRead ==
  ASSUME NEW F, NEW now, NEW O, NEW st, Known(F, now, O, st), NEW e \in current(st)
  PROVE  Undoubted(st, e) /\ e.source = "PRIMARY" /\ \E o \in O : Reads(F, o, e)
  <1>1. Undoubted(st, e)
    BY CurrentIs
  <1>2. PICK o \in O : Reads(F, o, e)
    BY <1>1, UndoubtedIsRead
  <1>3. e.source = "PRIMARY"
    BY <1>2, ClaimParts DEF Reads
  <1>4. QED
    BY <1>1, <1>2, <1>3

LEMMA InExtract ==
  ASSUME NEW o, o.status = "OK", NEW w \in o.data, NEW r \in project(w, o.tool, o.version),
         NEW e \in Claims(o, r)
  PROVE  e \in extract(o)
  BY DEF extract

(* The claims of one call are as undoubted as one of them.                 *)
LEMMA SiblingIsUndoubted ==
  ASSUME NEW F, NEW now, NEW O, NEW st, Known(F, now, O, st), NEW o \in O,
         NEW a, Undoubted(st, a), Reads(F, o, a), NEW b \in extract(o)
  PROVE  Undoubted(st, b) /\ Reads(F, o, b)
  <1>1. Reads(F, o, b) /\ b \in st
    BY ReadFrom, FreshIsStored DEF Reads
  <1>2. /\ b.fresh = a.fresh /\ b.complete = a.complete /\ b.asof = a.asof /\ b.tool = a.tool
        /\ b.scope = a.scope /\ b.seen = a.seen
    BY <1>1, ClaimParts DEF Reads
  <1>3. QED
    BY <1>1, <1>2 DEF Undoubted, Reads

LEMMA SameTime ==
  ASSUME NEW o, NEW a, NEW b, ClaimOf(o, a), ClaimOf(o, b), a.at = b.at
  PROVE  business_time(a) = business_time(b)
  BY ClaimParts DEF business_time

LEMMA GuaranteeIsRead ==
  ASSUME NEW F, NEW o, NEW e, Reads(F, o, e), e.tool = "GUARANTEE",
         NEW c \in {"GUARANTEE_STATUS", "GUARANTEE_VERSION"}
  PROVE  \E s \in extract(o) : /\ s.claim = c /\ s.tool = "GUARANTEE" /\ s.at = o.at
                               /\ s.kind = "ORDER" /\ s.id = "ORDER" /\ s.field = "NONE"
  <1> DEFINE w == Current(F, o.seen)
  <1>1. o.tool = "GUARANTEE" /\ o.status = "OK" /\ w \in o.data
    BY ClaimParts DEF Reads
  <1>2. w.guarantee \in project(w, o.tool, o.version)
    BY <1>1 DEF project
  <1>3. PICK s \in GuaranteeClaims(o, w.guarantee) : s.claim = c
    BY EmitParts DEF GuaranteeClaims
  <1>4. s \in Claims(o, w.guarantee)
    BY <1>1, <1>3 DEF Claims
  <1>5. s \in extract(o)
    BY <1>1, <1>2, <1>4, InExtract
  <1>6. s.tool = o.tool
    BY <1>3, GuaranteeSays, ClaimParts
  <1>7. QED
    BY <1>1, <1>3, <1>5, <1>6, GuaranteeSays

LEMMA StatusIsCurrent ==
  ASSUME NEW F, NEW now, NEW O, NEW st, Known(F, now, O, st),
         NEW e \in current(st), e.claim = "GUARANTEE_VERSION"
  PROVE  \E s \in current(st) : s.claim = "GUARANTEE_STATUS" /\ s.tool = "GUARANTEE"
  <1>1. PICK o \in O : Reads(F, o, e)
    BY NowIsRead
  <1>2. e.tool = "GUARANTEE"
    BY <1>1 DEF Reads, Says
  <1>4. e.kind = "ORDER" /\ e.id = "ORDER" /\ e.field = "NONE" /\ e.at = o.at
    BY <1>1, <1>2, GuaranteeSays DEF Reads, Says
  <1>5. PICK s \in extract(o) : /\ s.claim = "GUARANTEE_STATUS" /\ s.tool = "GUARANTEE" /\ s.at = o.at
                                /\ s.kind = "ORDER" /\ s.id = "ORDER" /\ s.field = "NONE"
    BY <1>1, <1>2, GuaranteeIsRead
  <1>6. Undoubted(st, e) /\ Undoubted(st, s) /\ Reads(F, o, s)
    BY <1>1, <1>5, NowIsRead, SiblingIsUndoubted
  <1>7. business_time(s) = business_time(e)
    BY <1>1, <1>4, <1>5, <1>6, SameTime DEF Reads
  <1>8. ASSUME NEW x, Undoubted(st, x), x.claim = s.claim, dimension(x) = dimension(s)
        PROVE  business_time(x) <= business_time(s)
    <2>1. PICK p \in O : Reads(F, p, x)
      BY <1>8, UndoubtedIsRead
    <2>2. x.tool = "GUARANTEE"
      BY <1>5, <1>8, <2>1 DEF Reads, Says
    <2>3. x.at = p.at
      BY <2>1, <2>2, GuaranteeSays DEF Reads, Says
    <2>4. PICK v \in extract(p) : /\ v.claim = "GUARANTEE_VERSION" /\ v.tool = "GUARANTEE" /\ v.at = p.at
                                  /\ v.kind = "ORDER" /\ v.id = "ORDER" /\ v.field = "NONE"
      BY <2>1, <2>2, GuaranteeIsRead
    <2>5. Undoubted(st, v) /\ Reads(F, p, v)
      BY <1>8, <2>1, <2>4, SiblingIsUndoubted
    <2>6. dimension(v) = dimension(e)
      BY <1>2, <1>4, <2>4 DEF dimension
    <2>7. business_time(v) <= business_time(e)
      BY <2>4, <2>5, <2>6, CurrentIs
    <2>8. business_time(v) = business_time(x)
      BY <2>1, <2>3, <2>4, <2>5, SameTime DEF Reads
    <2>9. QED
      BY <1>7, <2>7, <2>8
  <1>9. s \in current(st)
    BY <1>6, <1>8, CurrentIs
  <1>10. QED
    BY <1>5, <1>9


AnchoredBy(st) == \E e \in current(st) : e.tool \in {"TRACE", "GUARANTEE"} /\ e.source = "PRIMARY"

LEMMA OwnRequest ==
  ASSUME NEW F, NEW now, NEW O, NEW st, Known(F, now, O, st), AnchoredBy(st)
  PROVE  request_id(current(st)) = "FREQ" /\ Anchors(IndexBase(st)) # {}
  <1> DEFINE N == current(st)
             own == {e.request : e \in {x \in {y \in N : y.source = "PRIMARY"} :
                       /\ x.claim \in {"REQUEST_SENT", "HTTP_RESPONSE_STATUS", "GUARANTEE_STATUS"}
                       /\ x.tool \in {"TRACE", "GUARANTEE"} /\ x.request # "NONE"}}
  <1>1. ASSUME NEW x \in N, x.tool \in {"TRACE", "GUARANTEE"} PROVE x.request = "FREQ"
    <2>1. PICK o \in O : Reads(F, o, x)
      BY NowIsRead
    <2>2. WorldOK(Current(F, o.seen)) /\ Says(Current(F, o.seen), o, x)
      BY <2>1 DEF Reads
    <2>3. CASE x.tool = "TRACE"
      BY <2>2, <2>3 DEF Says, WorldOK
    <2>4. CASE x.tool = "GUARANTEE"
      BY <2>2, <2>4, GuaranteeSays DEF Says, WorldOK
    <2>5. QED
      BY <1>1, <2>3, <2>4
  <1>2. PICK e \in N : e.tool \in {"TRACE", "GUARANTEE"} /\ e.source = "PRIMARY"
    BY DEF AnchoredBy
  <1>3. PICK s \in N : /\ s.tool \in {"TRACE", "GUARANTEE"}
                       /\ s.claim \in {"REQUEST_SENT", "HTTP_RESPONSE_STATUS", "GUARANTEE_STATUS"}
    <2>1. PICK o \in O : Reads(F, o, e)
      BY NowIsRead
    <2>2. Says(Current(F, o.seen), o, e)
      BY <2>1 DEF Reads
    <2>3. CASE e.tool = "TRACE"
      BY <2>2, <2>3 DEF Says
    <2>4. CASE e.tool = "GUARANTEE"
      <3>1. e.claim \in {"GUARANTEE_STATUS", "GUARANTEE_VERSION"}
        BY <2>2, <2>4, GuaranteeSays DEF Says
      <3>2. QED
        BY <2>4, <3>1, StatusIsCurrent
    <2>5. QED
      BY <1>2, <2>3, <2>4
  <1>4. s.request = "FREQ" /\ s.source = "PRIMARY"
    BY <1>1, <1>3, NowIsRead
  <1>5. own = {"FREQ"}
    BY <1>1, <1>3, <1>4
  <1>6. request_id(N) = IF Single(own) THEN CHOOSE r \in own : TRUE ELSE "NONE"
    <2>1. own # {}
      BY <1>5
    <2>2. QED
      BY <2>1 DEF request_id
  <1>7. request_id(N) = "FREQ"
    BY <1>5, <1>6 DEF Single
  <1>8. s \in Anchors(IndexBase(st))
    <2>1. RequestOf(s) = "FREQ"
      BY <1>4 DEF RequestOf
    <2>2. s \in IndexBase(st).now /\ IndexBase(st).request = "FREQ"
      BY <1>3, <1>7, IndexParts
    <2>3. QED
      BY <1>3, <1>4, <2>1, <2>2 DEF Anchors
  <1>9. QED
    BY <1>7, <1>8


(***************************************************************************)
(* A matching identity is that of the payment some call saw.               *)
(***************************************************************************)
LEMMA SameObservation ==
  ASSUME NEW F, NEW now, NEW O, NEW st, Known(F, now, O, st), NEW o \in O, NEW x \in O,
         ObservationId(o) = ObservationId(x)
  PROVE  o = x
  <1>1. o.seen = x.seen
    BY DEF ObservationId
  <1>2. QED
    BY <1>1 DEF Known, ObservationsOK

LEMMA ReadingIs ==
  ASSUME NEW F, NEW now, NEW O, NEW st, Known(F, now, O, st),
         NEW e \in IdentityReadings(IndexBase(st))
  PROVE  /\ e \in current(st) /\ e.kind = "TRANSACTION" /\ e.tool = "PAYMENT"
         /\ e.claim \in IDENTITY_CLAIMS /\ e.source = "PRIMARY"
  BY IndexParts DEF IdentityReadings

LEMMA ReadingSays ==
  ASSUME NEW F, NEW o, NEW e, Reads(F, o, e), e.tool = "PAYMENT", e.kind = "TRANSACTION"
  PROVE  \E t \in Current(F, o.seen).fund.tx :
           e \in TransactionClaims(o, OnTransaction(o, Current(F, o.seen).fund, t), t)
  BY PaymentSays DEF Reads, Says

LEMMA JudgedOf ==
  ASSUME NEW F, NEW now, NEW O, NEW st, Known(F, now, O, st), NEW o \in O,
         verify_payment_identity(IndexBase(st)).result = "MATCH",
         NEW e \in IdentityReadings(IndexBase(st)), Reads(F, o, e),
         NEW t \in Current(F, o.seen).fund.tx, NEW c \in IDENTITY_CLAIMS
  PROVE  \E x \in IdentityReadings(IndexBase(st)) :
           /\ x.claim = c /\ x.id = e.id
           /\ x.value = Expected(IndexBase(st), Anchors(IndexBase(st)), c, e.id)
           /\ x \in TransactionClaims(o, OnTransaction(o, Current(F, o.seen).fund, t), t)
  <1>1. PICK x \in IdentityReadings(IndexBase(st)) :
          /\ x.claim = c /\ x.id = e.id /\ x.obs = e.obs
          /\ x.value = Expected(IndexBase(st), Anchors(IndexBase(st)), c, e.id)
    BY MatchMeans DEF Compared
  <1>2. x \in current(st) /\ x.kind = "TRANSACTION" /\ x.tool = "PAYMENT"
    BY <1>1, ReadingIs
  <1>3. PICK p \in O : Reads(F, p, x)
    BY <1>2, NowIsRead
  <1>4. ObservationId(p) = ObservationId(o)
    BY <1>1, <1>3, ClaimParts DEF Reads
  <1>5. p = o
    BY <1>4, SameObservation
  <1>6. PICK u \in Current(F, o.seen).fund.tx :
          x \in TransactionClaims(o, OnTransaction(o, Current(F, o.seen).fund, u), u)
    BY <1>2, <1>3, <1>5, ReadingSays
  <1>7. u = t
    BY DEF Reads, WorldOK, FundOK, AtMostOne
  <1>8. QED
    BY <1>1, <1>6, <1>7

\* What RightPayment says, the evidence being st.
RightBy(st, w) ==
  /\ w.fund.finality = "SETTLED"
  /\ \E t \in w.fund.tx : /\ \A d \in IdentityFields : t[d] = "EXPECTED"
                          /\ AnchoredBy(st) => t.request = w.guarantee.request

LEMMA MatchIsRight ==
  ASSUME NEW F, NEW now, NEW O, NEW st, Known(F, now, O, st), NEW o \in O,
         verify_payment_identity(IndexBase(st)).result = "MATCH",
         NEW e \in IdentityReadings(IndexBase(st)), Reads(F, o, e)
  PROVE  RightBy(st, Current(F, o.seen)) /\ Current(F, o.seen).fund.accepted
  <1> DEFINE w == Current(F, o.seen)
             base == IndexBase(st)
             A == Anchors(base)
  <1>1. e.kind = "TRANSACTION" /\ e.tool = "PAYMENT"
    BY ReadingIs
  <1>2. PICK t \in w.fund.tx : e \in TransactionClaims(o, OnTransaction(o, w.fund, t), t)
    BY <1>1, ReadingSays
  <1>3. WorldOK(w) /\ w.fund.status # "NOT_RECEIVED" /\ w.fund.accepted
    BY <1>1 DEF Reads, Says, WorldOK, FundOK
  <1>4. t.finality = w.fund.finality /\ w.guarantee.request = "FREQ"
    BY <1>2, <1>3 DEF WorldOK, FundOK, validate_transaction
  <1>5. t.finality = "SETTLED"
    <2>1. "PAYMENT_FINALITY" \in IDENTITY_CLAIMS
      BY DEF IDENTITY_CLAIMS
    <2>2. PICK x : /\ x.claim = "PAYMENT_FINALITY" /\ x.value = Expected(base, A, "PAYMENT_FINALITY", e.id)
                   /\ x \in TransactionClaims(o, OnTransaction(o, w.fund, t), t)
      BY <1>2, <2>1, JudgedOf
    <2>3. Expected(base, A, "PAYMENT_FINALITY", e.id) = "SETTLED"
      BY DEF Expected
    <2>4. QED
      BY <2>2, <2>3, TransactionSays
  <1>6. ASSUME NEW d \in IdentityFields PROVE t[d] = "EXPECTED"
    <2>1. d \in IDENTITY_CLAIMS
      BY DEF IDENTITY_CLAIMS
    <2>2. PICK x : /\ x.claim = d /\ x.value = Expected(base, A, d, e.id)
                   /\ x \in TransactionClaims(o, OnTransaction(o, w.fund, t), t)
      BY <1>2, <2>1, JudgedOf
    <2>3. Expected(base, A, d, e.id) = "EXPECTED"
      BY DEF Expected, IdentityFields
    <2>4. QED
      BY <2>2, <2>3, TransactionSays
  <1>7. ASSUME AnchoredBy(st) PROVE t.request = "FREQ"
    <2>1. "TRANSACTION_FUND_REQUEST_ID" \in IDENTITY_CLAIMS
      BY DEF IDENTITY_CLAIMS
    <2>2. PICK x : /\ x.claim = "TRANSACTION_FUND_REQUEST_ID"
                   /\ x.value = Expected(base, A, "TRANSACTION_FUND_REQUEST_ID", e.id)
                   /\ x \in TransactionClaims(o, OnTransaction(o, w.fund, t), t)
      BY <1>2, <2>1, JudgedOf
    <2>3. base.request = "FREQ" /\ A # {}
      BY <1>7, OwnRequest, IndexParts
    <2>4. Expected(base, A, "TRANSACTION_FUND_REQUEST_ID", e.id) = "FREQ"
      BY <2>3 DEF Expected
    <2>5. QED
      BY <2>2, <2>4, TransactionSays
  <1>8. QED
    BY <1>2, <1>3, <1>4, <1>5, <1>6, <1>7 DEF RightBy


(***************************************************************************)
(* Every conclusion was so at one of the calls.                            *)
(***************************************************************************)
HoldsBy(st, h, w) ==
  CASE h = "H1" -> ~w.trace.sent
    [] h = "H4" -> w.trace.http = "TIMEOUT" /\ RightBy(st, w)
    [] h = "H6" -> \E g \in w.gateway, m \in w.messages : m.event = g.event /\ m.status = "FAILED"
    [] h = "H6_SCHEMA_MISMATCH" ->
         \E m \in w.messages : m.status = "FAILED" /\ \E e \in m.error : e.expected # e.actual
    [] h = "H7" -> /\ w.guarantee.status = "SUCCESS" /\ w.delivery.status = "FAILED"
                   /\ w.asset.status = "PROCESSING"
    [] OTHER -> TRUE

FailsBy(st, h, w) ==
  CASE h = "H1" -> w.trace.sent
    [] h = "H2" -> w.fund.accepted
    [] h = "H3" -> RightBy(st, w)
    [] h = "H4" -> w.trace.http = "OK"
    [] h = "H5" -> w.gateway # {}
    [] h = "H6" -> \E m \in w.messages : m.status = "CONSUMED"
    [] h = "H7" -> w.asset.status = "SUCCESS"
    [] OTHER -> FALSE

LEMMA FactIsRead ==
  ASSUME NEW F, NEW now, NEW O, NEW st, Known(F, now, O, st), NEW claim, NEW value, NEW tools,
         NEW e \in facts(Index(st), claim, value, tools)
  PROVE  /\ e.claim = claim /\ e.value = value /\ e.tool \in tools
         /\ \E o \in O : Reads(F, o, e)
  BY FactsAre, IndexParts, NowIsRead

LEMMA SettledIs ==
  ASSUME NEW F, NEW now, NEW O, NEW st, Known(F, now, O, st), settled_witness(Index(st)) # {}
  PROVE  /\ verify_payment_identity(IndexBase(st)).result = "MATCH"
         /\ \E o \in O : RightBy(st, Current(F, o.seen)) /\ Current(F, o.seen).fund.accepted
  <1>1. verify_payment_identity(IndexBase(st)).result = "MATCH"
    BY IndexParts DEF settled_witness
  <1>2. PICK e \in IdentityReadings(IndexBase(st)) : TRUE
    BY <1>1, MatchHasReading
  <1>3. PICK o \in O : Reads(F, o, e)
    BY <1>2, ReadingIs, NowIsRead
  <1>4. QED
    BY <1>1, <1>2, <1>3, MatchIsRight

LEMMA TraceIsConstant ==
  ASSUME NEW F, NEW now \in Nat, FramesOK(F, now), NEW s \in Int, NEW t \in Int,
         s >= InitialTime, t >= InitialTime
  PROVE  /\ Current(F, s).trace = Current(F, t).trace
         /\ (Current(F, s).gateway = {}) = (Current(F, t).gateway = {})
  <1>1. CASE s <= t
    BY <1>1, CurrentEvolves DEF Evolves
  <1>2. CASE t <= s
    BY <1>2, CurrentEvolves DEF Evolves
  <1>3. QED
    BY <1>1, <1>2

LEMMA KnownTimes ==
  ASSUME NEW F, NEW now, NEW O, NEW st, Known(F, now, O, st), NEW o \in O
  PROVE  /\ now \in Nat /\ FramesOK(F, now) /\ o.seen \in Int /\ o.seen >= InitialTime
         /\ WorldOK(Current(F, o.seen))
  <1>1. /\ now \in Nat /\ FramesOK(F, now) /\ o.seen \in Int /\ o.seen > InitialTime
    BY ObservationParts DEF Known, ObservationsOK
  <1>2. o.seen >= InitialTime
    BY <1>1 DEF InitialTime
  <1>3. WorldOK(Current(F, o.seen))
    BY <1>1, <1>2, CurrentIsOK
  <1>4. QED
    BY <1>1, <1>2, <1>3

(* The request's trace never changes, so the payment's own call decides.   *)
LEMMA TimeoutAndPayment ==
  ASSUME NEW F, NEW now, NEW O, NEW st, Known(F, now, O, st), "H4" \in Confirmed(Graph(st, TRUE))
  PROVE  \E o \in O : HoldsBy(st, "H4", Current(F, o.seen))
  <1>0. Confirming(Index(st), "H4") # {}
    BY ConfirmedBy
  <1>1. TimedOut(Index(st)) # {} /\ settled_witness(Index(st)) # {}
    BY <1>0 DEF Confirming
  <1>2. PICK e \in facts(Index(st), "HTTP_RESPONSE_STATUS", "TIMEOUT", {"TRACE"}) : TRUE
    BY <1>1 DEF TimedOut, HttpIs, for_request
  <1>3. PICK o \in O : e.tool = "TRACE" /\ e.claim = "HTTP_RESPONSE_STATUS" /\ e.value = "TIMEOUT"
                       /\ Reads(F, o, e)
    BY <1>2, FactIsRead
  <1>4. Current(F, o.seen).trace.http = "TIMEOUT"
    BY <1>3 DEF Reads, Says
  <1>5. PICK p \in O : RightBy(st, Current(F, p.seen))
    BY <1>1, SettledIs
  <1>6. Current(F, o.seen).trace = Current(F, p.seen).trace
    BY KnownTimes, TraceIsConstant
  <1>7. QED
    BY <1>4, <1>5, <1>6 DEF HoldsBy

LEMMA FailedCallback ==
  ASSUME NEW F, NEW now, NEW O, NEW st, Known(F, now, O, st),
         NEW value, NEW p \in callback_pairs(Index(st), value)
  PROVE  \E o \in O : \E g \in Current(F, o.seen).gateway, m \in Current(F, o.seen).messages :
            m.event = g.event /\ m.status = value
  <1>1. p[1] \in gateway(Index(st)) /\ p[2] \in messages(Index(st), value)
    BY PairsAre
  <1>2. PICK o \in O : p[1].tool \in {"CALLBACK", "CALLBACK_RAW"} /\ Reads(F, o, p[1])
    BY <1>1, FactIsRead DEF gateway
  <1>3. Current(F, o.seen).gateway # {}
    BY <1>2 DEF Reads, Says
  <1>4. PICK x \in O : /\ p[2].tool = "MESSAGES" /\ p[2].claim = "MESSAGE_CONSUME_STATUS"
                       /\ p[2].value = value /\ Reads(F, x, p[2])
    BY <1>1, FactIsRead DEF messages
  <1>5. PICK m \in Current(F, x.seen).messages : p[2] \in MessageClaims(x, m)
    BY <1>4 DEF Reads, Says
  <1>6. m.status = value
    BY <1>4, <1>5, MessageSays
  <1>7. Current(F, x.seen).gateway # {}
    BY <1>3, KnownTimes, TraceIsConstant
  <1>8. PICK g \in Current(F, x.seen).gateway : TRUE
    BY <1>7
  <1>9. m.event = g.event
    BY <1>4, <1>5, <1>8 DEF Reads, WorldOK, MessagesOK, GatewayOK
  <1>10. QED
    BY <1>5, <1>6, <1>8, <1>9


(* The error claims of a failed message are those of its own observation,  *)
(* and a message has one error.                                            *)
LEMMA SchemaMismatch ==
  ASSUME NEW F, NEW now, NEW O, NEW st, Known(F, now, O, st), schema_witness(Index(st)) # {}
  PROVE  \E o \in O : HoldsBy(st, "H6_SCHEMA_MISMATCH", Current(F, o.seen))
  <1> DEFINE ix == Index(st)
  <1>1. PICK g \in mismatch_groups(ix) : TRUE
    BY DEF schema_witness
  <1>2. PICK f \in messages(ix, "FAILED") : mismatch_complete(ix, f)
    BY <1>1 DEF mismatch_groups
  <1>3. PICK o \in O : /\ f.tool = "MESSAGES" /\ f.claim = "MESSAGE_CONSUME_STATUS"
                       /\ f.value = "FAILED" /\ Reads(F, o, f)
    BY <1>2, FactIsRead DEF messages
  <1>4. PICK m \in Current(F, o.seen).messages : f \in MessageClaims(o, m)
    BY <1>3 DEF Reads, Says
  <1>5. m.status = "FAILED"
    BY <1>3, <1>4, MessageSays
  <1>6. AtMostOne(Current(F, o.seen).messages) /\ AtMostOne(m.error)
    BY <1>3, <1>4 DEF Reads, WorldOK, MessagesOK
  <1>7. ASSUME NEW e \in mismatch_errors(ix, f) PROVE e \in MessageClaims(o, m)
    <2>1. e \in current(st) /\ e.tool = "MESSAGES" /\ e.obs = f.obs
      BY IndexParts DEF mismatch_errors
    <2>2. PICK p \in O : Reads(F, p, e)
      BY <2>1, NowIsRead
    <2>3. ObservationId(p) = ObservationId(o)
      BY <1>3, <2>1, <2>2, ClaimParts DEF Reads
    <2>4. p = o
      BY <2>3, SameObservation
    <2>5. PICK n \in Current(F, o.seen).messages : e \in MessageClaims(o, n)
      BY <2>1, <2>2, <2>4 DEF Reads, Says
    <2>6. n = m
      BY <1>6 DEF AtMostOne
    <2>7. QED
      BY <2>5, <2>6
  <1> DEFINE V(c) == mismatch_value(ix, f, c)
  <1>8. ASSUME NEW v \in V("MESSAGE_EXPECTED_FIELD_TYPE") PROVE \E x \in m.error : v = x.expected
    <2>1. PICK e \in mismatch_errors(ix, f) : e.claim = "MESSAGE_EXPECTED_FIELD_TYPE" /\ v = e.value
      BY <1>8 DEF mismatch_value
    <2>2. QED
      BY <1>7, <2>1, MessageSays
  <1>9. ASSUME NEW v \in V("MESSAGE_ACTUAL_FIELD_TYPE") PROVE \E x \in m.error : v = x.actual
    <2>1. PICK e \in mismatch_errors(ix, f) : e.claim = "MESSAGE_ACTUAL_FIELD_TYPE" /\ v = e.value
      BY <1>9 DEF mismatch_value
    <2>2. QED
      BY <1>7, <2>1, MessageSays
  <1>10. /\ Single(V("MESSAGE_EXPECTED_FIELD_TYPE")) /\ Single(V("MESSAGE_ACTUAL_FIELD_TYPE"))
         /\ V("MESSAGE_EXPECTED_FIELD_TYPE") # V("MESSAGE_ACTUAL_FIELD_TYPE")
    BY <1>2 DEF mismatch_complete
  <1>11. PICK a : V("MESSAGE_EXPECTED_FIELD_TYPE") = {a}
    BY <1>10 DEF Single
  <1>12. PICK b : V("MESSAGE_ACTUAL_FIELD_TYPE") = {b}
    BY <1>10 DEF Single
  <1> HIDE DEF V
  <1>13. PICK x \in m.error : a = x.expected
    BY <1>8, <1>11
  <1>14. PICK y \in m.error : b = y.actual
    BY <1>9, <1>12
  <1>15. x = y /\ a # b
    BY <1>6, <1>10, <1>11, <1>12 DEF AtMostOne
  <1>16. x.expected # x.actual
    BY <1>13, <1>14, <1>15
  <1>17. QED
    BY <1>4, <1>5, <1>16 DEF HoldsBy

(* The failed delivery and the waiting asset party were seen at two calls; *)
(* at the earlier of them both were so, and the payment was applied.       *)
LEMMA LastMile ==
  ASSUME NEW F, NEW now, NEW O, NEW st, Known(F, now, O, st),
         Undelivered(Index(st)) # {}, PendingAt(Index(st)) # {}
  PROVE  \E o \in O : HoldsBy(st, "H7", Current(F, o.seen))
  <1>1. PICK d \in facts(Index(st), "ASSET_DELIVERY_STATUS", "FAILED", {"ASSET_DELIVERY"}) : TRUE
    BY DEF Undelivered
  <1>2. PICK a \in facts(Index(st), "ASSET_STATUS", "PROCESSING", {"ASSET"}) : TRUE
    BY DEF PendingAt
  <1>3. PICK p \in O : /\ d.claim = "ASSET_DELIVERY_STATUS" /\ d.value = "FAILED"
                       /\ d.tool = "ASSET_DELIVERY" /\ Reads(F, p, d)
    BY <1>1, FactIsRead
  <1>4. PICK q \in O : a.value = "PROCESSING" /\ a.tool = "ASSET" /\ Reads(F, q, a)
    BY <1>2, FactIsRead
  <1>5. Current(F, p.seen).delivery.status = "FAILED"
    BY <1>3 DEF Reads, Says
  <1>6. Current(F, q.seen).asset.status = "PROCESSING"
    BY <1>4 DEF Reads, Says
  <1>7. /\ now \in Nat /\ FramesOK(F, now) /\ p.seen \in Int /\ p.seen >= InitialTime
        /\ q.seen \in Int /\ q.seen >= InitialTime
        /\ LastMileOK(Current(F, p.seen)) /\ LastMileOK(Current(F, q.seen))
    BY KnownTimes DEF WorldOK
  <1>8. CASE p.seen <= q.seen
    <2>1. Current(F, p.seen).asset.status = "PROCESSING"
      BY <1>6, <1>7, <1>8, CurrentEvolves DEF Evolves
    <2>2. QED
      BY <1>5, <1>7, <2>1 DEF LastMileOK, HoldsBy
  <1>9. CASE q.seen <= p.seen
    <2>1. Current(F, q.seen).delivery.status = "FAILED"
      BY <1>5, <1>7, <1>9, CurrentEvolves DEF Evolves
    <2>2. QED
      BY <1>6, <1>7, <2>1 DEF LastMileOK, HoldsBy
  <1>10. QED
    BY <1>7, <1>8, <1>9

LEMMA ConfirmedOnce ==
  ASSUME NEW F, NEW now, NEW O, NEW st, Known(F, now, O, st), NEW h \in Confirmed(Graph(st, TRUE))
  PROVE  \E o \in O : HoldsBy(st, h, Current(F, o.seen))
  <1> DEFINE ix == Index(st)
  <1>1. h \in HypothesisId /\ Confirming(ix, h) # {}
    BY ConfirmedBy
  <1>2. CASE h = "H1"
    <2>1. PICK e \in facts(ix, "REQUEST_SENT", "FALSE", {"TRACE"}) : TRUE
      BY <1>1, <1>2 DEF Confirming
    <2>2. PICK o \in O : /\ e.claim = "REQUEST_SENT" /\ e.value = "FALSE" /\ e.tool = "TRACE"
                         /\ Reads(F, o, e)
      BY <2>1, FactIsRead
    <2>3. ~Current(F, o.seen).trace.sent
      BY <2>2 DEF Reads, Says, Bool
    <2>4. QED
      BY <1>2, <2>3 DEF HoldsBy
  <1>3. CASE h = "H4"
    BY <1>3, TimeoutAndPayment
  <1>4. CASE h = "H6"
    <2>1. PICK p \in callback_pairs(ix, "FAILED") : TRUE
      BY <1>1, <1>4 DEF Confirming, Pairs
    <2>2. QED
      BY <1>4, <2>1, FailedCallback DEF HoldsBy
  <1>5. CASE h = "H6_SCHEMA_MISMATCH"
    <2>1. schema_witness(ix) # {}
      BY <1>1, <1>5 DEF Confirming
    <2>2. QED
      BY <1>5, <2>1, SchemaMismatch
  <1>6. CASE h = "H7"
    <2>1. Undelivered(ix) # {} /\ PendingAt(ix) # {}
      BY <1>1, <1>6 DEF Confirming
    <2>2. QED
      BY <1>6, <2>1, LastMile
  <1>7. CASE h \notin {"H1", "H4", "H6", "H6_SCHEMA_MISMATCH", "H7"}
    <2>1. PICK e \in current(st) : TRUE
      BY <1>1, DecisiveIsCurrent
    <2>2. PICK o \in O : Reads(F, o, e)
      BY <2>1, NowIsRead
    <2>3. QED
      BY <1>7, <2>2 DEF HoldsBy
  <1>8. QED
    BY <1>2, <1>3, <1>4, <1>5, <1>6, <1>7


LEMMA EliminatedOnce ==
  ASSUME NEW F, NEW now, NEW O, NEW st, Known(F, now, O, st), NEW h \in Eliminated(Graph(st, TRUE))
  PROVE  \E o \in O : FailsBy(st, h, Current(F, o.seen))
  <1> DEFINE ix == Index(st)
  <1>1. h \in HypothesisId /\ Eliminating(ix, h) # {}
    BY EliminatedBy
  <1>2. CASE h = "H1"
    <2>1. PICK e \in facts(ix, "REQUEST_SENT", "TRUE", {"TRACE"}) : TRUE
      BY <1>1, <1>2 DEF Eliminating
    <2>2. PICK o \in O : /\ e.claim = "REQUEST_SENT" /\ e.value = "TRUE" /\ e.tool = "TRACE"
                         /\ Reads(F, o, e)
      BY <2>1, FactIsRead
    <2>3. Current(F, o.seen).trace.sent
      BY <2>2 DEF Reads, Says, Bool
    <2>4. QED
      BY <1>2, <2>3 DEF FailsBy
  <1>3. CASE h = "H2"
    <2>1. CASE settled_witness(ix) # {}
      BY <1>3, <2>1, SettledIs DEF FailsBy
    <2>2. CASE settled_witness(ix) = {}
      <3>1. PICK v, e : e \in facts(ix, "FUND_BUSINESS_STATUS", v, {"FUND"})
        BY <1>1, <1>3, <2>2 DEF Eliminating, FundIs, for_request
      <3>2. PICK o \in O : e.tool = "FUND" /\ Reads(F, o, e)
        BY <3>1, FactIsRead
      <3>3. Current(F, o.seen).fund.accepted
        BY <3>2 DEF Reads, Says, WorldOK, FundOK
      <3>4. QED
        BY <1>3, <3>3 DEF FailsBy
    <2>3. QED
      BY <2>1, <2>2
  <1>4. CASE h = "H3"
    <2>1. settled_witness(ix) # {}
      BY <1>1, <1>4 DEF Eliminating
    <2>2. QED
      BY <1>4, <2>1, SettledIs DEF FailsBy
  <1>5. CASE h = "H4"
    <2>1. PICK e \in facts(ix, "HTTP_RESPONSE_STATUS", "OK", {"TRACE"}) : TRUE
      BY <1>1, <1>5 DEF Eliminating, HttpIs, for_request
    <2>2. PICK o \in O : /\ e.claim = "HTTP_RESPONSE_STATUS" /\ e.value = "OK" /\ e.tool = "TRACE"
                         /\ Reads(F, o, e)
      BY <2>1, FactIsRead
    <2>3. Current(F, o.seen).trace.http = "OK"
      BY <2>2 DEF Reads, Says
    <2>4. QED
      BY <1>5, <2>3 DEF FailsBy
  <1>6. CASE h = "H5"
    <2>1. PICK e \in gateway(ix) : TRUE
      BY <1>1, <1>6 DEF Eliminating
    <2>2. PICK o \in O : e.tool \in {"CALLBACK", "CALLBACK_RAW"} /\ Reads(F, o, e)
      BY <2>1, FactIsRead DEF gateway
    <2>3. Current(F, o.seen).gateway # {}
      BY <2>2 DEF Reads, Says
    <2>4. QED
      BY <1>6, <2>3 DEF FailsBy
  <1>7. CASE h = "H6"
    <2>1. PICK p \in callback_pairs(ix, "CONSUMED") : TRUE
      BY <1>1, <1>7 DEF Eliminating, Pairs
    <2>2. QED
      BY <1>7, <2>1, FailedCallback DEF FailsBy
  <1>8. CASE h = "H7"
    <2>1. PICK e \in facts(ix, "ASSET_STATUS", "SUCCESS", {"ASSET"}) : TRUE
      BY <1>1, <1>8 DEF Eliminating
    <2>2. PICK o \in O : e.value = "SUCCESS" /\ e.tool = "ASSET" /\ Reads(F, o, e)
      BY <2>1, FactIsRead
    <2>3. Current(F, o.seen).asset.status = "SUCCESS"
      BY <2>2 DEF Reads, Says
    <2>4. QED
      BY <1>8, <2>3 DEF FailsBy
  <1>9. h \in {"H1", "H2", "H3", "H4", "H5", "H6", "H7"}
    BY <1>1 DEF Eliminating, HypothesisId
  <1>10. QED
    BY <1>2, <1>3, <1>4, <1>5, <1>6, <1>7, <1>8, <1>9

(***************************************************************************)
(* A confirmed payment leaves no safety gap of its own open.               *)
(***************************************************************************)
(* A claim of a matching identity is agreed: every current claim of its    *)
(* subject is one of the readings that were judged.                        *)
LEMMA MatchIsAgreed ==
  ASSUME NEW F, NEW now, NEW O, NEW st, Known(F, now, O, st),
         verify_payment_identity(IndexBase(st)).result = "MATCH",
         NEW e \in IdentityReadings(IndexBase(st)), NEW c \in IDENTITY_CLAIMS, NEW X,
         X = Expected(IndexBase(st), Anchors(IndexBase(st)), c, e.id)
  PROVE  \E x \in facts(Index(st), c, X, {"PAYMENT"}) :
           x.value = X /\ x \in IdentityReadings(IndexBase(st))
  <1> DEFINE P == IdentityReadings(IndexBase(st))
  <1>1. /\ \E x \in P : x.claim = c /\ x.id = e.id /\ x.value = X
        /\ \A y \in P : y.claim = c /\ y.id = e.id => y.value = X
    BY MatchMeans DEF Compared
  <1>2. PICK x \in P : x.claim = c /\ x.id = e.id /\ x.value = X
    BY <1>1
  <1>3. /\ x \in current(st) /\ x.kind = "TRANSACTION" /\ x.tool = "PAYMENT" /\ x.source = "PRIMARY"
    BY <1>2, ReadingIs
  <1>4. ASSUME NEW y \in current(st), y.claim = c, dimension(y) = dimension(x)
        PROVE  y.value = X
    <2>1. y.kind = "TRANSACTION" /\ y.id = e.id
      BY <1>2, <1>3, <1>4 DEF dimension
    <2>2. PICK o \in O : Reads(F, o, y)
      BY NowIsRead
    <2>3. y.tool = "PAYMENT" /\ y.source = "PRIMARY"
      BY <1>4, <2>2, NowIsRead DEF Reads, Says
    <2>4. y \in P
      BY <1>4, <2>1, <2>3, IndexParts DEF IdentityReadings
    <2>5. QED
      BY <1>1, <1>4, <2>1, <2>4
  <1>5. x \in facts(Index(st), c, X, {"PAYMENT"})
    BY <1>2, <1>3, <1>4, IndexParts DEF facts, agreed, Now
  <1>6. QED
    BY <1>2, <1>5


LEMMA PaymentClosesGaps ==
  ASSUME NEW F, NEW now, NEW O, NEW st, Known(F, now, O, st), "H4" \in Confirmed(Graph(st, TRUE)),
         NEW g \in Graph(st, TRUE).gaps,
         g.name \in {"PAYMENT_IDENTITY", "PAYMENT_FINALITY", "REQUEST_ASSOCIATION"}
  PROVE  g.status = "SATISFIED"
  <1> DEFINE ix == Index(st)
             base == IndexBase(st)
             A == Anchors(base)
             R == evaluate_rules(ix, TRUE)
  <1>0. Confirming(ix, "H4") # {}
    BY ConfirmedBy
  <1>1. TimedOut(ix) # {} /\ settled_witness(ix) # {}
    BY <1>0 DEF Confirming
  <1>2. verify_payment_identity(base).result = "MATCH"
    BY <1>1, SettledIs
  <1>3. PICK e \in IdentityReadings(base) : TRUE
    BY <1>2, MatchHasReading
  <1>4. /\ "PAYMENT_FINALITY" \in IDENTITY_CLAIMS /\ "TRANSACTION_FUND_REQUEST_ID" \in IDENTITY_CLAIMS
    BY DEF IDENTITY_CLAIMS
  <1>5. Final(ix) # {}
    <2>1. Expected(base, A, "PAYMENT_FINALITY", e.id) = "SETTLED"
      BY DEF Expected
    <2>2. QED
      BY <1>2, <1>3, <1>4, <2>1, MatchIsAgreed DEF Final
  <1>6. PICK t \in HttpIs(ix, "TIMEOUT") : t.request = ix.request
    BY <1>1 DEF TimedOut
  <1>7. /\ t \in facts(ix, "HTTP_RESPONSE_STATUS", "TIMEOUT", {"TRACE"})
        /\ ix.request # "NONE" /\ RequestOf(t) = ix.request
    BY <1>6 DEF HttpIs, for_request
  <1>8. /\ t \in current(st) /\ t.claim = "HTTP_RESPONSE_STATUS" /\ t.tool = "TRACE"
        /\ t.source = "PRIMARY"
    BY <1>7, FactsAre, IndexParts
  <1>9. Links(ix) # {}
    BY <1>6, <1>7, <1>8, IndexParts DEF Links, Now
  <1>10. t \in A
    BY <1>7, <1>8, IndexParts DEF Anchors
  <1>11. Paid(ix) # {}
    <2>1. Expected(base, A, "TRANSACTION_FUND_REQUEST_ID", e.id) = ix.request
      BY <1>10, IndexParts DEF Expected
    <2>2. PICK x \in facts(ix, "TRANSACTION_FUND_REQUEST_ID", ix.request, {"PAYMENT"}) :
            x.value = ix.request /\ x \in IdentityReadings(base)
      BY <1>2, <1>3, <1>4, <2>1, MatchIsAgreed
    <2>3. x.claim = "TRANSACTION_FUND_REQUEST_ID"
      BY <2>2, FactsAre
    <2>4. x \in current(st) /\ x.kind = "TRANSACTION" /\ x.tool = "PAYMENT"
      BY <2>2, ReadingIs
    <2>5. PICK o \in O : Reads(F, o, x)
      BY <2>4, NowIsRead
    <2> DEFINE f == Current(F, o.seen).fund
    <2>6. PICK u \in f.tx : x \in TransactionClaims(o, OnTransaction(o, f, u), u)
      BY <2>4, <2>5, ReadingSays
    <2>7. u.request = f.request
      BY <2>5, <2>6 DEF Reads, WorldOK, FundOK, validate_transaction
    <2>8. x.request = f.request /\ x.value = u.request
      BY <2>3, <2>6, TransactionSays
    <2>9. RequestOf(x) = ix.request
      BY <1>7, <2>2, <2>7, <2>8 DEF RequestOf
    <2>10. x \in for_request(ix, facts(ix, "TRANSACTION_FUND_REQUEST_ID", ix.request, {"PAYMENT"}))
      BY <1>7, <2>2, <2>9 DEF for_request
    <2>11. QED
      BY <2>10 DEF Paid
  <1>12. SafetyGap(ix, R, g)
    BY GraphParts, GapsAre DEF GapsWellFormed
  <1>13. QED
    BY <1>1, <1>5, <1>9, <1>11, <1>12 DEF SafetyGap, IsGap

(***************************************************************************)
(* The newest reading decides.                                             *)
(***************************************************************************)
LEMMA UnchallengedIsDecisive ==
  ASSUME NEW F, NEW now, NEW O, NEW st, Known(F, now, O, st), NEW h \in HypothesisId,
         NEW e \in DOMAIN Graph(st, TRUE).results[h].relations,
         Graph(st, TRUE).results[h].relations[e] \in {"DECISIVE_SUPPORT", "DECISIVE_CONTRADICTION"}
  PROVE  /\ e.fresh = "CURRENT" /\ e.complete = "COMPLETE"
         /\ \A o \in O : o.tool = e.tool /\ o.version = e.scope /\ o.status # "OK" => o.seen < e.seen
  <1>1. e \in current(st)
    BY ResultsAreSound, DecisiveIsCurrent DEF Sound
  <1>2. Undoubted(st, e)
    BY <1>1, NowIsRead
  <1>3. PICK p \in O : Reads(F, p, e)
    BY <1>1, NowIsRead
  <1>4. e.seen \in Int
    BY <1>3, ClaimParts DEF Reads
  <1>5. ASSUME NEW o \in O, o.tool = e.tool, o.version = e.scope, o.status # "OK"
        PROVE  o.seen < e.seen
    <2>1. PICK l \in st : /\ l.claim = "SOURCE_LOOKUP_STATUS" /\ l.tool = o.tool
                          /\ l.scope = o.version /\ l.seen = o.seen
      BY <1>5, LookupIsStored
    <2>2. ~(o.seen >= e.seen)
      BY <1>2, <1>5, <2>1 DEF Undoubted
    <2>3. o.seen \in Int
      BY KnownTimes
    <2>4. QED
      BY <1>4, <2>2, <2>3
  <1>6. QED
    BY <1>2, <1>5 DEF Undoubted

\* Call o is the newest of its tool, and was answered by the primary.
NewestAnswer(O, o) ==
  /\ o \in O /\ o.status = "OK" /\ o.source = "PRIMARY"
  /\ \A x \in O : x.tool = o.tool => x.seen <= o.seen

LEMMA NewestIsUndoubted ==
  ASSUME NEW F, NEW now, NEW O, NEW st, Known(F, now, O, st), NEW o, NewestAnswer(O, o),
         NEW e \in extract(o)
  PROVE  Undoubted(st, e) /\ Reads(F, o, e)
  <1>1. o \in O /\ o.status = "OK" /\ o.freshness = "CURRENT" /\ o.seen \in Int /\ o.asof \in Int
    BY ObservationParts DEF NewestAnswer, Known, ObservationsOK, Faithful
  <1>2. Reads(F, o, e) /\ e \in st
    BY <1>1, ReadFrom, FreshIsStored
  <1>3. /\ e.fresh = "CURRENT" /\ e.complete = "COMPLETE" /\ e.asof = o.seen /\ e.seen = o.seen
        /\ e.tool = o.tool
    BY <1>2, ClaimParts DEF Reads
  <1>4. e.asof # NoTime
    BY <1>2, <1>3 DEF Reads, NoTime, InitialTime
  <1>5. ASSUME NEW l \in st, l.claim = "SOURCE_LOOKUP_STATUS", l.tool = e.tool
        PROVE  ~(l.seen >= e.seen)
    <2>1. PICK x \in O : x.status # "OK" /\ x.tool = l.tool /\ x.seen = l.seen /\ x.seen \in Int
      BY <1>5, LookupIsFailed
    <2>2. x.seen <= o.seen
      BY <1>3, <1>5, <2>1 DEF NewestAnswer
    <2>3. x.seen # o.seen
      BY <1>1, <2>1 DEF Known, ObservationsOK
    <2>4. QED
      BY <1>1, <1>3, <2>1, <2>2, <2>3
  <1>6. QED
    BY <1>2, <1>3, <1>4, <1>5 DEF Undoubted, Reads


LEMMA NewestSees ==
  ASSUME NEW F, NEW now, NEW O, NEW st, Known(F, now, O, st), NEW o, NewestAnswer(O, o)
  PROVE  o \in O /\ o.status = "OK" /\ o.data = {Current(F, o.seen)}
  BY DEF NewestAnswer, Known, ObservationsOK, Faithful

(* A later reading of the messages is at least as recent in business time. *)
LEMMA ConsumptionDecides ==
  ASSUME NEW F, NEW now, NEW O, NEW st, Known(F, now, O, st), NEW o, NewestAnswer(O, o),
         o.tool = "MESSAGES",
         \A w \in o.data : w.messages # {} /\ \A m \in w.messages : m.status = "CONSUMED"
  PROVE  messages(Index(st), "FAILED") = {}
  <1> SUFFICES ASSUME NEW f \in messages(Index(st), "FAILED") PROVE FALSE
    OBVIOUS
  <1> DEFINE w == Current(F, o.seen)
  <1>1. o \in O /\ o.status = "OK" /\ w \in o.data
    BY NewestSees
  <1>2. PICK m \in w.messages : m.status = "CONSUMED"
    BY <1>1
  <1>3. PICK e \in MessageClaims(o, m) : e.claim = "MESSAGE_CONSUME_STATUS"
    BY MessageIsRead
  <1>4. e \in extract(o)
    <2>1. m \in project(w, o.tool, o.version)
      BY <1>2 DEF project
    <2>2. e \in Claims(o, m)
      BY <1>3 DEF Claims
    <2>3. QED
      BY <1>1, <2>1, <2>2, InExtract
  <1>5. Undoubted(st, e) /\ Reads(F, o, e)
    BY <1>4, NewestIsUndoubted
  <1>6. /\ e.value = "CONSUMED" /\ e.kind = "MESSAGE" /\ e.id = m.message /\ e.field = "NONE"
        /\ e.at = m.at /\ e.tool = "MESSAGES"
    BY <1>2, <1>3, <1>5, MessageSays, ClaimParts DEF Reads
  <1>7. m.message = "MSG" /\ m.at \in Int /\ m.at >= 0
    BY <1>2, <1>5, RecordTimes DEF Reads, WorldOK, MessagesOK
  <1>8. ASSUME NEW x, Undoubted(st, x), x.claim = "MESSAGE_CONSUME_STATUS"
        PROVE  /\ dimension(x) = dimension(e) /\ business_time(x) <= business_time(e)
    <2>1. PICK p \in O : Reads(F, p, x)
      BY <1>8, UndoubtedIsRead
    <2>2. x.tool = "MESSAGES" /\ p.tool = "MESSAGES"
      BY <1>8, <2>1, ClaimParts DEF Reads, Says
    <2>3. PICK n \in Current(F, p.seen).messages : x \in MessageClaims(p, n)
      BY <2>1, <2>2 DEF Reads, Says
    <2>4. x.kind = "MESSAGE" /\ x.id = n.message /\ x.field = "NONE" /\ x.at = n.at
      BY <1>8, <2>3, MessageSays
    <2>5. n.message = "MSG" /\ n.at \in Int /\ n.at >= 0
      BY <2>1, <2>3, RecordTimes DEF Reads, WorldOK, MessagesOK
    <2>6. p.seen <= o.seen
      BY <2>2 DEF NewestAnswer
    <2>7. n.at <= m.at
      <3>1. Evolves(Current(F, p.seen), w)
        BY <1>1, <2>6, KnownTimes, CurrentEvolves
      <3>2. QED
        BY <1>2, <2>3, <3>1 DEF Evolves
    <2>8. dimension(x) = dimension(e)
      BY <1>6, <1>7, <2>2, <2>4, <2>5 DEF dimension
    <2>9. business_time(x) = n.at /\ business_time(e) = m.at
      BY <1>6, <1>7, <2>4, <2>5 DEF business_time, NoTime
    <2>10. QED
      BY <2>7, <2>8, <2>9
  <1>9. e \in current(st)
    BY <1>3, <1>5, <1>8, CurrentIs
  <1>10. /\ f \in current(st) /\ f.claim = "MESSAGE_CONSUME_STATUS"
         /\ \A x \in current(st) : x.claim = "MESSAGE_CONSUME_STATUS" /\ dimension(x) = dimension(f)
                                   => x.value = "FAILED"
    BY FactsAre, IndexParts DEF messages
  <1>11. dimension(f) = dimension(e)
    BY <1>8, <1>10, NowIsRead
  <1>12. e.value = "FAILED"
    BY <1>3, <1>9, <1>10, <1>11
  <1>13. QED
    BY <1>6, <1>12

(* Corrections keep the transaction's time, so the newest reading of it is *)
(* one of the readings that are judged.                                    *)
LEMMA PaymentDecides ==
  ASSUME NEW F, NEW now, NEW O, NEW st, Known(F, now, O, st), NEW o, NewestAnswer(O, o),
         o.tool = "PAYMENT", \A w \in o.data : w.fund.tx # {} /\ ~RightBy(st, w)
  PROVE  verify_payment_identity(IndexBase(st)).result # "MATCH"
  <1> SUFFICES ASSUME verify_payment_identity(IndexBase(st)).result = "MATCH" PROVE FALSE
    OBVIOUS
  <1> DEFINE w == Current(F, o.seen)
  <1>1. o \in O /\ o.status = "OK" /\ w \in o.data
    BY NewestSees
  <1>2. w.fund.tx # {} /\ ~RightBy(st, w) /\ WorldOK(w)
    BY <1>1, KnownTimes
  <1>3. PICK e \in PaymentClaims(o, w.fund) : e.claim = "PAYMENT_FINALITY" /\ e.kind = "TRANSACTION"
    BY <1>2, PaymentIsRead
  <1>4. e \in extract(o)
    <2>1. w.fund.status # "NOT_RECEIVED"
      BY <1>2 DEF WorldOK, FundOK
    <2>2. w.fund \in project(w, o.tool, o.version)
      BY <2>1 DEF project
    <2>3. e \in Claims(o, w.fund)
      BY <1>3 DEF Claims
    <2>4. QED
      BY <1>1, <2>2, <2>3, InExtract
  <1>5. Undoubted(st, e) /\ Reads(F, o, e) /\ e.tool = "PAYMENT" /\ e.source = "PRIMARY"
    BY <1>4, NewestIsUndoubted, ClaimParts DEF Reads
  <1>6. PICK t \in w.fund.tx : e \in TransactionClaims(o, OnTransaction(o, w.fund, t), t)
    BY <1>3, PaymentSays
  <1>7. e.at = t.at
    BY <1>6, TransactionSays
  <1>8. ASSUME NEW x, Undoubted(st, x), x.claim = e.claim, dimension(x) = dimension(e)
        PROVE  business_time(x) <= business_time(e)
    <2>1. PICK p \in O : Reads(F, p, x)
      BY <1>8, UndoubtedIsRead
    <2>2. x.kind = "TRANSACTION"
      BY <1>3, <1>8 DEF dimension
    <2>3. x.claim \in IDENTITY_CLAIMS
      BY <1>3, <1>8 DEF IDENTITY_CLAIMS
    <2>4. x.tool = "PAYMENT" /\ p.tool = "PAYMENT"
      BY <2>1, <2>3, ClaimParts DEF Reads, Says
    <2>5. PICK u \in Current(F, p.seen).fund.tx :
            x \in TransactionClaims(p, OnTransaction(p, Current(F, p.seen).fund, u), u)
      BY <2>1, <2>2, <2>4, ReadingSays
    <2>6. x.at = u.at
      BY <2>5, TransactionSays
    <2>7. p.seen <= o.seen
      BY <2>4 DEF NewestAnswer
    <2>8. u.at = t.at
      <3>1. Evolves(Current(F, p.seen), w)
        BY <1>1, <2>7, KnownTimes, CurrentEvolves
      <3>2. QED
        BY <1>6, <2>5, <3>1 DEF Evolves
    <2>9. /\ x.asof = p.seen /\ e.asof = o.seen /\ p.seen \in Int /\ o.seen \in Int
          /\ p.seen # NoTime /\ o.seen # NoTime
      BY <1>5, <2>1, ClaimParts DEF Reads, NoTime, InitialTime
    <2>10. t.at \in Int
      BY <1>2, <1>6, RecordTimes DEF WorldOK
    <2>11. QED
      BY <1>7, <2>6, <2>7, <2>8, <2>9, <2>10 DEF business_time
  <1>9. e \in current(st)
    BY <1>5, <1>8, CurrentIs
  <1>10. e \in IdentityReadings(IndexBase(st))
    BY <1>3, <1>5, <1>9, IndexParts DEF IdentityReadings, IDENTITY_CLAIMS
  <1>11. RightBy(st, w)
    BY <1>1, <1>5, <1>10, MatchIsRight
  <1>12. QED
    BY <1>2, <1>11



(***************************************************************************)
(* The invariant holds of every step.                                      *)
(***************************************************************************)
LEMMA FaithfulLater ==
  ASSUME NEW F, NEW now \in Nat, NEW later \in Nat, now <= later, NEW o, Faithful(F, now, o)
  PROVE  Faithful(F, later, o)
  <1>1. o.seen \in Int
    BY ObservationParts
  <1>2. QED
    BY <1>1 DEF Faithful

LEMMA FaithfulAppended ==
  ASSUME NEW F, NEW now \in Nat, FramesOK(F, now), NEW v \in WorldState, v.at = now + 1,
         NEW o, Faithful(F, now, o)
  PROVE  Faithful(Append(F, v), now, o)
  <1>1. o.seen \in Int
    BY ObservationParts
  <1>2. o.seen \in Int /\ o.seen >= InitialTime /\ o.seen <= now
    BY <1>1 DEF Faithful, InitialTime
  <1>3. Current(Append(F, v), o.seen) = Current(F, o.seen)
    BY <1>2, CurrentKept
  <1>4. o.freshness = "CURRENT" /\ o.status = "OK" =>
          o.completeness = "COMPLETE" /\ o.data = {Current(Append(F, v), o.seen)}
    BY <1>3 DEF Faithful
  <1>5. QED
    BY <1>4, Zenon DEF Faithful

\* A new observation is later than every one before it.
LEMMA ObservationsGrow ==
  ASSUME NEW F, NEW now \in Nat, NEW O, ObservationsOK(F, now, O),
         NEW o, Faithful(F, now + 1, o), o.seen = now + 1
  PROVE  ObservationsOK(F, now + 1, O \cup {o})
  <1>1. ASSUME NEW x \in O PROVE Faithful(F, now + 1, x) /\ x.seen \in Int /\ x.seen <= now
    <2>1. Faithful(F, now, x)
      BY DEF ObservationsOK
    <2>2. now + 1 \in Nat /\ now <= now + 1
      OBVIOUS
    <2>3. Faithful(F, now + 1, x)
      BY <2>1, <2>2, FaithfulLater
    <2>4. x.seen \in Int
      BY <2>1, ObservationParts
    <2>5. x.seen <= now
      BY <2>1 DEF Faithful
    <2>6. QED
      BY <2>3, <2>4, <2>5
  <1>2. ASSUME NEW x \in O \cup {o}, NEW y \in O \cup {o}, x.seen = y.seen PROVE x = y
    BY <1>1, <1>2 DEF ObservationsOK
  <1>3. QED
    BY <1>1, <1>2 DEF ObservationsOK

LEMMA ObservationsStay ==
  ASSUME NEW F, NEW now \in Nat, FramesOK(F, now), NEW O, ObservationsOK(F, now, O),
         NEW v \in WorldState, v.at = now + 1
  PROVE  ObservationsOK(Append(F, v), now + 1, O)
  <1>1. ASSUME NEW o \in O PROVE Faithful(Append(F, v), now + 1, o)
    <2>1. Faithful(Append(F, v), now, o)
      BY FaithfulAppended DEF ObservationsOK
    <2>2. QED
      BY <2>1, FaithfulLater
  <1>2. QED
    BY <1>1 DEF ObservationsOK

LEMMA FramesGrow ==
  ASSUME NEW F, NEW now \in Nat, now >= InitialTime, FramesOK(F, now),
         NEW v, Orderly(Last(F), v, now + 1)
  PROVE  FramesOK(Append(F, v), now + 1) /\ v \in WorldState /\ v.at = now + 1
  <1> DEFINE n == Len(F)
             G == Append(F, v)
  <1>1. F \in Seq(WorldState) /\ n \in Nat /\ n >= 6 /\ Last(F) = F[n]
    BY DEF FramesOK, Last, Seeded
  <1>2. v \in WorldState /\ WorldOK(v) /\ v.at = now + 1 /\ Evolves(F[n], v)
    BY <1>1 DEF Orderly, WorldOK
  <1>3. G \in Seq(WorldState) /\ Len(G) = n + 1 /\ G[n + 1] = v
        /\ \A r \in 1 .. n : G[r] = F[r]
    BY <1>1, <1>2
  <1>4. ASSUME NEW r \in 1 .. n PROVE WorldOK(F[r]) /\ F[r].at <= now /\ F[r] \in WorldState
                                      /\ F[r].at \in Int
    <2>1. WorldOK(F[r]) /\ F[r].at <= now
      BY DEF FramesOK
    <2>2. QED
      BY <2>1, FrameTypes DEF WorldOK
  <1>5. ASSUME NEW r \in 1 .. n + 1 PROVE WorldOK(G[r]) /\ G[r].at <= now + 1
    <2>1. CASE r = n + 1
      BY <2>1, <1>2, <1>3
    <2>2. CASE r # n + 1
      <3>1. r \in 1 .. n
        BY <2>2, <1>1
      <3>2. QED
        BY <3>1, <1>3, <1>4
    <2>3. QED
      BY <2>1, <2>2
  <1>6. ASSUME NEW r \in 1 .. 6 PROVE G[r].at <= InitialTime
    <2>1. r \in 1 .. n /\ F[r].at <= InitialTime
      BY <1>1 DEF FramesOK, Seeded
    <2>2. QED
      BY <2>1, <1>3
  <1>7. ASSUME NEW i \in 1 .. n + 1, NEW j \in 1 .. n + 1, 6 <= i, i <= j
        PROVE  Evolves(G[i], G[j])
    <2>1. CASE j # n + 1
      <3>1. i \in 1 .. n /\ j \in 1 .. n
        BY <2>1, <1>1, <1>7
      <3>2. Evolves(F[i], F[j])
        BY <3>1, <1>7 DEF FramesOK, Seeded
      <3>3. QED
        BY <3>1, <3>2, <1>3
    <2>2. CASE j = n + 1 /\ i = n + 1
      BY <2>2, <1>2, <1>3, EvolvesReflexive
    <2>3. CASE j = n + 1 /\ i # n + 1
      <3>1. i \in 1 .. n /\ n \in 1 .. n
        BY <2>3, <1>1
      <3>2. Evolves(F[i], F[n])
        BY <3>1, <1>7 DEF FramesOK, Seeded
      <3>3. Evolves(F[i], v)
        BY <3>1, <3>2, <1>2, <1>4, EvolvesTransitive
      <3>4. QED
        BY <3>1, <3>3, <2>3, <1>3
    <2>4. QED
      BY <2>1, <2>2, <2>3
  <1>8. QED
    BY <1>1, <1>2, <1>3, <1>5, <1>6, <1>7 DEF FramesOK, Seeded


LEMMA ScenarioFrames ==
  ASSUME NEW s \in ScenarioId, NEW F, F = build_scenario(s)
  PROVE  FramesOK(F, InitialTime)
  <1>1. /\ F \in Seq(WorldState) /\ Len(F) = 6
        /\ \A r \in 1 .. 6 : WorldOK(F[r]) /\ F[r].at <= 6
    BY ScenarioOK
  <1>2. ASSUME NEW r \in 1 .. 6 PROVE WorldOK(F[r]) /\ F[r].at <= InitialTime
    <2>1. WorldOK(F[r]) /\ F[r].at <= 6
      BY <1>1
    <2>2. F[r].at \in Int
      BY <2>1, FrameTypes DEF WorldOK
    <2>3. QED
      BY <2>1, <2>2 DEF InitialTime
  <1>3. ASSUME NEW i \in 1 .. 6, NEW j \in 1 .. 6, 6 <= i, i <= j PROVE Evolves(F[i], F[j])
    <2>1. i = 6 /\ j = 6
      BY <1>3
    <2>2. Evolves(F[6], F[6])
      BY <1>2, EvolvesReflexive
    <2>3. QED
      BY <2>1, <2>2
  <1>4. QED
    BY <1>1, <1>2, <1>3 DEF FramesOK, Seeded

LEMMA SeededFaultsOK ==
  ASSUME NEW s \in ScenarioId
  PROVE  FaultsOK(SeededFaults(s))
  <1>1. SeededFaults(s) \subseteq ObservationFault
    BY DEF SeededFaults, ObservationFault, ToolName, FaultKind, Never
  <1>2. \A f \in SeededFaults(s) : f.arg <= 8
    BY DEF SeededFaults
  <1>3. QED
    BY <1>1, <1>2 DEF FaultsOK

LEMMA NothingObserved ==
  ASSUME NEW F, NEW now
  PROVE  ObservationsOK(F, now, {}) /\ ProvenanceValid({}, {})
  BY DEF ObservationsOK, ProvenanceValid

LEMMA InquiryStarts == Init => InquiryInv
  <1> SUFFICES ASSUME Init PROVE InquiryInv
    OBVIOUS
  <1>1. PICK s \in Scenarios : seed(s)
    BY DEF Init
  <1>2. s \in ScenarioId
    BY InquiryAssumption
  <1>3. PICK F : F = frames
    OBVIOUS
  <1>4. FramesOK(F, InitialTime)
    BY <1>1, <1>2, <1>3, ScenarioFrames DEF seed
  <1>5. frames = F /\ clock = InitialTime /\ faults = SeededFaults(s)
    BY <1>1, <1>3 DEF seed
  <1>6. FaultsOK(faults)
    BY <1>2, <1>5, SeededFaultsOK
  <1>7. ObservationsOK(frames, clock, observations) /\ ProvenanceHolds
    BY NothingObserved DEF Init, ProvenanceHolds
  <1>8. clock \in Nat /\ clock >= InitialTime /\ changed \in Nat /\ added \in Nat
    BY <1>5 DEF Init, InitialTime
  <1>9. graph = Graph(stored, TRUE)
    BY DEF Init
  <1>10. QED
    BY <1>4, <1>5, <1>6, <1>7, <1>8, <1>9 DEF InquiryInv

LEMMA CallKeeps ==
  ASSUME InquiryInv, NEW q \in Queries, Call(q)
  PROVE  InquiryInv'
  <1>1. PICK F, now, O, S, st : F = frames /\ now = clock /\ O = observations /\ S = faults /\ st = stored
    OBVIOUS
  <1>2. PICK o : o = observe(F, S, now + 1, q.tool, q.version)
    OBVIOUS
  <1>3. /\ clock' = now + 1 /\ observations' = O \cup {o} /\ stored' = record_call(st, o)
        /\ graph' = Graph(stored', TRUE)
        /\ frames' = F /\ faults' = S /\ changed' = changed /\ added' = added
    BY <1>1, <1>2 DEF Call
  <1>4. /\ now \in Nat /\ now >= InitialTime /\ FramesOK(F, now) /\ ObservationsOK(F, now, O)
        /\ FaultsOK(S) /\ ProvenanceValid(st, O)
    BY <1>1 DEF InquiryInv, ProvenanceHolds
  <1>5. q.tool \in ToolName /\ q.version \in STRING
    BY InquiryAssumption
  <1>6. now + 1 \in Int /\ now + 1 \in Nat /\ now + 1 > InitialTime /\ now + 1 >= InitialTime
    BY <1>4 DEF InitialTime
  <1>7. Faithful(F, now + 1, o) /\ o.seen = now + 1
    <2>1. PICK s, tool, version : s = now + 1 /\ tool = q.tool /\ version = q.version
      OBVIOUS
    <2>2. o = observe(F, S, s, tool, version)
      BY <1>2, <2>1
    <2>3. s \in Int /\ s > InitialTime /\ tool \in ToolName /\ version \in STRING
      BY <1>5, <1>6, <2>1
    <2>4. Faithful(F, s, o) /\ o.seen = s
      BY <1>4, <2>2, <2>3, AnswerIsFaithful
    <2>5. QED
      BY <2>1, <2>4
  <1>8. ObservationsOK(F, now + 1, O \cup {o})
    BY <1>4, <1>7, ObservationsGrow
  <1>9. ProvenanceValid(record_call(st, o), O \cup {o})
    BY <1>4, ProvenanceKept
  <1>10. FramesOK(F, now + 1)
    <2>1. ASSUME NEW r \in 1 .. Len(F) PROVE WorldOK(F[r]) /\ F[r].at <= now + 1
      <3>1. WorldOK(F[r]) /\ F[r].at <= now
        BY <1>4 DEF FramesOK
      <3>2. F[r].at \in Int
        BY <3>1, FrameTypes DEF WorldOK
      <3>3. QED
        BY <3>1, <3>2, <1>4
    <2>2. QED
      BY <2>1, <1>4 DEF FramesOK
  <1>11. ProvenanceHolds'
    BY <1>3, <1>9 DEF ProvenanceHolds
  <1>12. FramesOK(frames, clock)' /\ ObservationsOK(frames, clock, observations)' /\ FaultsOK(faults)'
    BY <1>3, <1>4, <1>8, <1>10
  <1>13. QED
    BY <1>3, <1>6, <1>11, <1>12 DEF InquiryInv

LEMMA ProgressKeeps ==
  ASSUME InquiryInv, NEW c \in Changes, progress(c)
  PROVE  InquiryInv'
  <1>1. PICK F, now, O, w : F = frames /\ now = clock /\ O = observations /\ w = Last(F)
    OBVIOUS
  <1>2. PICK v : v = Changed(w, now + 1, c)
    OBVIOUS
  <1>3. /\ Possible(w, c) /\ frames' = Append(F, v) /\ clock' = now + 1 /\ changed' = changed + 1
        /\ faults' = faults /\ observations' = O /\ stored' = stored
        /\ graph' = graph /\ added' = added
    BY <1>1, <1>2 DEF progress
  <1>4. /\ now \in Nat /\ now >= InitialTime /\ FramesOK(F, now) /\ ObservationsOK(F, now, O)
    BY <1>1 DEF InquiryInv
  <1>5. c \in ChangeName
    BY InquiryAssumption
  <1>6. WorldOK(w) /\ w.at <= now + 1
    <2>1. w = F[Len(F)] /\ Len(F) \in 1 .. Len(F)
      BY <1>1, <1>4 DEF FramesOK, Last, Seeded
    <2>2. WorldOK(w) /\ w.at <= now
      BY <2>1, <1>4 DEF FramesOK
    <2>3. w.at \in Int
      BY <2>2, FrameTypes DEF WorldOK
    <2>4. QED
      BY <2>2, <2>3, <1>4
  <1>7. now + 1 \in Int
    BY <1>4
  <1>8. Orderly(Last(F), v, now + 1)
    BY <1>1, <1>2, <1>3, <1>5, <1>6, <1>7, ChangesAreOrderly
  <1>9. FramesOK(Append(F, v), now + 1) /\ v \in WorldState /\ v.at = now + 1
    BY <1>4, <1>8, FramesGrow
  <1>10. ObservationsOK(Append(F, v), now + 1, O)
    BY <1>4, <1>9, ObservationsStay
  <1>11. ProvenanceHolds' /\ FaultsOK(faults)'
    BY <1>1, <1>3 DEF ProvenanceHolds, InquiryInv
  <1>12. clock' \in Nat /\ clock' >= InitialTime /\ changed' \in Nat
    BY <1>3, <1>4 DEF InquiryInv, InitialTime
  <1>13. FramesOK(frames, clock)' /\ ObservationsOK(frames, clock, observations)'
    BY <1>3, <1>9, <1>10
  <1>14. QED
    BY <1>3, <1>11, <1>12, <1>13 DEF InquiryInv

LEMMA FaultKeeps ==
  ASSUME InquiryInv, NEW f \in FaultMenu, add_fault(f)
  PROVE  InquiryInv'
  <1>1. PICK x : x = [tool |-> f.tool, kind |-> f.kind, arg |-> f.arg, starts |-> clock,
                      ends |-> IF f.lasts = Never THEN Never ELSE clock + f.lasts]
    OBVIOUS
  <1>2. faults' = faults \cup {x} /\ added' = added + 1
        /\ UNCHANGED <<frames, clock, observations, stored, graph, changed>>
    BY <1>1 DEF add_fault
  <1>3. x \in ObservationFault /\ x.arg \in Nat
    <2>1. f.tool \in ToolName /\ f.kind \in FaultKind /\ f.lasts \in Nat /\ f.arg \in Nat
      BY InquiryAssumption
    <2>2. clock \in Int /\ (IF f.lasts = Never THEN Never ELSE clock + f.lasts) \in Int
      BY <2>1 DEF InquiryInv, Never
    <2>3. QED
      BY <1>1, <2>1, <2>2 DEF ObservationFault
  <1>4. FaultsOK(faults \cup {x})
    <2>1. faults \subseteq ObservationFault
      BY DEF InquiryInv, FaultsOK
    <2>2. PICK b \in Nat : \A y \in faults : y.arg <= b
      BY DEF InquiryInv, FaultsOK
    <2>3. ASSUME NEW y \in faults \cup {x} PROVE y.arg <= b + x.arg
      <3>1. y \in ObservationFault /\ y.arg \in Nat
        BY <2>1, <1>3 DEF ObservationFault
      <3>2. QED
        BY <3>1, <2>2, <1>3
    <2>4. b + x.arg \in Nat
      BY <1>3
    <2>5. QED
      BY <2>1, <2>3, <2>4, <1>3 DEF FaultsOK
  <1>5. FaultsOK(faults)'
    BY <1>2, <1>4
  <1>6. ProvenanceHolds'
    BY <1>2 DEF InquiryInv, ProvenanceHolds
  <1>7. QED
    BY <1>2, <1>5, <1>6 DEF InquiryInv

LEMMA InquiryStays == InquiryInv /\ [Next]_vars => InquiryInv'
  <1> SUFFICES ASSUME InquiryInv, [Next]_vars PROVE InquiryInv'
    OBVIOUS
  <1>1. CASE UNCHANGED vars
    BY <1>1 DEF vars, InquiryInv, ProvenanceHolds
  <1>2. ASSUME NEW q \in Queries, Call(q) PROVE InquiryInv'
    BY <1>2, CallKeeps
  <1>3. ASSUME NEW c \in Changes, progress(c) PROVE InquiryInv'
    BY <1>3, ProgressKeeps
  <1>4. ASSUME NEW f \in FaultMenu, add_fault(f) PROVE InquiryInv'
    BY <1>4, FaultKeeps
  <1>5. CASE Done
    BY <1>1, <1>5 DEF Done
  <1>6. QED
    BY <1>1, <1>2, <1>3, <1>4, <1>5 DEF Next



(***************************************************************************)
(* What the invariant says of the Case.                                    *)
(***************************************************************************)
LEMMA CaseIsKnown ==
  ASSUME InquiryInv
  PROVE  /\ Known(frames, clock, observations, stored) /\ graph = Graph(stored, TRUE)
         /\ clock \in Nat /\ changed \in Nat /\ added \in Nat /\ faults \subseteq ObservationFault
         /\ ProvenanceHolds
  BY DEF InquiryInv, Known, ProvenanceHolds, FaultsOK

LEMMA IdentityTyped ==
  ASSUME NEW base
  PROVE  verify_payment_identity(base).result \in IdentityMatch
  BY DEF verify_payment_identity, verify_witnesses, IdentityAnswer, IdentityMatch

LEMMA GraphTyped ==
  ASSUME NEW st, NEW gr, gr = Graph(st, TRUE)
  PROVE  /\ gr.identity.result \in IdentityMatch
         /\ \A h \in HypothesisId :
              /\ gr.results[h].status \in HypothesisStatus
              /\ \A e \in DOMAIN gr.results[h].relations : gr.results[h].relations[e] \in RelationKind
         /\ \A g \in gr.gaps : g.status \in GapStatus /\ g.priority \in PriorityClass
  <1>1. gr.identity.result \in IdentityMatch
    <2>1. gr.identity = verify_payment_identity(IndexBase(st))
      BY GraphParts, IndexParts
    <2>2. PICK base : base = IndexBase(st)
      OBVIOUS
    <2>3. QED
      BY <2>1, <2>2, IdentityTyped
  <1>2. ASSUME NEW h \in HypothesisId
        PROVE  /\ gr.results[h].status \in HypothesisStatus
               /\ \A e \in DOMAIN gr.results[h].relations : gr.results[h].relations[e] \in RelationKind
    BY ResultsAreSound DEF Sound
  <1>3. ASSUME NEW g \in gr.gaps PROVE g.status \in GapStatus /\ g.priority \in PriorityClass
    <2>1. PICK ix, R : ix = Index(st) /\ R = evaluate_rules(Index(st), TRUE)
      OBVIOUS
    <2>2. g \in derive_gaps(ix, R)
      BY <2>1, GraphParts
    <2>3. QED
      BY <2>2, GapsAre DEF GapsWellFormed
  <1>4. QED
    BY <1>1, <1>2, <1>3

LEMMA StoredTyped ==
  ASSUME NEW F, NEW now, NEW O, NEW st, Known(F, now, O, st), NEW e \in st
  PROVE  e.claim \in ClaimType /\ e.kind \in SubjectKind /\ e.tool \in ToolName
  <1>1. PICK o \in O : ClaimOf(o, e) /\ o.tool \in ToolName
    BY StoredFrom
  <1>2. QED
    BY <1>1, ClaimParts

LEMMA RecordsTyped == InquiryInv => TypeOK
  <1> SUFFICES ASSUME InquiryInv PROVE TypeOK
    OBVIOUS
  <1>1. /\ Known(frames, clock, observations, stored) /\ graph = Graph(stored, TRUE)
        /\ clock \in Nat /\ changed \in Nat /\ added \in Nat /\ faults \subseteq ObservationFault
    BY CaseIsKnown
  <1>2. ASSUME NEW i \in DOMAIN frames
        PROVE  /\ frames[i] \in WorldState
               /\ frames[i].at <= clock /\ validate_transaction(frames[i].fund)
    BY <1>1 DEF Known, FramesOK, WorldOK, FundOK
  <1>3. ASSUME NEW o \in observations PROVE o \in Observation /\ validate_observation(o)
    BY <1>1 DEF Known, ObservationsOK, Faithful
  <1>4. ASSUME NEW e \in stored
        PROVE  e.claim \in ClaimType /\ e.kind \in SubjectKind /\ e.tool \in ToolName
    BY <1>1, StoredTyped
  <1>5. /\ graph.identity.result \in IdentityMatch
        /\ \A h \in HypothesisId :
             /\ graph.results[h].status \in HypothesisStatus
             /\ \A e \in DOMAIN graph.results[h].relations :
                  graph.results[h].relations[e] \in RelationKind
        /\ \A g \in graph.gaps : g.status \in GapStatus /\ g.priority \in PriorityClass
    BY <1>1, GraphTyped
  <1>6. QED
    BY <1>1, <1>2, <1>3, <1>4, <1>5 DEF TypeOK

LEMMA SameMeaning ==
  ASSUME NEW h, NEW w
  PROVE  /\ Holds(h, w) = HoldsBy(stored, h, w)
         /\ Fails(h, w) = FailsBy(stored, h, w)
         /\ RightPayment(w) = RightBy(stored, w)
  <1>1. RightPayment(w) = RightBy(stored, w)
    BY DEF RightPayment, RightBy, Anchored, AnchoredBy
  <1>2. QED
    BY <1>1 DEF Holds, HoldsBy, Fails, FailsBy

LEMMA ConfirmedOnceTrue == InquiryInv => ConfirmedWasTrue
  <1> SUFFICES ASSUME InquiryInv, NEW h \in Confirmed(graph)
               PROVE  \E w \in Visible : Holds(h, w)
    BY DEF ConfirmedWasTrue
  <1>1. h \in Confirmed(Graph(stored, TRUE)) /\ Known(frames, clock, observations, stored)
    BY CaseIsKnown
  <1>2. PICK o \in observations : HoldsBy(stored, h, Current(frames, o.seen))
    BY <1>1, ConfirmedOnce
  <1>3. PICK w : w = Current(frames, o.seen)
    OBVIOUS
  <1>4. w \in Visible
    BY <1>3 DEF Visible
  <1>5. Holds(h, w)
    BY <1>2, <1>3, SameMeaning
  <1>6. QED
    BY <1>4, <1>5

LEMMA EliminatedOnceFalse == InquiryInv => EliminatedWasFalse
  <1> SUFFICES ASSUME InquiryInv, NEW h \in Eliminated(graph)
               PROVE  \E w \in Visible : Fails(h, w)
    BY DEF EliminatedWasFalse
  <1>1. h \in Eliminated(Graph(stored, TRUE)) /\ Known(frames, clock, observations, stored)
    BY CaseIsKnown
  <1>2. PICK o \in observations : FailsBy(stored, h, Current(frames, o.seen))
    BY <1>1, EliminatedOnce
  <1>3. PICK w : w = Current(frames, o.seen)
    OBVIOUS
  <1>4. w \in Visible
    BY <1>3 DEF Visible
  <1>5. Fails(h, w)
    BY <1>2, <1>3, SameMeaning
  <1>6. QED
    BY <1>4, <1>5

LEMMA NothingFromAbsence == InquiryInv => AbsenceDecidesNothing
  <1> SUFFICES ASSUME InquiryInv, \A o \in observations : o.status # "OK" \/ o.source # "PRIMARY"
               PROVE  /\ Confirmed(graph) \cup Eliminated(graph) = {}
                      /\ \A g \in graph.gaps : g.priority = "SAFETY_CRITICAL" => g.status = "OPEN"
    BY DEF AbsenceDecidesNothing
  <1>1. graph = Graph(stored, TRUE) /\ Known(frames, clock, observations, stored)
    BY CaseIsKnown
  <1>2. ASSUME NEW e \in current(stored) PROVE FALSE
    <2>1. PICK o \in observations : Reads(frames, o, e)
      BY <1>1, NowIsRead
    <2>2. QED
      BY <2>1 DEF Reads
  <1>3. current(stored) = {}
    BY <1>2
  <1>4. QED
    BY <1>1, <1>3, NothingCurrent

LEMMA ConclusionsSound == InquiryInv => ConclusionsAreSound
  <1> SUFFICES ASSUME InquiryInv PROVE ConclusionsAreSound
    OBVIOUS
  <1>1. graph = Graph(stored, TRUE) /\ Known(frames, clock, observations, stored)
    BY CaseIsKnown
  <1>2. GraphIsValid
    BY <1>1, GraphsAreValid DEF GraphIsValid
  <1>3. ConfirmedPaymentClosesGaps
    BY <1>1, PaymentClosesGaps DEF ConfirmedPaymentClosesGaps
  <1>4. QED
    BY <1>2, <1>3, ConfirmedOnceTrue, EliminatedOnceFalse, NothingFromAbsence DEF ConclusionsAreSound

LEMMA NoFailureLeft ==
  ASSUME NEW st, messages(Index(st), "FAILED") = {}
  PROVE  Confirmed(Graph(st, TRUE)) \cap {"H6", "H6_SCHEMA_MISMATCH"} = {}
  <1> DEFINE ix == Index(st)
  <1>1. callback_pairs(ix, "FAILED") = {}
    BY PairsAre
  <1>2. Confirming(ix, "H6") = {}
    BY <1>1 DEF Confirming, Pairs
  <1>3. mismatch_groups(ix) = {}
    BY DEF mismatch_groups
  <1>4. Confirming(ix, "H6_SCHEMA_MISMATCH") = {}
    BY <1>3 DEF Confirming, schema_witness
  <1>5. QED
    BY <1>2, <1>4, ConfirmedBy

LEMMA ConsumptionNoticed == InquiryInv => ConsumptionIsNoticed
  <1> SUFFICES ASSUME InquiryInv, NEW o \in observations,
                      o.tool = "MESSAGES", o.status = "OK", o.source = "PRIMARY",
                      \A x \in observations : x.tool = "MESSAGES" => x.seen <= o.seen,
                      \A w \in o.data : w.messages # {} /\ \A m \in w.messages : m.status = "CONSUMED"
               PROVE  Confirmed(graph) \cap {"H6", "H6_SCHEMA_MISMATCH"} = {}
    BY DEF ConsumptionIsNoticed
  <1>1. graph = Graph(stored, TRUE) /\ Known(frames, clock, observations, stored)
    BY CaseIsKnown
  <1>2. NewestAnswer(observations, o)
    BY DEF NewestAnswer
  <1>3. messages(Index(stored), "FAILED") = {}
    BY <1>1, <1>2, ConsumptionDecides
  <1>4. QED
    BY <1>1, <1>3, NoFailureLeft

LEMMA WrongPaymentNoticed == InquiryInv => WrongPaymentIsNoticed
  <1> SUFFICES ASSUME InquiryInv, NEW o \in observations,
                      o.tool = "PAYMENT", o.status = "OK", o.source = "PRIMARY",
                      \A x \in observations : x.tool = "PAYMENT" => x.seen <= o.seen,
                      \A w \in o.data : w.fund.tx # {} /\ ~RightPayment(w)
               PROVE  graph.identity.result # "MATCH"
    BY DEF WrongPaymentIsNoticed
  <1>1. graph = Graph(stored, TRUE) /\ Known(frames, clock, observations, stored)
    BY CaseIsKnown
  <1>2. NewestAnswer(observations, o)
    BY DEF NewestAnswer
  <1>3. \A w \in o.data : w.fund.tx # {} /\ ~RightBy(stored, w)
    BY SameMeaning
  <1>4. verify_payment_identity(IndexBase(stored)).result # "MATCH"
    BY <1>1, <1>2, <1>3, PaymentDecides
  <1>5. graph.identity = verify_payment_identity(IndexBase(stored))
    BY <1>1, GraphParts, IndexParts
  <1>6. QED
    BY <1>4, <1>5

LEMMA NewestDecide == InquiryInv => NewestReadingDecides
  <1> SUFFICES ASSUME InquiryInv PROVE NewestReadingDecides
    OBVIOUS
  <1>1. graph = Graph(stored, TRUE) /\ Known(frames, clock, observations, stored)
    BY CaseIsKnown
  <1>2. DecisiveIsUnchallenged
    BY <1>1, UnchallengedIsDecisive DEF DecisiveIsUnchallenged
  <1>3. QED
    BY <1>2, ConsumptionNoticed, WrongPaymentNoticed DEF NewestReadingDecides

(* An inquiry is sound: in whatever order tool calls, world changes and    *)
(* visibility faults come, and however many there are, the records keep    *)
(* their types, the stored rows are what the observations say, every       *)
(* confirmed hypothesis was true and every eliminated one false of the     *)
(* world at the instant of a call, absence decides nothing, the graph      *)
(* passes the engine's own validator, and a confirmed payment leaves none  *)
(* of its safety gaps open (hypotheses/rules.py, evidence/extractor.py).   *)
(* And the last word of a tool counts: once the newest reading of the      *)
(* primary shows the callback consumed, or a settled payment that is not   *)
(* the Case's, no older reading upholds the failure or the identity; and   *)
(* what decides a hypothesis has not been followed by a failed lookup      *)
(* (EvidenceIndex.current in hypotheses/index.py).                         *)
THEOREM InquirySound == Spec => []InquiryIsSound
  <1>1. InquiryInv => InquiryIsSound
    BY RecordsTyped, ConclusionsSound, NewestDecide, CaseIsKnown DEF InquiryIsSound
  <1>2. QED
    BY <1>1, InquiryStarts, InquiryStays, PTL DEF Spec
=============================================================================

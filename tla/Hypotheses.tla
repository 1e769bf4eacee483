----------------------------- MODULE Hypotheses -----------------------------
(***************************************************************************)
(* The deterministic reading of a Case's evidence: the index with its      *)
(* notion of a current claim, the payment identity, the rules of the ten   *)
(* hypotheses, the gaps, and the graph with its validator.  An index is    *)
(* built once, by Index, and passed along; a witness is the set of the     *)
(* evidence it consists of.                                                *)
(***************************************************************************)
EXTENDS Evidence

HypothesisId == {"H1", "H2", "H3", "H4", "H5", "H6", "H6_SCHEMA_MISMATCH",
                 "H6_STALE_CONSUMER_SCHEMA", "H7", "H8"}

HypothesisStatus == {"UNKNOWN", "POSSIBLE", "SUPPORTED", "CONFIRMED", "ELIMINATED"}

RelationKind == {"SUPPORTS", "CONTRADICTS", "DECISIVE_SUPPORT",
                 "DECISIVE_CONTRADICTION", "CONTEXT_ONLY"}

IdentityMatch == {"MATCH", "MISMATCH", "UNKNOWN"}

GapStatus == {"OPEN", "SATISFIED"}

PriorityClass == {"SAFETY_CRITICAL", "DISCRIMINATING"}

MessageErrorClaims == {"MESSAGE_ERROR_CODE", "MESSAGE_ERROR_FIELD",
                       "MESSAGE_EXPECTED_FIELD_TYPE", "MESSAGE_ACTUAL_FIELD_TYPE"}

\* The claims relevant to each hypothesis, and the refined hypotheses' parent.
CATALOG ==
  LET consumption == {"CALLBACK_GATEWAY_RECEIVED", "MESSAGE_CONSUME_STATUS"}
      payment == {"PAYMENT_FINALITY", "TRANSACTION_FUND_REQUEST_ID"}
  IN  [H1 |-> {"REQUEST_SENT"},
       H2 |-> payment \cup {"FUND_BUSINESS_STATUS", "SOURCE_LOOKUP_STATUS"},
       H3 |-> payment \cup {"FUND_BUSINESS_STATUS"},
       H4 |-> payment \cup {"HTTP_RESPONSE_STATUS"},
       H5 |-> {"SOURCE_LOOKUP_STATUS", "CALLBACK_GATEWAY_RECEIVED"},
       H6 |-> consumption \cup {"CALLBACK_SIGNATURE_VERIFIED"},
       H6_SCHEMA_MISMATCH |-> consumption \cup MessageErrorClaims,
       H6_STALE_CONSUMER_SCHEMA |->
         consumption \cup MessageErrorClaims
         \cup {"CALLBACK_PROTOCOL_VERSION", "PROTOCOL_FIELD_TYPE",
               "CONSUMER_DEPLOYED_SCHEMA_VERSION", "CONSUMER_ACCEPTED_PROTOCOL_VERSION",
               "CONSUMER_LOAN_NO_FIELD_TYPE"},
       H7 |-> {"GUARANTEE_STATUS", "ASSET_DELIVERY_STATUS", "ASSET_DELIVERY_EVENT_REF",
               "ASSET_STATUS"},
       H8 |-> {"PROTOCOL_BUSINESS_SEMANTICS", "GUARANTEE_STATUS"}]

Parent(h) ==
  IF h \in {"H6_SCHEMA_MISMATCH", "H6_STALE_CONSUMER_SCHEMA"} THEN {"H6"} ELSE {}

(***************************************************************************)
(* The index.                                                              *)
(***************************************************************************)
\* There is one of them, where the code compares the size of a set with one.
Single(S) == \E x \in S : S = {x}

dimension(e) == <<e.kind, e.id, e.field, IF e.tool = "PROTOCOL" THEN e.protocol ELSE "NONE">>

business_time(e) ==
  IF e.at # NoTime THEN e.at ELSE IF e.asof # NoTime THEN e.asof ELSE e.seen

\* The candidates of the latest business time of their claim and subject;
\* disagreements at one time survive.
latest(candidates) ==
  {e \in candidates :
     \A x \in candidates : x.claim = e.claim /\ dimension(x) = dimension(e)
                           => business_time(x) <= business_time(e)}

\* The claims that count as current: fresh, complete, dated, and not
\* followed by a failed lookup of the same tool and scope.
current(evidence) ==
  LET lookups == {e \in evidence : e.claim = "SOURCE_LOOKUP_STATUS"}
  IN  latest({e \in evidence \ lookups :
                /\ e.fresh = "CURRENT" /\ e.complete = "COMPLETE" /\ e.asof # NoTime
                /\ ~\E l \in lookups : l.tool = e.tool /\ l.scope = e.scope /\ l.seen >= e.seen})

\* The one request the Case is about: that of the Trace and the guarantee
\* record, or, with neither, that of the fund record.
request_id(now) ==
  LET primary == {e \in now : e.source = "PRIMARY"}
      own == {e.request : e \in {x \in primary :
                /\ x.claim \in {"REQUEST_SENT", "HTTP_RESPONSE_STATUS", "GUARANTEE_STATUS"}
                /\ x.tool \in {"TRACE", "GUARANTEE"} /\ x.request # "NONE"}}
      fund == {e.id : e \in {x \in primary : /\ x.claim = "FUND_BUSINESS_STATUS"
                                             /\ x.tool = "FUND" /\ x.kind = "FUND_REQUEST"}}
      anchors == IF own = {} THEN fund ELSE own
  IN  IF Single(anchors) THEN CHOOSE r \in anchors : TRUE ELSE "NONE"

\* An index: all the evidence, the current claims, the Case's request.
IndexBase(evidence) ==
  LET now == current(evidence)
  IN  [all |-> evidence, now |-> now, request |-> request_id(now)]

All(ix, claim) == {e \in ix.all : e.claim = claim}

Now(ix, claim) == {e \in ix.now : e.claim = claim}

\* Conflicting current values never become decisive.
agreed(ix, claim, value) ==
  {e \in Now(ix, claim) : \A x \in Now(ix, claim) : dimension(x) = dimension(e)
                                                    => x.value = value}

facts(ix, claim, value, tools) ==
  {e \in agreed(ix, claim, value) : e.tool \in tools /\ e.source = "PRIMARY"}

RequestOf(e) == IF e.request # "NONE" THEN e.request ELSE e.id

for_request(ix, items) ==
  {e \in items : ix.request # "NONE" /\ RequestOf(e) = ix.request}

(***************************************************************************)
(* Payment identity.  The Case has a financial subject: its expected       *)
(* amount, currency and references are "EXPECTED".                         *)
(***************************************************************************)
IDENTITY_CLAIMS == {"PAYMENT_FINALITY", "PAYMENT_TRANSACTION_ID",
                    "TRANSACTION_FUND_REQUEST_ID"} \cup IdentityFields

Anchors(ix) ==
  {e \in ix.now : /\ e.claim \in {"REQUEST_SENT", "HTTP_RESPONSE_STATUS",
                                  "GUARANTEE_STATUS", "FUND_BUSINESS_STATUS"}
                  /\ e.source = "PRIMARY" /\ e.tool \in {"TRACE", "GUARANTEE", "FUND"}
                  /\ RequestOf(e) = ix.request}

Expected(ix, anchors, claim, tx) ==
  CASE claim = "PAYMENT_FINALITY" -> "SETTLED"
    [] claim = "PAYMENT_TRANSACTION_ID" -> tx
    [] claim = "TRANSACTION_FUND_REQUEST_ID" -> IF anchors # {} THEN ix.request ELSE "NONE"
    [] OTHER -> "EXPECTED"

\* The claims of one observation of one transaction, judged claim by claim;
\* one that is missing, has no expectation or disagrees with another current
\* claim is unknown, and so is a payment that is not settled.
Witness(ix, anchors, payments, items) ==
  LET tx == (CHOOSE e \in items : TRUE).id
      values(S, claim) == {e.value : e \in {x \in S : x.claim = claim /\ x.id = tx}}
      open(claim) == \/ ~Single(values(items, claim))
                     \/ ~Single(values(payments, claim))
                     \/ Expected(ix, anchors, claim, tx) = "NONE"
      differs(claim) == ~open(claim) /\ values(items, claim) # {Expected(ix, anchors, claim, tx)}
      mismatch == {c \in IDENTITY_CLAIMS \ {"PAYMENT_FINALITY"} : differs(c)}
  IN  [tx |-> tx, mismatch |-> mismatch,
       unknown |-> {c \in IDENTITY_CLAIMS : open(c) \/ differs(c)} \ mismatch,
       refs |-> items \cup anchors]

IdentityReadings(ix) ==
  {e \in ix.now : /\ e.claim \in IDENTITY_CLAIMS /\ e.tool = "PAYMENT"
                  /\ e.source = "PRIMARY" /\ e.kind = "TRANSACTION"}

\* The readings of each observation of each transaction.
TransactionGroups(payments) ==
  {{x \in payments : x.id = e.id /\ x.obs = e.obs /\ x.at = e.at} : e \in payments}

Witnesses(ix, anchors, payments) ==
  {Witness(ix, anchors, payments, g) : g \in TransactionGroups(payments)}

IdentityAnswer(witnesses, mismatch, unknown) ==
  [result |-> IF mismatch # {} THEN "MISMATCH" ELSE IF unknown # {} THEN "UNKNOWN" ELSE "MATCH",
   mismatch |-> mismatch, unknown |-> unknown, refs |-> UNION {w.refs : w \in witnesses}]

\* Mutant: one matching reading is enough.
verify_witnesses_any(witnesses) ==
  [result |-> IF \E w \in witnesses : w.mismatch = {} /\ w.unknown = {} THEN "MATCH" ELSE "UNKNOWN",
   mismatch |-> {}, unknown |-> {},
   refs |-> UNION {w.refs : w \in {x \in witnesses : x.mismatch = {} /\ x.unknown = {}}}]

\* All witnesses must match, and there must be one transaction.
verify_witnesses(witnesses) ==
  IdentityAnswer(witnesses,
    UNION {w.mismatch : w \in witnesses},
    (UNION {w.unknown : w \in witnesses})
    \cup (IF witnesses = {} THEN IDENTITY_CLAIMS ELSE {})
    \cup (IF Cardinality({w.tx : w \in witnesses}) > 1 THEN {"PAYMENT_TRANSACTION_ID"} ELSE {}))

verify_payment_identity(ix) ==
  verify_witnesses(Witnesses(ix, Anchors(ix), IdentityReadings(ix)))

Identified(base) ==
  [all |-> base.all, now |-> base.now, request |-> base.request,
   identity |-> verify_payment_identity(base)]

Index(evidence) == Identified(IndexBase(evidence))

(***************************************************************************)
(* The rules.                                                              *)
(***************************************************************************)
payment(ix, value) == for_request(ix, facts(ix, "PAYMENT_FINALITY", value, {"PAYMENT"}))
settled_witness(ix) ==
  IF ix.identity.result = "MATCH" THEN ix.identity.refs ELSE {}

gateway(ix) == facts(ix, "CALLBACK_GATEWAY_RECEIVED", "TRUE", {"CALLBACK", "CALLBACK_RAW"})

messages(ix, value) == facts(ix, "MESSAGE_CONSUME_STATUS", value, {"MESSAGES"})

\* A received callback and the later outcome of its consumption; a failure
\* that was followed by a consumption of the same callback is no failure.
callback_pairs(ix, value) ==
  {p \in gateway(ix) \X messages(ix, value) :
     /\ p[2].callback = p[1].id
     /\ p[1].at # NoTime /\ p[2].at # NoTime /\ p[1].at <= p[2].at
     /\ value = "FAILED" => ~\E m \in messages(ix, "CONSUMED") :
                               m.callback = p[1].id /\ m.at # NoTime /\ m.at >= p[2].at}

Pairs(ix, value) == UNION {{p[1], p[2]} : p \in callback_pairs(ix, value)}

\* The error of a failed message: the claims of the same observation.
mismatch_errors(ix, failed) ==
  {e \in ix.now : /\ e.claim \in MessageErrorClaims /\ e.tool = "MESSAGES"
                  /\ e.id = failed.id /\ e.obs = failed.obs
                  /\ e.at = failed.at /\ e.callback = failed.callback
                  /\ e.source = "PRIMARY"}

mismatch_value(ix, failed, claim) ==
  {e.value : e \in {x \in mismatch_errors(ix, failed) : x.claim = claim}}

mismatch_complete(ix, failed) ==
  /\ mismatch_value(ix, failed, "MESSAGE_ERROR_CODE") = {"CALLBACK_SCHEMA_MISMATCH"}
  /\ mismatch_value(ix, failed, "MESSAGE_ERROR_FIELD") = {"loanNo"}
  /\ Single(mismatch_value(ix, failed, "MESSAGE_EXPECTED_FIELD_TYPE"))
  /\ Single(mismatch_value(ix, failed, "MESSAGE_ACTUAL_FIELD_TYPE"))
  /\ mismatch_value(ix, failed, "MESSAGE_EXPECTED_FIELD_TYPE")
     # mismatch_value(ix, failed, "MESSAGE_ACTUAL_FIELD_TYPE")

\* The complete schema errors, one per failed message that has one.
mismatch_groups(ix) ==
  {[failed |-> f, items |-> {f} \cup mismatch_errors(ix, f),
    expected |-> mismatch_value(ix, f, "MESSAGE_EXPECTED_FIELD_TYPE"),
    actual |-> mismatch_value(ix, f, "MESSAGE_ACTUAL_FIELD_TYPE")]
   : f \in {x \in messages(ix, "FAILED") : mismatch_complete(ix, x)}}

\* The failed pairs behind one mismatch group.
ParentWitness(ix, group) ==
  UNION {{p[1], p[2]} : p \in {q \in callback_pairs(ix, "FAILED") :
                                 fingerprint(q[2]) = fingerprint(group.failed)}}

schema_witness(ix) ==
  UNION {ParentWitness(ix, g) \cup g.items
         : g \in {x \in mismatch_groups(ix) : ParentWitness(ix, x) # {}}}

\* The actual type is that of the callback's own protocol, the expected one
\* that of an older protocol.
stale_support(ix) ==
  LET docs == {e \in Now(ix, "PROTOCOL_FIELD_TYPE") : e.field = "loanNo"}
      chain(g) == {c \in Now(ix, "CALLBACK_PROTOCOL_VERSION") \X docs \X docs :
                     /\ c[1].id = g.failed.callback
                     /\ c[2].protocol = c[1].value /\ c[2].value \in g.actual
                     /\ c[3].protocol # c[2].protocol /\ c[3].value \in g.expected
                     /\ c[3].at # NoTime /\ c[2].at # NoTime /\ c[3].at < c[2].at}
  IN  UNION {UNION {ParentWitness(ix, g) \cup g.items \cup {c[1], c[2], c[3]} : c \in chain(g)}
             : g \in {x \in mismatch_groups(ix) : ParentWitness(ix, x) # {}}}

protocol_bindings(ix) ==
  for_request(ix, {e \in Now(ix, "GUARANTEE_STATUS") :
                     /\ e.tool = "GUARANTEE" /\ e.protocol # "NONE"
                     /\ e.request # "NONE" /\ e.source = "PRIMARY"})

semantics(ix) ==
  {e \in facts(ix, "PROTOCOL_BUSINESS_SEMANTICS", "LOAN_CREATED_PAYMENT_SEPARATE", {"PROTOCOL"})
   : e.field = "SUCCESS"}

\* The request's own protocol, when it is one and its document is one.
applicable(ix) ==
  LET bindings == protocol_bindings(ix)
      docs(b) == {e \in semantics(ix) : e.protocol = b.protocol}
      candidates(b) == {e \in Now(ix, "PROTOCOL_BUSINESS_SEMANTICS") :
                          e.tool = "PROTOCOL" /\ e.field = "SUCCESS" /\ e.protocol = b.protocol}
  IN  IF ~Single({b.protocol : b \in bindings}) THEN {}
      ELSE UNION {{b} \cup docs(b) : b \in {x \in bindings :
                    docs(x) # {} /\ Single({e.id : e \in candidates(x)})}}

\* A hypothesis is confirmed or eliminated by its decisive evidence, and by
\* neither when it has both.
decide(ix, investigating, h, support, confirm, eliminate) ==
  LET both == confirm # {} /\ eliminate # {}
      supports == IF both THEN support \cup confirm ELSE support
      contradicts == IF both THEN eliminate ELSE {}
      for == IF both THEN {} ELSE confirm
      against == IF both THEN {} ELSE eliminate
      relation(e) == IF e \in against THEN "DECISIVE_CONTRADICTION"
                     ELSE IF e \in for THEN "DECISIVE_SUPPORT"
                     ELSE IF e \in contradicts THEN "CONTRADICTS"
                     ELSE IF e \in supports THEN "SUPPORTS" ELSE "CONTEXT_ONLY"
  IN  [status |-> IF both THEN "SUPPORTED"
                  ELSE IF confirm # {} THEN "CONFIRMED"
                  ELSE IF eliminate # {} THEN "ELIMINATED"
                  ELSE IF support # {} THEN "SUPPORTED"
                  ELSE IF investigating THEN "POSSIBLE" ELSE "UNKNOWN",
       relations |-> [e \in {x \in ix.all : x.claim \in CATALOG[h]}
                            \cup support \cup confirm \cup eliminate |-> relation(e)]]

evaluate_rules(ix, investigating) ==
  LET rule(h, support, confirm, eliminate) ==
        decide(ix, investigating, h, support, confirm, eliminate)
      settled == settled_witness(ix)
      fund(value) == for_request(ix, facts(ix, "FUND_BUSINESS_STATUS", value, {"FUND"}))
      http(value) == for_request(ix, facts(ix, "HTTP_RESPONSE_STATUS", value, {"TRACE"}))
      timeout == {e \in http("TIMEOUT") : e.request = ix.request}
      absent == {e \in All(ix, "SOURCE_LOOKUP_STATUS") :
                   e.tool \in {"CALLBACK", "CALLBACK_RAW"} /\ e.value = "NOT_FOUND"}
      failed == Pairs(ix, "FAILED")
      details == UNION {g.items : g \in mismatch_groups(ix)}
      applied == facts(ix, "GUARANTEE_STATUS", "SUCCESS", {"GUARANTEE"})
      undelivered == facts(ix, "ASSET_DELIVERY_STATUS", "FAILED", {"ASSET_DELIVERY"})
      pending == facts(ix, "ASSET_STATUS", "PROCESSING", {"ASSET"})
  IN  [H1 |-> rule("H1", {}, facts(ix, "REQUEST_SENT", "FALSE", {"TRACE"}),
                   facts(ix, "REQUEST_SENT", "TRUE", {"TRACE"})),
       H2 |-> rule("H2", {}, {},
                   settled \cup UNION {fund(v) : v \in {"PROCESSING", "SUCCESS", "FAILED"}}),
       H3 |-> rule("H3", fund("FAILED"), {}, settled),
       H4 |-> rule("H4", timeout \cup payment(ix, "SETTLED"),
                   IF timeout # {} /\ settled # {} THEN timeout \cup settled ELSE {}, http("OK")),
       H5 |-> rule("H5", absent, {}, gateway(ix)),
       H6 |-> rule("H6", gateway(ix) \cup messages(ix, "FAILED"), failed,
                   IF failed = {} THEN Pairs(ix, "CONSUMED") ELSE {}),
       H6_SCHEMA_MISMATCH |->
         rule("H6_SCHEMA_MISMATCH", IF details # {} THEN details ELSE messages(ix, "FAILED"),
              schema_witness(ix), {}),
       H6_STALE_CONSUMER_SCHEMA |->
         rule("H6_STALE_CONSUMER_SCHEMA", stale_support(ix), {}, {}),
       H7 |-> rule("H7", applied \cup undelivered,
                   IF applied # {} /\ undelivered # {} /\ pending # {}
                   THEN applied \cup undelivered \cup pending ELSE {},
                   facts(ix, "ASSET_STATUS", "SUCCESS", {"ASSET"})),
       H8 |-> rule("H8", semantics(ix), applicable(ix), {})]

(***************************************************************************)
(* Gaps and the graph.                                                     *)
(***************************************************************************)
Gap(name, hypotheses, witness, priority) ==
  [name |-> name, hypotheses |-> hypotheses, priority |-> priority,
   status |-> IF witness # {} THEN "SATISFIED" ELSE "OPEN"]

\* A gap is stated once its question arises; only a witness satisfies it.
derive_gaps(ix, results) ==
  LET when(condition, gap) == IF condition THEN {gap} ELSE {}
      settled == settled_witness(ix)
      money == {"H2", "H3", "H4"}
      final == facts(ix, "PAYMENT_FINALITY", "SETTLED", {"PAYMENT"})
               \cup facts(ix, "PAYMENT_FINALITY", "NOT_EXECUTED", {"PAYMENT"})
      http == UNION {for_request(ix, facts(ix, "HTTP_RESPONSE_STATUS", v, {"TRACE"}))
                     : v \in TransportStatus}
      links == {e \in Now(ix, "HTTP_RESPONSE_STATUS") :
                  ix.request # "NONE" /\ e.request = ix.request}
      paid == for_request(ix, facts(ix, "TRANSACTION_FUND_REQUEST_ID", ix.request, {"PAYMENT"}))
              \cup payment(ix, "NOT_EXECUTED") \cup payment(ix, "PENDING")
      raised == All(ix, "HTTP_RESPONSE_STATUS") \cup All(ix, "PAYMENT_FINALITY") # {}
      consumption == Pairs(ix, "FAILED") \cup Pairs(ix, "CONSUMED")
      consumed == All(ix, "MESSAGE_CONSUME_STATUS") # {}
      looked == {e \in All(ix, "SOURCE_LOOKUP_STATUS") : e.tool \in {"CALLBACK", "CALLBACK_RAW"}}
      details == UNION {g.items : g \in mismatch_groups(ix)}
      failed == messages(ix, "FAILED") # {}
      decisive(h) == {e \in DOMAIN results[h].relations :
                        results[h].relations[e] \in {"DECISIVE_SUPPORT", "DECISIVE_CONTRADICTION"}}
  IN  {Gap("PAYMENT_IDENTITY", money, settled, "SAFETY_CRITICAL"),
       Gap("PAYMENT_FINALITY", money, final, "SAFETY_CRITICAL"),
       Gap("ASSET_CONVERGENCE", {"H7"}, decisive("H7"), "DISCRIMINATING")}
      \cup when(raised, Gap("HTTP_RESPONSE_STATUS", {"H4"}, http, "DISCRIMINATING"))
      \cup when(raised, Gap("REQUEST_ASSOCIATION", money,
                            IF links # {} /\ paid # {} THEN links \cup paid ELSE {},
                            "SAFETY_CRITICAL"))
      \cup when(results["H1"].status \notin {"CONFIRMED", "ELIMINATED"},
                Gap("TRACE_REQUEST_STATUS", {"H1"}, {}, "DISCRIMINATING"))
      \cup when(settled \cup All(ix, "CALLBACK_GATEWAY_RECEIVED") \cup looked # {},
                Gap("CALLBACK_GATEWAY_OBSERVATION", {"H5", "H6"}, gateway(ix), "DISCRIMINATING"))
      \cup when(gateway(ix) # {} \/ consumed,
                Gap("CALLBACK_CONSUMPTION", {"H6"}, consumption, "DISCRIMINATING"))
      \cup when(consumed /\ consumption = {},
                Gap("CALLBACK_EVENT_ASSOCIATION", {"H6"}, {}, "DISCRIMINATING"))
      \cup when(failed, Gap("CONSUMER_FAILURE_DETAILS",
                            {"H6_SCHEMA_MISMATCH", "H6_STALE_CONSUMER_SCHEMA"}, details,
                            "DISCRIMINATING"))
      \cup when(failed /\ details # {},
                Gap("DEPLOYED_CONSUMER_SCHEMA_VERSION", {"H6_STALE_CONSUMER_SCHEMA"}, {},
                    "DISCRIMINATING"))
      \cup when(failed /\ details # {} /\ results["H6_STALE_CONSUMER_SCHEMA"].status # "SUPPORTED",
                Gap("CALLBACK_SCHEMA_PROTOCOL", {"H6_STALE_CONSUMER_SCHEMA"}, {}, "DISCRIMINATING"))
      \cup when(\/ All(ix, "PROTOCOL_BUSINESS_SEMANTICS") # {}
                \/ agreed(ix, "FUND_BUSINESS_STATUS", "SUCCESS") # {},
                Gap("FUND_PROTOCOL_APPLICABILITY", {"H8"},
                    IF results["H8"].status = "CONFIRMED" THEN decisive("H8") ELSE {},
                    "SAFETY_CRITICAL"))

GraphOf(ix, results, gaps) ==
  [results |-> results, gaps |-> gaps, identity |-> ix.identity,
   missing |-> [h \in HypothesisId |->
                  {g.name : g \in {x \in gaps : /\ x.status = "OPEN" /\ h \in x.hypotheses
                                                /\ results[h].status \notin {"CONFIRMED", "ELIMINATED"}}}]]

Assessed(ix, results) == GraphOf(ix, results, derive_gaps(ix, results))

\* The engine on an index, and on evidence.
IndexedGraph(ix, investigating) == Assessed(ix, evaluate_rules(ix, investigating))

Graph(evidence, investigating) == IndexedGraph(Index(evidence), investigating)

Confirmed(graph) == {h \in HypothesisId : graph.results[h].status = "CONFIRMED"}

Eliminated(graph) == {h \in HypothesisId : graph.results[h].status = "ELIMINATED"}

\* The engine refuses a graph in which a child is confirmed without its
\* parent.
validate(graph) ==
  \A h \in Confirmed(graph) : Parent(h) \subseteq Confirmed(graph)
=============================================================================

------------------------------ MODULE Evidence ------------------------------
(***************************************************************************)
(* Evidence: the typed claims extracted from one observation, the store    *)
(* that keeps the first record of a fingerprint, the verified reading that *)
(* extracts everything again and keeps the latest.  Values are strings     *)
(* throughout.                                                             *)
(***************************************************************************)
EXTENDS World, TLC

\* Whether the read adapter attests the deployed consumer with each message
\* (the simulator's own projection never does).
CONSTANT Attested

ASSUME AttestedAssumption == Attested \in BOOLEAN

IdentityFields == {"amount", "currency", "customer", "beneficiary", "account"}

ClaimType ==
  {"REQUEST_SENT", "HTTP_RESPONSE_STATUS", "FUND_BUSINESS_STATUS", "LOAN_NO_PRESENT",
   "LOAN_NOTE_REFERENCE", "PAYMENT_FINALITY", "PAYMENT_TRANSACTION_ID",
   "TRANSACTION_FUND_REQUEST_ID", "CALLBACK_GATEWAY_RECEIVED",
   "CALLBACK_SIGNATURE_VERIFIED", "CALLBACK_PROTOCOL_VERSION", "MESSAGE_CONSUME_STATUS",
   "MESSAGE_DLQ", "MESSAGE_ERROR_CODE", "MESSAGE_ERROR_FIELD",
   "MESSAGE_EXPECTED_FIELD_TYPE", "MESSAGE_ACTUAL_FIELD_TYPE",
   "CONSUMER_DEPLOYED_SCHEMA_VERSION", "CONSUMER_ACCEPTED_PROTOCOL_VERSION",
   "CONSUMER_LOAN_NO_FIELD_TYPE", "ACCOUNTING_ENTRY_PRESENT", "ASSET_STATUS",
   "GUARANTEE_STATUS", "GUARANTEE_VERSION", "ASSET_DELIVERY_STATUS",
   "ASSET_DELIVERY_EVENT_REF", "PROTOCOL_FIELD_TYPE", "PROTOCOL_BUSINESS_SEMANTICS",
   "SOURCE_LOOKUP_STATUS"} \cup IdentityFields

SubjectKind == {"ORDER", "FUND_REQUEST", "TRANSACTION", "CALLBACK", "MESSAGE", "PROTOCOL"}

\* One claim.  `obs' is the observation it came from (identity and content
\* hash at once), `scope' the protocol version its query asked for.
EvidenceRecord ==
  [claim : ClaimType, value : STRING, kind : SubjectKind, id : STRING, field : STRING,
   tool : ToolName, source : SourceKind, at : Int, seen : Int, asof : Int,
   protocol : STRING, complete : Completeness, fresh : Freshness, scope : STRING,
   request : STRING, callback : STRING, obs : Seq(STRING \cup Int)]

Bool(b) == IF b THEN "TRUE" ELSE "FALSE"

ObservationId(o) == <<o.tool, o.version, o.seen, o.status, o.source>>

\* What a claim is about and linked to, unless its tool says otherwise: the
\* order, at the time of the observation.
Order(o) ==
  [kind |-> "ORDER", id |-> "ORDER", field |-> "NONE", at |-> o.at, protocol |-> "NONE",
   request |-> "NONE", callback |-> "NONE"]

emit(o, on, claim, value) ==
  [claim |-> claim, value |-> value, kind |-> on.kind, id |-> on.id, field |-> on.field,
   tool |-> o.tool, source |-> o.source, at |-> on.at, seen |-> o.seen, asof |-> o.asof,
   protocol |-> on.protocol, complete |-> o.completeness, fresh |-> o.freshness,
   scope |-> o.version, request |-> on.request, callback |-> on.callback,
   obs |-> ObservationId(o)]

OnRequest(o, f) == [Order(o) EXCEPT !.kind = "FUND_REQUEST", !.id = f.request, !.request = f.request]

FundClaims(o, f) ==
  LET on == OnRequest(o, f)
  IN  {emit(o, on, "FUND_BUSINESS_STATUS", f.status), emit(o, on, "LOAN_NO_PRESENT", Bool(f.loan))}
      \cup IF f.loan THEN {emit(o, on, "LOAN_NOTE_REFERENCE", "L1")} ELSE {}

LoanNoteClaims(o, f) ==
  {emit(o, OnRequest(o, f), "LOAN_NO_PRESENT", "TRUE"),
   emit(o, OnRequest(o, f), "LOAN_NOTE_REFERENCE", "L1")}

OnTransaction(o, f, t) ==
  [Order(o) EXCEPT !.kind = "TRANSACTION", !.id = "TX", !.request = f.request, !.at = t.at]

\* The finality is the transaction's if there is one, and so is the subject;
\* an absent identity field yields no claim.
TransactionClaims(o, on, t) ==
  {emit(o, on, "PAYMENT_FINALITY", t.finality), emit(o, on, "PAYMENT_TRANSACTION_ID", "TX"),
   emit(o, on, "TRANSACTION_FUND_REQUEST_ID", t.request)}
  \cup {emit(o, on, d, t[d]) : d \in {x \in IdentityFields : t[x] # "NONE"}}

PaymentClaims(o, f) ==
  IF f.tx = {}
  THEN {emit(o, [OnRequest(o, f) EXCEPT !.at = f.at], "PAYMENT_FINALITY", f.finality)}
  ELSE UNION {TransactionClaims(o, OnTransaction(o, f, t), t) : t \in f.tx}

CallbackClaims(o, g) ==
  LET on == [Order(o) EXCEPT !.kind = "CALLBACK", !.id = g.event, !.protocol = g.protocol]
  IN  {emit(o, on, "CALLBACK_GATEWAY_RECEIVED", "TRUE"),
       emit(o, on, "CALLBACK_SIGNATURE_VERIFIED", Bool(g.signed)),
       emit(o, on, "CALLBACK_PROTOCOL_VERSION", g.protocol)}

ErrorClaims(o, on, x) ==
  {emit(o, on, "MESSAGE_ERROR_CODE", x.code), emit(o, on, "MESSAGE_ERROR_FIELD", x.field),
   emit(o, on, "MESSAGE_EXPECTED_FIELD_TYPE", x.expected),
   emit(o, on, "MESSAGE_ACTUAL_FIELD_TYPE", x.actual)}

OnMessage(o, m, at) ==
  [Order(o) EXCEPT !.kind = "MESSAGE", !.id = m.message, !.callback = m.event, !.at = at]

DeployedClaims(o, on) ==
  {emit(o, on, "CONSUMER_DEPLOYED_SCHEMA_VERSION", "2.3"),
   emit(o, on, "CONSUMER_ACCEPTED_PROTOCOL_VERSION", "2.3"),
   emit(o, on, "CONSUMER_LOAN_NO_FIELD_TYPE", "string")}

\* The attestation carries the time of the query, not that of the message.
MessageClaims(o, m) ==
  LET on == OnMessage(o, m, m.at)
  IN  {emit(o, on, "MESSAGE_CONSUME_STATUS", m.status)}
      \cup (IF m.dlq THEN {emit(o, on, "MESSAGE_DLQ", "DLQ")} ELSE {})
      \cup (UNION {ErrorClaims(o, on, x) : x \in m.error})
      \cup (IF Attested THEN DeployedClaims(o, OnMessage(o, m, o.seen)) ELSE {})

ProtocolClaims(o, p) ==
  LET on(f) == [Order(o) EXCEPT !.kind = "PROTOCOL", !.id = p.version, !.protocol = p.version,
                                !.field = f]
  IN  {emit(o, on("loanNo"), "PROTOCOL_FIELD_TYPE", p.loanNo)}
      \cup {emit(o, on(s), "PROTOCOL_BUSINESS_SEMANTICS", BusinessMeaning[s])
            : s \in DOMAIN BusinessMeaning}

TraceClaims(o, t) ==
  LET on == [Order(o) EXCEPT !.request = t.request]
  IN  {emit(o, on, "REQUEST_SENT", Bool(t.sent)), emit(o, on, "HTTP_RESPONSE_STATUS", t.http)}

GuaranteeClaims(o, g) ==
  LET on == [Order(o) EXCEPT !.request = g.request, !.protocol = g.protocol]
  IN  {emit(o, on, "GUARANTEE_STATUS", g.status),
       emit(o, on, "GUARANTEE_VERSION", ToString(g.version))}

DeliveryClaims(o, d) ==
  {emit(o, Order(o), "ASSET_DELIVERY_STATUS", d.status)}
  \cup {emit(o, Order(o), "ASSET_DELIVERY_EVENT_REF", r) : r \in {d.ref} \ {"NONE"}}

Claims(o, r) ==
  CASE o.tool = "FUND" -> FundClaims(o, r)
    [] o.tool = "LOAN_NOTE" -> LoanNoteClaims(o, r)
    [] o.tool = "PAYMENT" -> PaymentClaims(o, r)
    [] o.tool \in {"CALLBACK", "CALLBACK_RAW"} -> CallbackClaims(o, r)
    [] o.tool = "MESSAGES" -> MessageClaims(o, r)
    [] o.tool = "PROTOCOL" -> ProtocolClaims(o, r)
    [] o.tool = "TRACE" -> TraceClaims(o, r)
    [] o.tool = "GUARANTEE" -> GuaranteeClaims(o, r)
    [] o.tool = "ASSET" -> {emit(o, Order(o), "ASSET_STATUS", r.status)}
    [] o.tool = "ACCOUNTING" -> {emit(o, Order(o), "ACCOUNTING_ENTRY_PRESENT", Bool(r.entry))}
    [] o.tool = "ASSET_DELIVERY" -> DeliveryClaims(o, r)

\* A failed lookup yields the single claim that it failed.
extract(o) ==
  IF o.status # "OK" THEN {emit(o, Order(o), "SOURCE_LOOKUP_STATUS", o.status)}
  ELSE UNION {UNION {Claims(o, r) : r \in project(w, o.tool, o.version)} : w \in o.data}

\* Two extractions of one fact share a fingerprint: the observation and its
\* time are no part of it, unless the claim has no event time of its own.
fingerprint(e) ==
  [e EXCEPT !.obs = <<>>, !.seen = IF e.at = NoTime THEN e.seen ELSE NoTime]

\* The claim is part of the fingerprint, and compared first.
same_fact(a, b) == a.claim = b.claim /\ a.tool = b.tool /\ fingerprint(a) = fingerprint(b)

\* record_call inserts only the fingerprints it does not know yet, so the
\* stored record of a fact is its first extraction.
record_call(stored, o) ==
  stored \cup {e \in extract(o) : \A s \in stored : ~same_fact(s, e)}

\* The verified reading extracts every observation again and keeps the
\* latest extraction of each fingerprint.
read_verified_evidence(observations) ==
  LET all == UNION {extract(o) : o \in observations}
  IN  {e \in all : \A x \in all : same_fact(x, e) => x.seen <= e.seen}

\* Every fingerprint extracted is stored, and what is stored is one of the
\* extractions: what the verified reading demands of the store.
ProvenanceValid(stored, observations) ==
  LET all == UNION {extract(o) : o \in observations}
  IN  stored \subseteq all /\ {fingerprint(e) : e \in stored} = {fingerprint(e) : e \in all}
=============================================================================

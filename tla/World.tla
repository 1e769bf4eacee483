------------------------------- MODULE World -------------------------------
(***************************************************************************)
(* The simulated credit world and the service that observes it: the        *)
(* records of the three parties, the scenarios S1 to S8 as histories of    *)
(* world frames, the allowlist projection of one tool, and the observation *)
(* of a tool under the visibility faults that are active.  Everything here *)
(* is an operator on values; the histories and the clock are the state of  *)
(* Inquiry.  Times are seconds since T0.  An optional record is a set of   *)
(* at most one record.  Of an identity field only its agreement with the   *)
(* Case matters: it is "EXPECTED", "OTHER" or, if absent, "NONE".          *)
(***************************************************************************)
EXTENDS Integers, FiniteSets, FiniteSetsExt, Sequences, SequencesExt

NoTime == -999

Never == 9999

LoanStatus == {"PROCESSING", "SUCCESS", "FAILED"}

FundBusinessStatus == {"NOT_RECEIVED", "PROCESSING", "SUCCESS", "FAILED"}

PaymentFinality == {"UNKNOWN", "NOT_EXECUTED", "PENDING", "SETTLED"}

ConsumeStatus == {"PENDING", "CONSUMED", "FAILED"}

DeliveryStatus == {"NOT_ATTEMPTED", "DELIVERED", "FAILED"}

TransportStatus == {"NOT_ATTEMPTED", "OK", "TIMEOUT"}

FieldType == {"integer", "string"}

ToolName == {"ASSET", "GUARANTEE", "FUND", "PAYMENT", "LOAN_NOTE", "CALLBACK",
             "CALLBACK_RAW", "MESSAGES", "ACCOUNTING", "TRACE",
             "ASSET_DELIVERY", "PROTOCOL"}

Completeness == {"COMPLETE", "PARTIAL", "UNKNOWN"}

Freshness == {"CURRENT", "STALE", "UNKNOWN"}

SourceKind == {"PRIMARY", "REPLICA", "CACHE", "INDEX"}

FaultKind == {"TIMEOUT", "DATA_DELAY", "REPLICA_LAG", "INDEX_MISSING", "OLD_CACHE"}

ScenarioId == {"S1", "S2", "S3", "S4", "S5", "S6", "S7", "S8"}

ReferenceValue == {"EXPECTED", "OTHER", "NONE"}

Requests == {"FREQ", "FREQ_OTHER"}

\* The identifiers that occur in the scenarios.
EventId == {"CB"}
MessageId == {"MSG"}
DeliveryRef == {"DELIVERY", "NONE"}
ProtocolVersion == {"2.2", "2.3"}

(***************************************************************************)
(* The parties' records.                                                   *)
(***************************************************************************)
AssetSystem == [at : Int, status : LoanStatus]

GuaranteeCore == [at : Int, status : LoanStatus, request : Requests, version : Nat,
                  protocol : ProtocolVersion]

DisbursementTransaction ==
  [at : Int, request : Requests, finality : PaymentFinality,
   amount : ReferenceValue, currency : ReferenceValue, customer : ReferenceValue,
   beneficiary : ReferenceValue, account : ReferenceValue]

FundSystem == [at : Int, request : Requests, status : FundBusinessStatus,
               accepted : BOOLEAN, loan : BOOLEAN, finality : PaymentFinality,
               tx : SUBSET DisbursementTransaction]

CallbackGateway == [at : Int, event : EventId, signed : BOOLEAN, protocol : ProtocolVersion]

MessageError == [code : {"CALLBACK_SCHEMA_MISMATCH"}, field : {"loanNo"},
                 expected : FieldType, actual : FieldType]

MessageSystem == [at : Int, message : MessageId, event : EventId, status : ConsumeStatus,
                  dlq : BOOLEAN, error : SUBSET MessageError]

AccountingSystem == [at : Int, entry : BOOLEAN]

RequestTrace == [at : Int, request : Requests, sent : BOOLEAN, http : TransportStatus]

AssetDelivery == [at : Int, ref : DeliveryRef, status : DeliveryStatus]

WorldState ==
  [at : Int, asset : AssetSystem, guarantee : GuaranteeCore, fund : FundSystem,
   gateway : SUBSET CallbackGateway, messages : SUBSET MessageSystem,
   accounting : AccountingSystem, trace : RequestTrace, delivery : AssetDelivery]

\* A transaction agrees with the fund record that carries it, and a settled
\* fund record carries one.
validate_transaction(f) ==
  /\ \A t \in f.tx : t.request = f.request /\ t.finality = f.finality
  /\ f.finality = "SETTLED" => f.tx # {}

\* The two protocol documents of the partner; SUCCESS means, in both, that
\* a loan was created and that the payment is a separate fact.
protocols == {[version |-> "2.2", at |-> -90, loanNo |-> "integer"],
              [version |-> "2.3", at |-> -1, loanNo |-> "string"]}

BusinessMeaning == [SUCCESS |-> "LOAN_CREATED_PAYMENT_SEPARATE",
                    PROCESSING |-> "REQUEST_PROCESSING",
                    FAILED |-> "REJECTED_NO_DISBURSEMENT"]

(***************************************************************************)
(* Scenario construction.                                                  *)
(***************************************************************************)
InitialTime == 10

BaseWorld ==
  [at |-> 0,
   asset |-> [at |-> 0, status |-> "PROCESSING"],
   guarantee |-> [at |-> 0, status |-> "PROCESSING", request |-> "FREQ",
                  version |-> 17, protocol |-> "2.3"],
   fund |-> [at |-> 0, request |-> "FREQ", status |-> "NOT_RECEIVED",
             accepted |-> FALSE, loan |-> FALSE, finality |-> "NOT_EXECUTED", tx |-> {}],
   gateway |-> {}, messages |-> {},
   accounting |-> [at |-> 0, entry |-> FALSE],
   trace |-> [at |-> 0, request |-> "FREQ", sent |-> FALSE, http |-> "NOT_ATTEMPTED"],
   delivery |-> [at |-> 0, ref |-> "NONE", status |-> "NOT_ATTEMPTED"]]

\* The consumer parses loanNo of a v2.3 callback; the legacy one expects an
\* integer, and its validation error becomes the dead letter's error.
Consume(legacy) ==
  [at |-> 4, message |-> "MSG", event |-> "CB",
   status |-> IF legacy THEN "FAILED" ELSE "CONSUMED",
   dlq |-> legacy,
   error |-> IF legacy THEN {[code |-> "CALLBACK_SCHEMA_MISMATCH", field |-> "loanNo",
                              expected |-> "integer", actual |-> "string"]} ELSE {}]

Sent(s) == s # "S1"
Accepted(s) == s \notin {"S1", "S2"}
Settled(s) == s \in {"S4", "S5", "S6", "S7"}
Received(s) == s \in {"S4", "S6", "S7"}
Consumed(s) == s \in {"S4", "S7"}

Finality(s) == IF Settled(s) THEN "SETTLED"
               ELSE IF s = "S8" THEN "PENDING" ELSE "NOT_EXECUTED"

\* What the funding party holds at second 2.
ScenarioFund(s) ==
  [at |-> 2, request |-> "FREQ", accepted |-> Accepted(s), loan |-> Settled(s),
   status |-> IF Settled(s) THEN "SUCCESS" ELSE IF s = "S3" THEN "FAILED"
              ELSE IF s = "S8" THEN "PROCESSING" ELSE "NOT_RECEIVED",
   finality |-> Finality(s),
   tx |-> IF ~Settled(s) THEN {}
          ELSE {[at |-> 2, request |-> "FREQ", finality |-> "SETTLED",
                 amount |-> "EXPECTED", currency |-> "EXPECTED", customer |-> "EXPECTED",
                 beneficiary |-> "EXPECTED", account |-> "EXPECTED"]}]

\* The world at the end of scenario s.
FinalWorld(s) ==
  [at |-> 6,
   asset |-> [at |-> 6, status |-> IF s = "S4" THEN "SUCCESS"
                                   ELSE IF s = "S3" THEN "FAILED" ELSE "PROCESSING"],
   guarantee |-> [BaseWorld.guarantee EXCEPT
                    !.at = 5,
                    !.status = IF Consumed(s) THEN "SUCCESS"
                               ELSE IF s = "S3" THEN "FAILED" ELSE "PROCESSING",
                    !.version = IF Consumed(s) \/ s = "S3" THEN 18 ELSE 17],
   fund |-> ScenarioFund(s),
   gateway |-> IF Received(s)
               THEN {[at |-> 3, event |-> "CB", signed |-> TRUE, protocol |-> "2.3"]}
               ELSE {},
   messages |-> IF Received(s) THEN {Consume(s = "S6")} ELSE {},
   accounting |-> [at |-> 5, entry |-> Consumed(s)],
   trace |-> [at |-> 3, request |-> "FREQ", sent |-> Sent(s),
              http |-> IF ~Sent(s) THEN "NOT_ATTEMPTED"
                       ELSE IF s = "S3" THEN "OK" ELSE "TIMEOUT"],
   delivery |-> [at |-> 6, ref |-> IF Consumed(s) THEN "DELIVERY" ELSE "NONE",
                 status |-> IF s = "S4" THEN "DELIVERED"
                            ELSE IF s = "S7" THEN "FAILED" ELSE "NOT_ATTEMPTED"]]

\* The frame at second t: every component whose event happened by then.
Frame(s, t) ==
  LET final == FinalWorld(s)
      by(last, base) == IF last.at <= t THEN last ELSE base
  IN  [at |-> t,
       asset |-> by(final.asset, BaseWorld.asset),
       guarantee |-> by(final.guarantee, BaseWorld.guarantee),
       fund |-> by(final.fund, BaseWorld.fund),
       gateway |-> {g \in final.gateway : g.at <= t},
       messages |-> {m \in final.messages : m.at <= t},
       accounting |-> by(final.accounting, BaseWorld.accounting),
       trace |-> by(final.trace, BaseWorld.trace),
       delivery |-> by(final.delivery, BaseWorld.delivery)]

build_scenario(s) ==
  <<BaseWorld>> \o [i \in 1 .. 5 |-> Frame(s, i + 1)]

\* The visibility faults a scenario is seeded with.
SeededFaults(s) ==
  CASE s = "S4" -> {[tool |-> "GUARANTEE", kind |-> "REPLICA_LAG", starts |-> 0, ends |-> Never, arg |-> 8]}
    [] s = "S8" -> {[tool |-> "FUND", kind |-> "OLD_CACHE", starts |-> 0, ends |-> Never, arg |-> 0],
                    [tool |-> "PAYMENT", kind |-> "TIMEOUT", starts |-> 0, ends |-> Never, arg |-> 0]}
    [] OTHER -> {}

(***************************************************************************)
(* Observation.                                                            *)
(***************************************************************************)
\* A fault's argument is the lag of a replica or the revision of a cache.
ObservationFault ==
  [tool : ToolName, kind : FaultKind, starts : Int, ends : Int, arg : Nat]

active(fault, now) == fault.starts <= now /\ now < fault.ends

\* The revisions a query at `now' may see, and the frame of the latest one.
snapshots(frames, now) == {r \in DOMAIN frames : frames[r].at <= now}

Current(frames, now) == frames[Max(snapshots(frames, now))]

\* The protocol document of a query: that of the version asked for, or else
\* the latest one effective when the guarantee record was written.
Document(w, version) ==
  LET fits == {p \in protocols : /\ p.at <= w.guarantee.at
                                 /\ version = "NONE" \/ p.version = version}
  IN  {p \in fits : \A q \in fits : q.at <= p.at}

\* The records of frame w that `tool' discloses: none at all if the fund
\* record is NOT_RECEIVED, which is never disclosed itself.
project(w, tool, version) ==
  LET known == IF w.fund.status = "NOT_RECEIVED" THEN {} ELSE {w.fund}
  IN  CASE tool = "ASSET" -> {w.asset}
        [] tool = "GUARANTEE" -> {w.guarantee}
        [] tool \in {"FUND", "PAYMENT"} -> known
        [] tool = "LOAN_NOTE" -> {f \in known : f.loan}
        [] tool \in {"CALLBACK", "CALLBACK_RAW"} -> w.gateway
        [] tool = "MESSAGES" -> w.messages
        [] tool = "ACCOUNTING" -> {w.accounting}
        [] tool = "TRACE" -> {w.trace}
        [] tool = "ASSET_DELIVERY" -> {w.delivery}
        [] tool = "PROTOCOL" -> Document(w, version)

\* A message list or a missing accounting entry is an answer even when it
\* is empty; for the others no record is NOT_FOUND.
Answers(tool, records) == records # {} \/ tool = "MESSAGES"

\* The instant of the projected facts.
EventTime(tool, records) ==
  IF \/ records = {}
     \/ tool = "ACCOUNTING" /\ \A a \in records : ~a.entry
  THEN NoTime
  ELSE Max({r.at : r \in records})

Observation ==
  [tool : ToolName, version : STRING, status : {"OK", "TIMEOUT", "NOT_FOUND"},
   at : Int, seen : Int, asof : Int, source : SourceKind,
   completeness : Completeness, freshness : Freshness, data : SUBSET WorldState]

\* Failed lookups carry no facts, and nothing observed is in the future.
validate_observation(o) ==
  /\ o.status # "OK" => o.data = {}
  /\ o.at <= o.seen /\ o.asof <= o.seen

\* One query of one tool.  A timeout hides everything; a delay or a missing
\* index finds nothing; a cache or a replica answers from an older revision,
\* the cache taking precedence and the oldest eligible view winning.
observe(frames, faults, now, tool, version) ==
  LET on == {f \in faults : f.tool = tool /\ active(f, now)}
      kinds == {f.kind : f \in on}
      args(k) == {f.arg : f \in {g \in on : g.kind = k}}
      history == snapshots(frames, now)
      lagged == now - Max(args("REPLICA_LAG"))
      eligible == CASE "OLD_CACHE" \in kinds -> {r \in history : r <= Min(args("OLD_CACHE")) + 1}
                    [] "OLD_CACHE" \notin kinds /\ "REPLICA_LAG" \in kinds ->
                         {r \in history : frames[r].at <= lagged}
                    [] OTHER -> history
      stale == kinds \cap {"OLD_CACHE", "REPLICA_LAG"} # {}
      selected == {frames[r] : r \in {x \in eligible : \A y \in eligible : y <= x}}
      records == UNION {project(w, tool, version) : w \in selected}
      found == selected # {} /\ Answers(tool, records)
      answer(status, source, complete, fresh, at, asof, data) ==
        [tool |-> tool, version |-> version, status |-> status, at |-> at, seen |-> now,
         asof |-> asof, source |-> source, completeness |-> complete, freshness |-> fresh,
         data |-> data]
  IN  CASE "TIMEOUT" \in kinds ->
             answer("TIMEOUT", "PRIMARY", "UNKNOWN", "UNKNOWN", NoTime, NoTime, {})
        [] "TIMEOUT" \notin kinds /\ kinds \cap {"DATA_DELAY", "INDEX_MISSING"} # {} ->
             answer("NOT_FOUND", "INDEX", "PARTIAL", "UNKNOWN", NoTime, NoTime, {})
        [] OTHER ->
             answer(IF found THEN "OK" ELSE "NOT_FOUND",
                    IF "OLD_CACHE" \in kinds THEN "CACHE" ELSE IF stale THEN "REPLICA" ELSE "PRIMARY",
                    IF stale THEN "PARTIAL" ELSE IF found THEN "COMPLETE" ELSE "UNKNOWN",
                    IF stale THEN "STALE" ELSE "CURRENT",
                    IF found THEN EventTime(tool, records) ELSE NoTime,
                    CASE "OLD_CACHE" \in kinds -> frames[Max(eligible)].at
                      [] "OLD_CACHE" \notin kinds /\ stale -> lagged
                      [] OTHER -> now,
                    IF found THEN selected ELSE {})
=============================================================================

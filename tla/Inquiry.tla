------------------------------ MODULE Inquiry ------------------------------
(***************************************************************************)
(* An investigation of a moving world: the simulator's clock, frames and   *)
(* visibility faults on one side, the Case's observations and evidence on  *)
(* the other.  Tools are called in any order, faults come and go with      *)
(* their windows, and the world changes between two calls the way the      *)
(* benchmark's fixtures change it.  The properties say what the hypothesis *)
(* graph may conclude from such a patchwork of readings.                   *)
(***************************************************************************)
EXTENDS Hypotheses

CONSTANTS
  Scenarios,    \* the scenarios a simulation is seeded with
  Queries,      \* the tool calls the Case may make: records of tool and version
  FaultMenu,    \* the faults an administrator may add, without their start
  Changes,      \* the world changes that may happen
  MaxCalls,     \* the Case's budget of tool calls
  MaxChanges,   \* bound on world changes
  MaxFaults     \* bound on faults added

TransactionFields == IdentityFields \cup {"missing_account", "request"}

ChangeName == TransactionFields \cup {"converge", "no_disbursement", "already_consumed",
                                     "signature_invalid", "asset_failed", "delivery_missing"}

ASSUME InquiryAssumption ==
  /\ Scenarios \subseteq ScenarioId
  /\ Queries \subseteq [tool : ToolName, version : STRING]
  /\ FaultMenu \subseteq [tool : ToolName, kind : FaultKind, lasts : Nat, arg : Nat]
  /\ Changes \subseteq ChangeName
  /\ MaxCalls \in Nat /\ MaxChanges \in Nat /\ MaxFaults \in Nat

VARIABLES
  frames,        \* the world's history
  clock,         \* the simulation's clock
  faults,        \* its fault policies
  observations,  \* the observations recorded for the Case
  stored,        \* its evidence rows
  graph,         \* the hypothesis graph, rebuilt from the evidence by every call
  changed,       \* number of world changes
  added          \* number of faults added

vars == <<frames, clock, faults, observations, stored, graph, changed, added>>

TypeOK ==
  /\ clock \in Nat /\ changed \in Nat /\ added \in Nat
  /\ \A i \in DOMAIN frames : /\ frames[i] \in WorldState
                              /\ frames[i].at <= clock /\ validate_transaction(frames[i].fund)
  /\ faults \subseteq ObservationFault
  /\ observations \subseteq Observation /\ \A o \in observations : validate_observation(o)
  /\ \A e \in stored : e.claim \in ClaimType /\ e.kind \in SubjectKind /\ e.tool \in ToolName
  /\ graph.identity.result \in IdentityMatch
  /\ \A h \in HypothesisId :
       /\ graph.results[h].status \in HypothesisStatus
       /\ \A e \in DOMAIN graph.results[h].relations : graph.results[h].relations[e] \in RelationKind
  /\ \A g \in graph.gaps : g.status \in GapStatus /\ g.priority \in PriorityClass

seed(s) ==
  /\ frames = build_scenario(s)
  /\ faults = SeededFaults(s)
  /\ clock = InitialTime

Init ==
  /\ \E s \in Scenarios : seed(s)
  /\ observations = {} /\ stored = {} /\ graph = Graph({}, TRUE)
  /\ changed = 0 /\ added = 0

(***************************************************************************)
(* The Case.                                                               *)
(***************************************************************************)
\* One tool call: the clock moves a second, the service answers, and the
\* answer's claims are stored with the call.
Call(q) ==
  LET o == observe(frames, faults, clock + 1, q.tool, q.version)
  IN  /\ Cardinality(observations) < MaxCalls
      /\ clock' = clock + 1
      /\ observations' = observations \cup {o}
      /\ stored' = record_call(stored, o)
      /\ graph' = Graph(stored', TRUE)
      /\ UNCHANGED <<frames, faults, changed, added>>

(***************************************************************************)
(* The world.                                                              *)
(***************************************************************************)
ConvergedMessage(m, now) == [m EXCEPT !.status = "CONSUMED", !.error = {}, !.dlq = FALSE, !.at = now]

Concluded(g, status, now) == [g EXCEPT !.status = status, !.at = now, !.version = @ + 1]

\* Every party converges on the outcome of the payment.
converge(w, now) ==
  [w EXCEPT !.guarantee = Concluded(@, "SUCCESS", now),
            !.asset = [at |-> now, status |-> "SUCCESS"],
            !.accounting = [at |-> now, entry |-> TRUE],
            !.messages = {ConvergedMessage(m, now) : m \in @},
            !.delivery = [at |-> now, ref |-> "DELIVERY", status |-> "DELIVERED"]]

no_disbursement(w, now) ==
  [w EXCEPT !.guarantee = Concluded(@, "FAILED", now),
            !.asset = [at |-> now, status |-> "FAILED"],
            !.accounting = [at |-> now, entry |-> FALSE],
            !.fund = [@ EXCEPT !.status = "FAILED", !.finality = "NOT_EXECUTED", !.tx = {},
                               !.loan = FALSE, !.at = now]]

\* A correction of the transaction keeps the transaction's own time.
UpdatedTransaction(t, field) ==
  IF field = "request" THEN [t EXCEPT !.request = "FREQ_OTHER"]
  ELSE IF field = "missing_account" THEN [t EXCEPT !.account = "NONE"]
  ELSE [t EXCEPT ![field] = "OTHER"]

transaction_update(f, now, field) ==
  [f EXCEPT !.tx = {UpdatedTransaction(t, field) : t \in @}, !.at = now,
            !.request = IF field = "request" THEN "FREQ_OTHER" ELSE @]

\* The world after change c, and whether c can happen in w.  The changes of
\* the last four lines keep the record's time.
Changed(w, now, c) ==
  LET next == CASE c = "converge" -> converge(w, now)
                [] c = "no_disbursement" -> no_disbursement(w, now)
                [] c \in TransactionFields -> [w EXCEPT !.fund = transaction_update(@, now, c)]
                [] c = "already_consumed" ->
                     [w EXCEPT !.messages = {ConvergedMessage(m, m.at) : m \in @}]
                [] c = "signature_invalid" ->
                     [w EXCEPT !.gateway = {[g EXCEPT !.signed = FALSE] : g \in @}]
                [] c = "asset_failed" -> [w EXCEPT !.asset.status = "FAILED"]
                [] c = "delivery_missing" ->
                     [w EXCEPT !.delivery = [@ EXCEPT !.ref = "NONE", !.status = "NOT_ATTEMPTED"]]
  IN  [next EXCEPT !.at = now]

\* The benchmark lets the parties converge on a payment that has settled, and
\* calls a disbursement off where the fund has accepted its request; the other
\* fixtures change a record that must be there.
Possible(w, c) ==
  /\ c \in TransactionFields => w.fund.tx # {}
  /\ c = "no_disbursement" => w.fund.accepted
  /\ c = "converge" => w.fund.finality = "SETTLED"
  /\ c = "signature_invalid" => w.gateway # {}

progress(c) ==
  /\ changed < MaxChanges
  /\ Possible(Last(frames), c)
  /\ frames' = Append(frames, Changed(Last(frames), clock + 1, c))
  /\ clock' = clock + 1
  /\ changed' = changed + 1
  /\ UNCHANGED <<faults, observations, stored, graph, added>>

add_fault(f) ==
  /\ added < MaxFaults
  /\ faults' = faults \cup {[tool |-> f.tool, kind |-> f.kind, arg |-> f.arg, starts |-> clock,
                             ends |-> IF f.lasts = Never THEN Never ELSE clock + f.lasts]}
  /\ added' = added + 1
  /\ UNCHANGED <<frames, clock, observations, stored, graph, changed>>

Done ==
  /\ Cardinality(observations) = MaxCalls
  /\ UNCHANGED vars

Next ==
  \/ \E q \in Queries : Call(q)
  \/ \E c \in Changes : progress(c)
  \/ \E f \in FaultMenu : add_fault(f)
  \/ Done

Spec == Init /\ [][Next]_vars

(***************************************************************************)
(* Properties.                                                             *)
(***************************************************************************)
\* The frames that were current when a call was made.
Visible == {Current(frames, o.seen) : o \in observations}

\* The Case's own request is known from the Trace or the guarantee record;
\* without either, the engine takes the fund record's word for it.
Anchored == \E e \in current(stored) : e.tool \in {"TRACE", "GUARANTEE"} /\ e.source = "PRIMARY"

\* The transaction of frame w is the one the Case expects.
RightPayment(w) ==
  /\ w.fund.finality = "SETTLED"
  /\ \E t \in w.fund.tx : /\ \A d \in IdentityFields : t[d] = "EXPECTED"
                          /\ Anchored => t.request = w.guarantee.request

\* The facts of the world that make hypothesis h true, or make it false.
Holds(h, w) ==
  CASE h = "H1" -> ~w.trace.sent
    [] h = "H4" -> w.trace.http = "TIMEOUT" /\ RightPayment(w)
    [] h = "H6" -> \E g \in w.gateway, m \in w.messages : m.event = g.event /\ m.status = "FAILED"
    [] h = "H6_SCHEMA_MISMATCH" ->
         \E m \in w.messages : m.status = "FAILED" /\ \E e \in m.error : e.expected # e.actual
    [] h = "H7" -> /\ w.guarantee.status = "SUCCESS" /\ w.delivery.status = "FAILED"
                   /\ w.asset.status = "PROCESSING"
    [] OTHER -> TRUE

Fails(h, w) ==
  CASE h = "H1" -> w.trace.sent
    [] h = "H2" -> w.fund.accepted
    [] h = "H3" -> RightPayment(w)
    [] h = "H4" -> w.trace.http = "OK"
    [] h = "H5" -> w.gateway # {}
    [] h = "H6" -> \E m \in w.messages : m.status = "CONSUMED"
    [] h = "H7" -> w.asset.status = "SUCCESS"
    [] OTHER -> FALSE

\* A confirmed hypothesis was true of the world at the instant of one
\* of the calls, however the readings behind it were interleaved with
\* changes, timeouts, caches and lagging replicas (hypotheses/rules.py).
ConfirmedWasTrue ==
  \A h \in Confirmed(graph) : \E w \in Visible : Holds(h, w)

\* An eliminated hypothesis was false at the instant of one of the calls.
EliminatedWasFalse ==
  \A h \in Eliminated(graph) : \E w \in Visible : Fails(h, w)

\* The engine's own validator never rejects a graph, whatever mix of
\* readings it is built from (hypotheses/invariants.py).
GraphIsValid == validate(graph)

\* The last reading of the tools decides: once the newest reading of the
\* messages, made at the primary, shows the callback consumed, no older
\* reading keeps its failure confirmed.
ConsumptionIsNoticed ==
  \A o \in observations :
    /\ o.tool = "MESSAGES" /\ o.status = "OK" /\ o.source = "PRIMARY"
    /\ \A x \in observations : x.tool = "MESSAGES" => x.seen <= o.seen
    /\ \A w \in o.data : w.messages # {} /\ \A m \in w.messages : m.status = "CONSUMED"
    => Confirmed(graph) \cap {"H6", "H6_SCHEMA_MISMATCH"} = {}

\* Once the newest reading of the payment, made at the primary, shows a
\* settled transaction that differs from what the Case expects, the identity
\* no longer matches, although an older reading of the same transaction did.
WrongPaymentIsNoticed ==
  \A o \in observations :
    /\ o.tool = "PAYMENT" /\ o.status = "OK" /\ o.source = "PRIMARY"
    /\ \A x \in observations : x.tool = "PAYMENT" => x.seen <= o.seen
    /\ \A w \in o.data : w.fund.tx # {} /\ ~RightPayment(w)
    => graph.identity.result # "MATCH"

\* A failed or empty lookup never settles a question: with nothing but such
\* answers, and readings of caches and replicas, no hypothesis is confirmed
\* or eliminated and no safety gap is closed.
AbsenceDecidesNothing ==
  (\A o \in observations : o.status # "OK" \/ o.source # "PRIMARY")
  => /\ Confirmed(graph) \cup Eliminated(graph) = {}
     /\ \A g \in graph.gaps : g.priority = "SAFETY_CRITICAL" => g.status = "OPEN"

\* The conclusion that the money moved without a response leaves none of
\* its safety gaps open.
ConfirmedPaymentClosesGaps ==
  "H4" \in Confirmed(graph) =>
    \A g \in graph.gaps :
      g.name \in {"PAYMENT_IDENTITY", "PAYMENT_FINALITY", "REQUEST_ASSOCIATION"}
      => g.status = "SATISFIED"

\* What decides a hypothesis is beyond doubt: fresh, complete and not
\* followed by a failed lookup of its tool, which casts doubt on it until
\* the tool answers again (EvidenceIndex.current).
DecisiveIsUnchallenged ==
  \A h \in HypothesisId : \A e \in DOMAIN graph.results[h].relations :
    graph.results[h].relations[e] \in {"DECISIVE_SUPPORT", "DECISIVE_CONTRADICTION"}
    => /\ e.fresh = "CURRENT" /\ e.complete = "COMPLETE"
       /\ \A o \in observations : o.tool = e.tool /\ o.version = e.scope /\ o.status # "OK"
                                 => o.seen < e.seen

\* Re-extraction finds the stored evidence complete and unaltered after any
\* number of repeated readings (evidence/verification.py).
ProvenanceHolds == ProvenanceValid(stored, observations)

\* What the hypotheses say was so: every conclusion was true of the world at
\* one of the calls, none rests on absence, and together they are a graph
\* the validator accepts, with the gaps of a confirmed payment closed.
ConclusionsAreSound ==
  /\ ConfirmedWasTrue /\ EliminatedWasFalse /\ AbsenceDecidesNothing
  /\ GraphIsValid /\ ConfirmedPaymentClosesGaps

\* The last word of a tool counts: a conclusion rests on no reading that a
\* newer one of the primary contradicts or a failed lookup casts doubt on.
NewestReadingDecides ==
  ConsumptionIsNoticed /\ WrongPaymentIsNoticed /\ DecisiveIsUnchallenged

\* An inquiry is sound: records keep their types, its evidence is what was
\* observed, its conclusions were true, and the newest reading decides, in
\* whatever order readings, changes and faults came.
InquiryIsSound == TypeOK /\ ConclusionsAreSound /\ NewestReadingDecides /\ ProvenanceHolds
=============================================================================

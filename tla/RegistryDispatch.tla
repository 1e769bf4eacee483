--------------------------- MODULE RegistryDispatch ---------------------------
(***************************************************************************)
(* One Case reading registered sources while administrators publish new    *)
(* registry versions: the planner's capability snapshot, the guard that    *)
(* resolves and records a source when a call is reserved, the client that  *)
(* is looked up from that record later, and the append-only route          *)
(* revisions a verified protocol answer adds.  Every transaction here      *)
(* locks the Case and then the registry head, so it is one step.  The      *)
(* Case's own status and budget are CaseWork's; here it is open or not.    *)
(***************************************************************************)
EXTENDS RegistryModel, Sequences, SequencesExt

CONSTANTS Bodies,      \* the definitions that may be published
          Routes,      \* the contexts the Case may be bound to
          Case,        \* created_at and allowed_tools
          Contract,    \* ToolCapabilityCatalog: what each tool can produce
          Protocols,   \* protocol versions a source may answer
          Bindings,    \* <<system, adapter>> pairs the deployment has a client for
          MaxActivations, \* bound: activations
          MaxCalls     \* bound: the Case's tool budget

VARIABLES
  published, \* registry_heads.version: the stored body
  activations,
  open,     \* the Case is not terminal
  legacy,   \* registry_case_routes: the initial binding
  route,    \* registry_case_route_revisions, the chain that ends at the head
  snap,     \* the capability snapshot the planner was given
  calls     \* case_tool_calls, their dispatch sources and observations

dispatchVars == <<published, activations, open, legacy, route, snap, calls>>

ASSUME DispatchAssumption ==
  /\ MaxActivations \in Nat /\ MaxCalls \in Nat
  /\ None \notin AuthorityLevel /\ None \notin Routes /\ \A r \in Routes : CaseRouteContext(r)
  /\ \A body \in Bodies :
       /\ IsFiniteSet(DOMAIN body.capabilities)
       /\ \A r \in Routes, c \in DOMAIN body.capabilities : Resolved(ReadDefinition(body), r, c) # None

Tools == DOMAIN Contract

InForce == ReadDefinition(published)

\* repo.route
CurrentRoute == IF route # <<>> THEN Last(route).context ELSE legacy

CallState == {"DISPATCHED", "OBSERVED", "ERROR"}

DispatchTypeOK ==
  /\ published \in Bodies \cup {None}
  /\ legacy \in Routes \cup {None}
  /\ route # <<>> => legacy # None
  /\ \A k \in DOMAIN route : route[k].parent = k - 1
  /\ \A i \in DOMAIN calls :
       /\ calls[i].state \in CallState
       /\ calls[i].answer \in Protocols \cup {None}
       /\ calls[i].at \in 0..MaxCalls

DispatchInit ==
  /\ published = None /\ activations = 0 /\ open = TRUE
  /\ legacy \in Routes \cup {None}
  /\ route = <<>> /\ snap = None /\ calls = <<>>

----------------------------------------------------------------------------
(* The registry, the route and the planner's snapshot.                     *)

\* register accepts nothing without integrity; activate moves the head
Activate(body) ==
  /\ activations < MaxActivations
  /\ Integrity(ReadDefinition(body)) /\ WithinContract(body, Contract)
  /\ published' = body /\ activations' = activations + 1
  /\ UNCHANGED <<open, legacy, route, snap, calls>>

Revision(parent, context, refs) == [parent |-> parent, context |-> context, refs |-> refs]
\* bind_case_route: a second binding must be the same, and completes the first
BindRoute(context) ==
  /\ legacy \in {None, context}
  /\ legacy' = context
  /\ route' = IF route = <<>> THEN <<Revision(0, context, {})>> ELSE route
  /\ UNCHANGED <<published, activations, open, snap, calls>>

\* RouteUpdater.initialize_legacy
InitializeLegacy ==
  /\ open /\ legacy # None /\ route = <<>>
  /\ route' = <<Revision(0, legacy, {})>>
  /\ UNCHANGED <<published, activations, open, legacy, snap, calls>>

\* RegistryBackedCatalog.project: every tool that resolves, under one version
Project ==
  /\ published # None /\ CurrentRoute # None
  /\ snap' = [version |-> InForce, routing |-> CurrentRoute,
              tools |-> [t \in {x \in Tools \cap Case.allowed_tools :
                                 ResolveTool(InForce, Case, x, CurrentRoute) # None}
                           |-> ResolveTool(InForce, Case, t, CurrentRoute)]]
  /\ UNCHANGED <<published, activations, open, legacy, route, calls>>

Close ==
  /\ open /\ open' = FALSE
  /\ UNCHANGED <<published, activations, legacy, route, snap, calls>>

----------------------------------------------------------------------------
(* Calls.                                                                  *)

Bound(r) == <<r.system_id, r.adapter_id>>

\* the comparison in prepare; a call outside a plan has no precondition
PlanIsCurrent_VersionOnly(r) == snap.version = r.registry_version

PlanIsCurrent(r) ==
  snap.version = r.registry_version /\ snap.routing = r.routing_fingerprint

\* reserve_call with RegistryDispatchGuard.prepare and record
Reserve(tool, planned) ==
  LET r == ResolveTool(InForce, Case, tool, CurrentRoute)
  IN /\ open /\ Len(calls) < MaxCalls
     /\ published # None /\ CurrentRoute # None
     /\ r # None
     /\ planned => snap # None /\ tool \in DOMAIN snap.tools /\ PlanIsCurrent(r)
     /\ Bound(r) \in Bindings
     /\ calls' = Append(calls, [tool |-> tool, source |-> r, state |-> "DISPATCHED",
                                plan |-> IF planned THEN snap.tools[tool] ELSE None,
                                by |-> None, answer |-> None, at |-> 0])
     /\ UNCHANGED <<published, activations, open, legacy, route, snap>>

\* RegistryDispatchGuard.client
Client(i) == Bound(calls[i].source)

Observed == {i \in DOMAIN calls : calls[i].state = "OBSERVED"}

\* The source answers, a protocol query with a version or a failed lookup; an
\* ERROR call is recovered when its observation turns up.
Observe(i, answer) ==
  /\ open /\ calls[i].state \in {"DISPATCHED", "ERROR"}
  /\ answer # None => calls[i].tool = "PROTOCOL"
  /\ calls' = [calls EXCEPT ![i].state = "OBSERVED", ![i].by = Client(i),
                            ![i].answer = answer, ![i].at = Cardinality(Observed) + 1]
  /\ UNCHANGED <<published, activations, open, legacy, route, snap>>

MarkError(i) ==
  /\ calls[i].state = "DISPATCHED"
  /\ calls' = [calls EXCEPT ![i].state = "ERROR"]
  /\ UNCHANGED <<published, activations, open, legacy, route, snap>>

----------------------------------------------------------------------------
(* Promotion of a protocol answer to a routing fact.                       *)

\* EvidenceIndex.current of the protocol claim, by call: the latest answer of
\* its version that no later failed lookup overtook
CurrentProtocolEvidence ==
  {i \in Observed : /\ calls[i].tool = "PROTOCOL" /\ calls[i].answer # None
                    /\ ~ \E j \in Observed : /\ calls[j].tool = "PROTOCOL"
                                             /\ calls[j].answer \in {None, calls[i].answer}
                                             /\ calls[j].at > calls[i].at}

WithoutRoute(r) == [r EXCEPT !.routing_fingerprint = None]

\* verified_protocol: current evidence of one observation, read from the very
\* source that is in force and authoritative now, under a route of this chain
Verified_AnySource(refs) ==
  refs \subseteq CurrentProtocolEvidence /\ Cardinality(refs) = 1

Verified(refs) ==
  LET source == ResolveTool(InForce, Case, "PROTOCOL", CurrentRoute)
      chain == {route[k].context : k \in DOMAIN route}
  IN /\ refs \subseteq CurrentProtocolEvidence /\ Cardinality(refs) = 1
     /\ source # None
     /\ InForce.capabilities[source.capability_id].capability_type = "READ_PROTOCOL_SCHEMA"
     /\ InForce.systems[source.system_id].system_type = "PROTOCOL_REGISTRY"
     /\ "PROTOCOL_FIELD_TYPE" \in DOMAIN source.authority
     /\ source.authority["PROTOCOL_FIELD_TYPE"].authority_level = "AUTHORITATIVE"
     /\ \A i \in refs : /\ calls[i].source.routing_fingerprint \in chain
                        /\ WithoutRoute(calls[i].source) = WithoutRoute(source)

AnswerOf(refs) == calls[CHOOSE i \in refs : TRUE].answer

\* known facts are kept: the same answer is a no-op, another one an error
Unknown(refs) == CurrentRoute.protocol_version = None

\* RouteUpdater.promote_protocol: expected is the revision the caller read
PromoteProtocol(expected, refs) ==
  /\ open /\ route # <<>> /\ published # None
  /\ expected = Len(route)
  /\ Verified(refs)
  /\ Unknown(refs)
  /\ Len(route) <= MaxCalls
  /\ route' = Append(route, Revision(expected,
                [CurrentRoute EXCEPT !.protocol_version = AnswerOf(refs)], refs))
  /\ UNCHANGED <<published, activations, open, legacy, snap, calls>>

DispatchNext ==
  \/ \E body \in Bodies : Activate(body)
  \/ \E context \in Routes : BindRoute(context)
  \/ InitializeLegacy \/ Project \/ Close
  \/ \E tool \in Tools, planned \in BOOLEAN : Reserve(tool, planned)
  \/ \E i \in DOMAIN calls :
       MarkError(i) \/ \E answer \in Protocols \cup {None} : Observe(i, answer)
  \/ \E expected \in DOMAIN route, i \in DOMAIN calls : PromoteProtocol(expected, {i})

DispatchSpec == DispatchInit /\ [][DispatchNext]_dispatchVars

----------------------------------------------------------------------------
(* Properties.                                                             *)

\* A call reads the source it was meant for, although registry and route may
\* move between the planner's snapshot, the reservation and the answer: a
\* planned call is reserved at the source the planner was shown, it is observed
\* by the client of its reservation, and a draining source serves only Cases
\* older than its cutoff whose route allows it.
SourcesAreAsPlanned ==
  \A i \in DOMAIN calls :
    LET r == calls[i].source
        s == r.registry_version.systems[r.system_id]
    IN  /\ calls[i].plan # None => r = calls[i].plan
        /\ i \in Observed => calls[i].by = Bound(r)
        /\ s.status = "DRAINING" =>
             Case.created_at < s.draining_since /\ r.routing_fingerprint.allow_existing_draining

\* The rows of calls and routes keep their types, and every call reads its own
\* source (RegistryDispatchGuard.prepare, record, client).
CallsReadTheirSource == DispatchTypeOK /\ SourcesAreAsPlanned

\* A protocol version a route revision adds was answered by the source that
\* was authoritative when it was asked, under an earlier route of the same
\* Case, and nothing else of the route changed.
ProtocolIsProven ==
  \A k \in DOMAIN route : k > 1 =>
    /\ [route[k].context EXCEPT !.protocol_version = None]
         = [route[1].context EXCEPT !.protocol_version = None]
    /\ \E i \in route[k].refs :
         /\ calls[i].state = "OBSERVED" /\ calls[i].answer = route[k].context.protocol_version
         /\ calls[i].source.authority["PROTOCOL_FIELD_TYPE"].authority_level = "AUTHORITATIVE"
         /\ \E j \in 1..(k - 1) : calls[i].source.routing_fingerprint = route[j].context

\* A source as one claim sees it: the rules of its other claims, and the version
\* it is part of, are not its business.
Outcome(def, wanted, r) ==
  LET x == Resolve(def, Case, wanted, r)
  IN IF x = None THEN None
     ELSE [x EXCEPT !.registry_version = None, !.authority = x.authority[wanted]]

ToolOutcome(def, t, r) ==
  LET x == ResolveTool(def, Case, t, r)
  IN IF x = None THEN None ELSE [x EXCEPT !.registry_version = None]

IsAuthoritative(x) == x # None /\ x.authority.authority_level = "AUTHORITATIVE"

ReachesAuthority(def, claim, r) ==
  LET tool == VerificationTool(def, Case, claim, r)
      eligible == Candidates(def, Case, r)
      Rank(c) == AUTHORITY_ORDER[LevelFor(def, c, claim)]
  IN tool # None =>
       \E c \in eligible :
         /\ \A o \in eligible \ {c} : def.capabilities[o].tool_name # tool
         /\ def.capabilities[c].tool_name = tool
         /\ \A o \in eligible \ {c} : LevelFor(def, o, claim) # None => Rank(c) < Rank(o)

\* An activation brings no surprise, for any route: it does not replace, remove
\* or add the authoritative source of payment finality without the diff calling
\* it HIGH_RISK; a tool that resolves differently has a capability listed as
\* changed; and verification by tool name still reaches the one eligible source
\* of the best level for the claim.
ActivationIsUnderstood ==
  [][(published # None /\ published' # published) =>
       \A r \in Routes :
         LET a == Outcome(InForce, "PAYMENT_FINALITY", r)
             b == Outcome(InForce', "PAYMENT_FINALITY", r)
         IN  /\ (a # b /\ (IsAuthoritative(a) \/ IsAuthoritative(b)))
                  => RiskReasons(InForce, InForce') # {}
             /\ \A t \in Tools :
                  ToolOutcome(InForce, t, r) # ToolOutcome(InForce', t, r) =>
                    \E c \in ChangedCapabilities(InForce, InForce') :
                      \E d \in {InForce, InForce'} :
                        c \in DOMAIN d.capabilities /\ d.capabilities[c].tool_name = t
             /\ \A claim \in {"PAYMENT_FINALITY", "PROTOCOL_FIELD_TYPE"} :
                  ReachesAuthority(InForce', claim, r)]_dispatchVars
=============================================================================

---------------------------- MODULE RegistryModel ----------------------------
(***************************************************************************)
(* What a System Registry definition means: its integrity, which sources a *)
(* Case may read, which one answers a claim or a tool, what two versions   *)
(* differ in and how risky that is.  A definition is a record of three     *)
(* functions: systems by id, capabilities by id, and authority rules by    *)
(* capability and claim.  Times are numbers; tenant, business domain and   *)
(* environment are one field, place.  Versions of query and response       *)
(* contracts are part of the adapter a capability names.                   *)
(***************************************************************************)
EXTENDS Naturals, FiniteSets

CONSTANT None

SystemType ==
  {"PAYMENT_STATUS_SOURCE", "FUNDING_INTEGRATION", "GUARANTEE_CORE", "CALLBACK_GATEWAY",
   "MESSAGE_PLATFORM", "ASSET_PLATFORM", "ACCOUNTING", "PROTOCOL_REGISTRY"}

SourceChannel ==
  {"INTERNAL_SYSTEM", "INTERNAL_SETTLEMENT", "PARTNER_OFFICIAL_API", "RECONCILIATION_FILE",
   "PAYMENT_INSTITUTION_API"}

PartnerRole == {"ASSET", "FUNDING", "GUARANTEE"}

CapabilityType ==
  {"ESTABLISH_PAYMENT_FINALITY", "ESTABLISH_PAYMENT_IDENTITY", "ESTABLISH_REQUEST_ASSOCIATION",
   "READ_FUND_STATE", "READ_GUARANTEE_STATE", "READ_CALLBACK_RECEIPT", "READ_MESSAGE_CONSUMPTION",
   "READ_ASSET_STATE", "READ_ASSET_DELIVERY", "READ_ACCOUNTING_ENTRY", "READ_PROTOCOL_SCHEMA"}

AuthorityLevel == {"AUTHORITATIVE", "CORROBORATING", "DIAGNOSTIC"}

RegistryStatus == {"ACTIVE", "DRAINING", "DISABLED"}

AUTHORITY_ORDER == [AUTHORITATIVE |-> 0, CORROBORATING |-> 1, DIAGNOSTIC |-> 2]



Claims(c) == c.produces_claim_types

\* EffectiveDefinition.interval, RoutingScope.explicit_protocol, drain_date
WellFormed(d) ==
  /\ d.status \in RegistryStatus
  /\ d.effective_until # None => d.effective_from < d.effective_until
  /\ (d.scope.protocol_versions # {}) # d.scope.version_agnostic
  /\ (d.scope.partner_role = None) = (d.scope.partner_id = None)
  /\ d.status = "DRAINING" => d.draining_since # None

SystemDefinition(s) ==
  WellFormed(s) /\ s.system_type \in SystemType /\ s.source_channel \in SourceChannel

\* facts a source may contribute to although no extractor claims them yet
UncollectedClaimType ==
  {"DEPLOYED_CONSUMER_SCHEMA_VERSION", "FUND_REQUEST_PROTOCOL_APPLICABILITY", "REQUEST_ASSOCIATION",
   "CALLBACK_EVENT_ASSOCIATION", "FUND_REJECTION_WITHOUT_DISBURSEMENT"}

CapabilityDefinition(c) ==
  /\ WellFormed(c) /\ c.read_or_write \in {"READ", "WRITE"} /\ Claims(c) # {}
  /\ c.capability_type \in CapabilityType
  /\ c.contributes_requirements \subseteq UncollectedClaimType
  /\ c.authority_level \in AuthorityLevel

ClaimAuthorityRule ==
  [authority_level : AuthorityLevel, subject_binding_required : BOOLEAN,
   identity_binding_required : BOOLEAN, freshness_requirement : {"CURRENT", "UNKNOWN", "STALE"},
   completeness_requirement : {"COMPLETE", "PARTIAL", "UNKNOWN"}]

CaseRouteContext(r) ==
  /\ DOMAIN r = {"place", "product_code", "partners", "protocol_version", "effective_at",
                 "allow_existing_draining"}
  /\ r.protocol_version # "" /\ r.allow_existing_draining \in BOOLEAN
  /\ DOMAIN r.partners \subseteq PartnerRole

\* RegistryDefinition.integrity
Integrity(def) ==
  /\ \A s \in DOMAIN def.systems : SystemDefinition(def.systems[s])
  /\ \A c \in DOMAIN def.capabilities :
       /\ CapabilityDefinition(def.capabilities[c])
       /\ def.capabilities[c].system_id \in DOMAIN def.systems
       /\ \A claim \in Claims(def.capabilities[c]) : <<c, claim>> \in DOMAIN def.rules
  /\ \A r \in DOMAIN def.rules :
       /\ def.rules[r] \in ClaimAuthorityRule
       /\ r[1] \in DOMAIN def.capabilities
       /\ r[2] \in Claims(def.capabilities[r[1]])
       /\ (r[2] = "PAYMENT_FINALITY" /\ def.rules[r].authority_level = "AUTHORITATIVE") =>
            /\ def.systems[def.capabilities[r[1]].system_id].system_type = "PAYMENT_STATUS_SOURCE"
            /\ def.rules[r].subject_binding_required /\ def.rules[r].identity_binding_required
            /\ def.rules[r].freshness_requirement = "CURRENT"
            /\ def.rules[r].completeness_requirement = "COMPLETE"

\* register: a readable capability claims no more than its tool can produce
WithinContract(def, contract) ==
  \A c \in DOMAIN def.capabilities : LET cap == def.capabilities[c] IN
    cap.read_or_write = "READ" =>
      /\ cap.tool_name \in DOMAIN contract
      /\ Claims(cap) \subseteq contract[cap.tool_name].claims
      /\ cap.contributes_requirements \subseteq contract[cap.tool_name].requirements

\* read_definition: the names and channel a historical body did not have yet
ReadSystem(s) ==
  LET type == CASE s.system_type = "FUNDING_CORE" -> "FUNDING_INTEGRATION"
                [] s.system_type = "PAYMENT_LEDGER" -> "PAYMENT_STATUS_SOURCE"
                [] OTHER -> s.system_type
      channel == IF s.source_channel # None THEN s.source_channel
                 ELSE IF type \in {"FUNDING_INTEGRATION", "PAYMENT_STATUS_SOURCE", "ASSET_PLATFORM"}
                 THEN "PARTNER_OFFICIAL_API" ELSE "INTERNAL_SYSTEM"
  IN [s EXCEPT !.system_type = type, !.source_channel = channel]

ReadDefinition(body) ==
  [systems |-> [s \in DOMAIN body.systems |-> ReadSystem(body.systems[s])],
   capabilities |-> body.capabilities, rules |-> body.rules]

----------------------------------------------------------------------------
(* Routing and resolution.                                                 *)

Matches(scope, route) ==
  /\ scope.place = route.place
  /\ route.product_code \in scope.product_codes
  /\ scope.partner_role # None => route.partners[scope.partner_role] = scope.partner_id
  /\ scope.version_agnostic \/ route.protocol_version \in scope.protocol_versions

Eligible(d, case, route) ==
  /\ Matches(d.scope, route)
  /\ d.status # "DISABLED"
  /\ d.status = "DRAINING" =>
       route.allow_existing_draining /\ case.created_at < d.draining_since
  /\ d.effective_from <= route.effective_at
  /\ d.effective_until # None => route.effective_at < d.effective_until

Candidates(def, case, route) ==
  {c \in DOMAIN def.capabilities : LET cap == def.capabilities[c] IN
     /\ cap.read_or_write = "READ" /\ cap.supports_lookup
     /\ cap.tool_name \in case.allowed_tools
     /\ Eligible(cap, case, route)
     /\ Eligible(def.systems[cap.system_id], case, route)}

RulesFor(def, c) ==
  [claim \in {r[2] : r \in {x \in DOMAIN def.rules : x[1] = c}} |-> def.rules[<<c, claim>>]]

\* ResolvedCapability; the version is the definition itself
Resolved(def, route, c) ==
  LET cap == def.capabilities[c]
  IN [capability_id |-> c, system_id |-> cap.system_id, adapter_id |-> cap.adapter_id,
      tool_name |-> cap.tool_name, claim_types |-> Claims(cap), authority |-> RulesFor(def, c),
      registry_version |-> def, routing_fingerprint |-> route]

\* The level at which a candidate answers a claim or contributes a requirement.
LevelFor(def, c, wanted) ==
  IF wanted \in DOMAIN RulesFor(def, c) THEN RulesFor(def, c)[wanted].authority_level
  ELSE IF wanted \in def.capabilities[c].contributes_requirements
  THEN def.capabilities[c].authority_level
  ELSE None

\* resolve: the one candidate of the best level, or an error (None)
Resolve(def, case, wanted, route) ==
  LET entries == {c \in Candidates(def, case, route) : LevelFor(def, c, wanted) # None}
      Rank(c) == AUTHORITY_ORDER[LevelFor(def, c, wanted)]
      best == {c \in entries : \A o \in entries : Rank(c) <= Rank(o)}
  IN IF Cardinality(best) # 1 THEN None
     ELSE Resolved(def, route, CHOOSE c \in best : TRUE)

\* resolve_tool: a tool name cannot say which of two sources was meant, so two
\* are an error whatever their level
ResolveTool(def, case, tool, route) ==
  LET found == {c \in Candidates(def, case, route) : def.capabilities[c].tool_name = tool}
  IN IF Cardinality(found) # 1 THEN None
     ELSE Resolved(def, route, CHOOSE c \in found : TRUE)

\* verification_tools: the tool whose execution reaches the source that the
\* claim resolves to, if there is one
VerificationTool_ByClaim(def, case, claim, route) ==
  LET r == Resolve(def, case, claim, route) IN IF r = None THEN None ELSE r.tool_name

VerificationTool(def, case, claim, route) ==
  LET r == Resolve(def, case, claim, route)
  IN IF r # None /\ ResolveTool(def, case, r.tool_name, route) = r THEN r.tool_name ELSE None

----------------------------------------------------------------------------
(* What an administrator is told about a change.                           *)

Differing(f, g) == {k \in DOMAIN f \cup DOMAIN g : k \notin DOMAIN f \cap DOMAIN g \/ f[k] # g[k]}

\* a field differs: also where the entity was added or removed
FieldDiffers(f, g, k, field) ==
  k \notin DOMAIN f \cap DOMAIN g \/ f[k][field] # g[k][field]

PaymentCapabilities(def) ==
  {r[1] : r \in {x \in DOMAIN def.rules :
     x[2] = "PAYMENT_FINALITY" /\ def.rules[x].authority_level = "AUTHORITATIVE"}}

\* version_diff: the reasons that make a change HIGH_RISK
RiskReasons(a, b) ==
  LET systems == Differing(a.systems, b.systems)
      caps == Differing(a.capabilities, b.capabilities)
      rules == Differing(a.rules, b.rules)
      payment == PaymentCapabilities(a) \cup PaymentCapabilities(b)
      paymentSystems == UNION {{d.capabilities[c].system_id : c \in payment \cap DOMAIN d.capabilities}
                                 : d \in {a, b}}
      Holds(reason) ==
        CASE reason = "ROUTING_SCOPE_CHANGE" ->
               \/ \E s \in systems : FieldDiffers(a.systems, b.systems, s, "scope")
               \/ \E c \in caps : FieldDiffers(a.capabilities, b.capabilities, c, "scope")
          [] reason = "SYSTEM_DISABLE_OR_REMOVE" ->
               \E s \in systems \cap DOMAIN a.systems :
                 s \notin DOMAIN b.systems \/ b.systems[s].status = "DISABLED"
          [] reason = "WRITE_CAPABILITY_CHANGE" ->
               \E c \in caps \cap DOMAIN b.capabilities : b.capabilities[c].read_or_write = "WRITE"
          [] reason = "IDENTITY_BINDING_CHANGE" ->
               \E r \in rules : FieldDiffers(a.rules, b.rules, r, "identity_binding_required")
          [] reason = "PAYMENT_FINALITY_AUTHORITY_CHANGE" ->
               \E r \in rules : r[2] = "PAYMENT_FINALITY"
          [] reason = "AUTHORITY_UPGRADE" ->
               \E r \in rules \cap DOMAIN b.rules :
                 /\ b.rules[r].authority_level = "AUTHORITATIVE"
                 /\ r \in DOMAIN a.rules => a.rules[r].authority_level # "AUTHORITATIVE"
          [] reason = "PAYMENT_FINALITY_SOURCE_CHANGE" ->
               caps \cap payment # {} \/ systems \cap paymentSystems # {}
  IN {reason \in {"ROUTING_SCOPE_CHANGE", "SYSTEM_DISABLE_OR_REMOVE", "WRITE_CAPABILITY_CHANGE",
                  "IDENTITY_BINDING_CHANGE", "PAYMENT_FINALITY_AUTHORITY_CHANGE",
                  "AUTHORITY_UPGRADE", "PAYMENT_FINALITY_SOURCE_CHANGE"} : Holds(reason)}

\* The fields of a source that bear on its capabilities' applicability; the
\* credential reference among them is RegistryAdmin's.
Operational(s) ==
  [f \in {"system_type", "source_channel", "scope", "status", "effective_from",
          "effective_until", "draining_since"} |-> s[f]]
\* changed_capability_types, before the projection to types
ChangedCapabilities(a, b) ==
  LET Fields(def) == [s \in DOMAIN def.systems |-> Operational(def.systems[s])]
      sources == Differing(Fields(a), Fields(b))
  IN Differing(a.capabilities, b.capabilities)
     \cup {r[1] : r \in Differing(a.rules, b.rules)}
     \cup UNION {{c \in DOMAIN d.capabilities : d.capabilities[c].system_id \in sources} : d \in {a, b}}
=============================================================================

------------------------------ MODULE MCRegistry ------------------------------
(***************************************************************************)
(* The System Registry for TLC: its administration by two people, with one *)
(* system and small spreadsheets, and its use by one Case, with two        *)
(* systems and up to three capabilities.  A behaviour is about one of five *)
(* subjects, chosen at the start; the other component stands still.        *)
(***************************************************************************)
EXTENDS RegistryAdmin, RegistryDispatch, TLC

VARIABLE subject

CONSTANTS ed, act, s1, k1, g1, g2, g3, n1, n2, code

TwoPeople == {ed, act}

\* one editor, and one person with every duty
DutiesOfTwo == [u \in TwoPeople |->
                  IF u = ed THEN {"EDITOR"} ELSE {"EDITOR", "APPROVER", "ACTIVATOR"}]

\* the editor never reviews
DutiesApart == [u \in TwoPeople |->
                  IF u = ed THEN {"EDITOR"} ELSE {"APPROVER", "ACTIVATOR"}]

OneSystem == {s1}

WithCredential == [s \in OneSystem |-> [company_system_code |-> NULL, credential_ref |-> k1]]

Row(c, name, group, ref) ==
  [code |-> c, name |-> name, group |-> group, ref |-> ref, formula |-> FALSE]

Sheet(title, rows) == [title |-> title, headers |-> TRUE, rows |-> rows]

\* g3 is a company sheet; its rows have no other group
FixedSheets == {g3}

\* two workbooks that differ in group and name
OneGroup == <<Sheet(g1, <<Row(code, n1, NULL, 1)>>)>>

Good == {OneGroup,
         <<Sheet(g2, <<Row(code, n2, NULL, 2)>>)>>}

\* a conflict, rows in groups that are not theirs, a formula, and a sheet
\* without headers
Bad == {<<Sheet(g1, <<Row(code, n1, g2, 3), Row(code, n2, g3, 4)>>),
          Sheet(g3, <<Row(code, n1, g2, 5), [Row(code, n1, g3, 6) EXCEPT !.formula = TRUE]>>),
          [Sheet(g2, <<>>) EXCEPT !.headers = FALSE]>>}

AllBooks == Good \cup Bad


----------------------------------------------------------------------------
Scope(supported) ==
  [place |-> "tenant", product_codes |-> {"loan"}, partner_role |-> "FUNDING", partner_id |-> "bank",
   protocol_versions |-> supported, version_agnostic |-> supported = {}]

System(type, status) ==
  [system_type |-> type, source_channel |-> None, scope |-> Scope({}), status |-> status,
   draining_since |-> IF status = "DRAINING" THEN 2 ELSE None,
   effective_from |-> 0, effective_until |-> None]

Capability(sys, tool, claims, adapter, supported) ==
  [system_id |-> sys, tool_name |-> tool, read_or_write |-> "READ", supports_lookup |-> TRUE,
   capability_type |-> IF tool = "PROTOCOL" THEN "READ_PROTOCOL_SCHEMA" ELSE "ESTABLISH_PAYMENT_FINALITY",
   produces_claim_types |-> claims, contributes_requirements |-> {}, authority_level |-> "AUTHORITATIVE",
   adapter_id |-> adapter, scope |-> Scope(supported), status |-> "ACTIVE", draining_since |-> None,
   effective_from |-> 0, effective_until |-> None]

Rule(level) ==
  [authority_level |-> level, subject_binding_required |-> TRUE, identity_binding_required |-> TRUE,
   freshness_requirement |-> "CURRENT", completeness_requirement |-> "COMPLETE"]

pay == Capability("S1", "PAYMENT", {"PAYMENT_FINALITY"}, "a1", {})
proto == Capability("S2", "PROTOCOL", {"PROTOCOL_FIELD_TYPE"}, "a2", {})

Base ==
  [systems |-> [s \in {"S1", "S2"} |->
                  System(IF s = "S1" THEN "PAYMENT_STATUS_SOURCE" ELSE "PROTOCOL_REGISTRY", "ACTIVE")],
   capabilities |-> [c \in {"pay", "proto"} |-> IF c = "pay" THEN pay ELSE proto],
   rules |-> [r \in {<<"pay", "PAYMENT_FINALITY">>, <<"proto", "PROTOCOL_FIELD_TYPE">>} |->
                Rule("AUTHORITATIVE")]]

With(def, id, cap, level) ==
  [def EXCEPT !.capabilities = (id :> cap) @@ @,
              !.rules = [r \in {<<id, c>> : c \in Claims(cap)} |-> Rule(level)] @@ @]

OtherAdapter == [Base EXCEPT !.capabilities["proto"].adapter_id = "a3"]
OldTypes == [Base EXCEPT !.systems["S1"].system_type = "PAYMENT_LEDGER"]
Draining == [Base EXCEPT !.systems["S1"] = System("PAYMENT_STATUS_SOURCE", "DRAINING")]
NewProtocolOnly == [Base EXCEPT !.capabilities["pay"].scope = Scope({"v2"})]

Corroborating == [Base EXCEPT !.rules[<<"proto", "PROTOCOL_FIELD_TYPE">>].authority_level = "CORROBORATING"]

\* sound and unsound definitions, for the properties of a change
ManyBodies ==
  {Base, OtherAdapter, OldTypes, Draining, NewProtocolOnly,
   [Base EXCEPT !.systems["S1"].status = "DISABLED",
                !.capabilities["proto"].capability_type = "READ_FUND_STATE"],
   [Base EXCEPT !.rules[<<"pay", "PAYMENT_FINALITY">>].authority_level = "CORROBORATING"],
   [Base EXCEPT !.rules[<<"pay", "PAYMENT_FINALITY">>].identity_binding_required = FALSE],
   With(Base, "pay2", [pay EXCEPT !.adapter_id = "a5"], "AUTHORITATIVE"),
   With([Base EXCEPT !.capabilities["pay"].adapter_id = "a4"],
        "fund", [pay EXCEPT !.tool_name = "FUND"], "CORROBORATING"),
   With(Base, "over", [pay EXCEPT !.tool_name = "PROTOCOL"], "DIAGNOSTIC"),
   Corroborating,
   With(OtherAdapter, "proto2", [proto EXCEPT !.adapter_id = "a6"], "DIAGNOSTIC")}

FewBodies == {Base, OtherAdapter, Corroborating, NewProtocolOnly}

Route(version, draining) ==
  [place |-> "tenant", product_code |-> "loan", partners |-> [FUNDING |-> "bank"],
   protocol_version |-> version, effective_at |-> 1, allow_existing_draining |-> draining]

ManyRoutes == {Route(None, FALSE), Route(None, TRUE), Route("v2", TRUE)}
OneRoute == {Route(None, FALSE)}
AllTools == {"PAYMENT", "PROTOCOL", "FUND"}
Produces(claims) == [claims |-> claims, requirements |-> {}]
AllContracts == [PAYMENT |-> Produces({"PAYMENT_FINALITY"}), FUND |-> Produces({"PAYMENT_FINALITY"}),
                 PROTOCOL |-> Produces({"PROTOCOL_FIELD_TYPE"})]
TwoContracts == [PAYMENT |-> Produces({"PAYMENT_FINALITY"}), PROTOCOL |-> Produces({"PROTOCOL_FIELD_TYPE"})]
OldCase == [created_at |-> 1, allowed_tools |-> AllTools]
AllBindings == {<<"S1", "a1">>, <<"S2", "a2">>, <<"S2", "a3">>}

----------------------------------------------------------------------------
\* Spreadsheet imports are the given RegistryAdmin; configuration changes and
\* rollbacks have none, and a person with every duty.
Config == INSTANCE RegistryAdmin WITH
  RolesOf <- DutiesOfTwo, Workbooks <- {}, MaxPreviews <- 0, MaxRevision <- 2

\* One import beside the edits of a configuration that may refer to it.
Binding == INSTANCE RegistryAdmin WITH
  Workbooks <- {OneGroup}, MaxPreviews <- 1, MaxRevision <- 2

\* Every pair of definitions, about one call; a Case that makes two calls sees
\* fewer definitions.
Change == INSTANCE RegistryDispatch WITH
  Protocols <- {"v2"}, MaxCalls <- 1

Reading == INSTANCE RegistryDispatch WITH
  Bodies <- FewBodies, Routes <- OneRoute, Contract <- TwoContracts

MCInit ==
  \/ subject = "import" /\ Init /\ DispatchInit /\ legacy = None
  \/ subject = "config" /\ Config!Init /\ DispatchInit /\ legacy = None
  \/ subject = "binding" /\ Binding!Init /\ DispatchInit /\ legacy = None
  \/ subject = "change" /\ Init /\ Change!DispatchInit
  \/ subject = "reading" /\ Init /\ Reading!DispatchInit

Administration ==
  /\ \/ subject = "import" /\ Next
     \/ subject = "config" /\ Config!Next
     \/ subject = "binding" /\ Binding!Next
  /\ UNCHANGED <<dispatchVars, subject>>

Dispatch ==
  /\ \/ subject = "change" /\ Change!DispatchNext
     \/ subject = "reading" /\ Reading!DispatchNext
  /\ UNCHANGED <<vars, subject>>

MCSpec == MCInit /\ [][Administration \/ Dispatch]_<<vars, dispatchVars, subject>>
=============================================================================

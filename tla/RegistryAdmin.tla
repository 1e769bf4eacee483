---------------------------- MODULE RegistryAdmin ----------------------------
(***************************************************************************)
(* Human administration of one tenant's System Registry: change requests   *)
(* with four-eyes review, immutable content-addressed versions behind a    *)
(* compare-and-set head, spreadsheet imports of the company inventory, and *)
(* rollback.  Every operation locks the registry head row first, so one    *)
(* transaction is one step; what interleaves are the people, who act on a  *)
(* change request as they last read it.                                    *)
(*                                                                         *)
(* A version is the hash of its payload: here it is the definition itself. *)
(* Titles, reasons, comments, request ids and times are left out.          *)
(***************************************************************************)
EXTENDS Naturals, Sequences, FiniteSets, SequencesExt

CONSTANTS Users,          \* authenticated people
          RolesOf,        \* the roles their groups map to
          Systems,        \* system ids a definition may hold
          Workbooks,      \* the spreadsheets that may be uploaded
          CompanySheets,  \* COMPANY_SHEETS: sheets that are their own group
          Deployed,       \* the definition the deployment starts from, or NoVersion
          NULL,           \* an empty column
          MaxRequests,    \* bound: change requests
          MaxRevision,    \* bound: revision at which a draft is still edited
          MaxPreviews     \* bound: import previews

VARIABLES
  head,      \* registry_heads.version
  versions,  \* registry_versions
  activated, \* versions with an ACTIVATED row in registry_audit
  inv,       \* registry_inventory_heads: revision and records by system code
  invLog,    \* registry_inventory_versions
  crs,       \* registry_change_requests
  previews,  \* registry_inventory_previews
  audit,     \* registry_admin_audit
  seen       \* the change request each user last read: its id and content

vars == <<head, versions, activated, inv, invLog, crs, previews, audit, seen>>

Role == {"VIEWER", "EDITOR", "APPROVER", "ACTIVATOR", "AUDITOR"}

ROLE_PERMISSIONS ==
  [r \in Role |-> {"VIEW"} \cup
     CASE r = "EDITOR" -> {"EDIT", "SUBMIT", "ROLLBACK"}
       [] r = "APPROVER" -> {"APPROVE"}
       [] r = "ACTIVATOR" -> {"ACTIVATE"}
       [] r = "AUDITOR" -> {"AUDIT"}
       [] OTHER -> {}]

ASSUME AdminAssumption ==
  /\ NULL \notin Users \cup Nat /\ RolesOf \in [Users -> SUBSET Role]
  /\ MaxRequests \in Nat /\ MaxRevision \in Nat /\ MaxPreviews \in Nat

\* The deployment's own definition comes before any inventory to refer to.
ASSUME DeployedUnbound ==
  Deployed # NULL => \A s \in DOMAIN Deployed : Deployed[s].company_system_code = NULL

\* ApplicationAccess.require
Require(u, permission) == \E r \in RolesOf[u] : permission \in ROLE_PERMISSIONS[r]

----------------------------------------------------------------------------
(* Definitions and the inventory.                                          *)

\* RegistryDefinition, as far as administration tells one from another: by
\* system id, its company code and its server-side credential reference.
EmptyDefinition == [s \in {} |-> NULL]

Definition(v) == IF v = NULL THEN EmptyDefinition ELSE v

CredentialOf(def, s) == IF s \in DOMAIN def THEN def[s].credential_ref ELSE NULL

\* EditableDefinition: what a browser may send.  A credential is at most a mark.
EditableDefinitions(codes) ==
  UNION {[S -> [company_system_code : codes \cup {NULL}, credential_ref : {"[MASKED]", NULL}]]
           : S \in SUBSET Systems}

\* A source row the parser accepts becomes a master record with one membership;
\* a second row of the code adds its group, or is a conflict if it differs.
ParseRow(acc, row) ==
  LET group == IF row.group = NULL THEN acc.group ELSE row.group
      member == [g \in {group} |-> row.ref]
      foreign == {group, acc.sheet} \cap CompanySheets # {} /\ group # acc.sheet
  IN IF row.formula \/ foreign
     THEN [acc EXCEPT !.invalid = TRUE, !.group = IF row.formula THEN @ ELSE group]
     ELSE IF row.code \notin DOMAIN acc.rows
     THEN [acc EXCEPT !.group = group,
             !.rows = (row.code :> [name |-> row.name, members |-> member]) @@ @]
     ELSE IF acc.rows[row.code].name # row.name
     THEN [acc EXCEPT !.group = group, !.conflicts = TRUE]
     ELSE [acc EXCEPT !.group = group, !.rows[row.code].members = @ @@ member]

\* A sheet without usable headers only adds an error; a group carries down the
\* rows of its own sheet.
ParseSheet(acc, sheet) ==
  IF ~sheet.headers THEN [acc EXCEPT !.invalid = TRUE]
  ELSE FoldLeft(ParseRow, [acc EXCEPT !.group = sheet.title, !.sheet = sheet.title], sheet.rows)

ParseInventory(book) ==
  FoldLeft(ParseSheet,
           [rows |-> <<>>, invalid |-> FALSE, conflicts |-> FALSE, group |-> NULL, sheet |-> NULL],
           book)

\* Partial imports cannot erase another group's membership.
MergeRecords(current, incoming) ==
  [c \in DOMAIN current \cup DOMAIN incoming |->
     IF c \notin DOMAIN incoming THEN current[c]
     ELSE IF c \notin DOMAIN current THEN incoming[c]
     ELSE LET new == incoming[c].members
              old == current[c].members
          IN [name |-> incoming[c].name,
              members |-> [g \in DOMAIN new \cup DOMAIN old |->
                             IF g \in DOMAIN new THEN new[g] ELSE old[g]]]]

\* What the preview compares: not the source file, row or time of a membership.
ContentIdentity(record) == [name |-> record.name, groups |-> DOMAIN record.members]

\* as a set: empty where there is no record
ContentAt(records, c) == IF c \in DOMAIN records THEN {ContentIdentity(records[c])} ELSE {}

----------------------------------------------------------------------------
(* Rows.                                                                   *)

ChangeStatus ==
  {"DRAFT", "SUBMITTED", "APPROVED", "REJECTED", "ACTIVATED", "CANCELED", "SUPERSEDED"}

ChangeKind == {"CONFIGURATION", "ROLLBACK", "INVENTORY"}

TypeOK ==
  /\ head \in versions \cup {NULL}
  /\ activated \subseteq versions
  /\ inv.revision = Len(invLog)
  /\ \A c \in DOMAIN crs :
       /\ crs[c].kind \in ChangeKind /\ crs[c].status \in ChangeStatus
       /\ crs[c].proposed \in versions /\ crs[c].base \in versions \cup {NULL}
       /\ crs[c].base_inventory \in 0..inv.revision
       /\ crs[c].created_by \in Users
       /\ {crs[c].submitted_by, crs[c].approved_by} \subseteq Users \cup {NULL}
  /\ \A p \in DOMAIN previews :
       previews[p].confirmed_cr \in DOMAIN crs \cup {NULL}
  /\ \A u \in Users : seen[u].id \in 0..Len(crs)

Init ==
  /\ head = Deployed
  /\ versions = {Deployed} \ {NULL}
  /\ activated = versions
  /\ inv = [revision |-> 0, records |-> <<>>]
  /\ invLog = <<>>
  /\ crs = <<>>
  /\ previews = <<>>
  /\ audit = {}
  /\ seen = [u \in Users |-> [id |-> 0, cr |-> NULL]]

Audit(u, event, id, after) ==
  audit' = audit \cup {[actor |-> u, event |-> event, id |-> id, after |-> after]}

\* The response body, and what the user acts on next.
Reads(u, id, cr) == seen' = [seen EXCEPT ![u] = [id |-> id, cr |-> cr]]

Fresh(cr) ==
  /\ head = cr.base
  /\ cr.kind = "INVENTORY" => inv.revision = cr.base_inventory

\* _row and the revision the caller states
Current(u, id) == seen[u].id = id /\ seen[u].cr.revision = crs[id].revision

\* The row after _save: the revision counts every change
Saved(id, cr) == crs' = [crs EXCEPT ![id] = [cr EXCEPT !.revision = @ + 1]]

Returned(u, id, cr) == Reads(u, id, [cr EXCEPT !.revision = @ + 1])

----------------------------------------------------------------------------
(* Drafts.                                                                 *)

NewRequest(u, kind, base, version, rows) ==
  [kind |-> kind, base |-> base, proposed |-> version, base_inventory |-> inv.revision,
   revision |-> 1, status |-> "DRAFT", created_by |-> u, submitted_by |-> NULL,
   approved_by |-> NULL, inventory |-> rows]

\* _new, after its checks: without a base an empty definition is registered
New(u, kind, base, version, rows, event) ==
  LET id == Len(crs) + 1
      cr == NewRequest(u, kind, base, version, rows)
  IN /\ Len(crs) < MaxRequests
     /\ base = head
     /\ versions' = versions \cup {version}
     /\ crs' = Append(crs, cr)
     /\ Audit(u, event, id, version)
     /\ Reads(u, id, cr)

Create(u, base) ==
  /\ Require(u, "EDIT")
  /\ New(u, "CONFIGURATION", base, Definition(base), <<>>, "CREATE_DRAFT")
  /\ UNCHANGED <<head, activated, inv, invLog, previews>>

Rollback(u, base, target) ==
  /\ Require(u, "ROLLBACK")
  /\ target \in activated
  /\ New(u, "ROLLBACK", base, target, <<>>, "ROLLBACK_REQUESTED")
  /\ UNCHANGED <<head, activated, inv, invLog, previews>>

Get(u, id) ==
  /\ Require(u, "VIEW")
  /\ Reads(u, id, crs[id])
  /\ UNCHANGED <<head, versions, activated, inv, invLog, crs, previews, audit>>

\* The draft's systems as sent, each with the credential the server already
\* holds for it in the draft being edited.
Edited_KeepsMark(old, body) == body

Edited(old, body) ==
  [s \in DOMAIN body |-> [body[s] EXCEPT !.credential_ref = CredentialOf(old, s)]]

KnownCodes == DOMAIN inv.records

Editable(u, id) ==
  /\ Current(u, id)
  /\ crs[id].status = "DRAFT" /\ crs[id].kind = "CONFIGURATION"
  /\ Fresh(crs[id])

Edit(u, id, body) ==
  LET old == crs[id].proposed
      version == Edited(old, body)
      cr == [crs[id] EXCEPT !.proposed = version]
  IN /\ Require(u, "EDIT")
     /\ Editable(u, id)
     /\ cr.revision < MaxRevision
     /\ \A s \in DOMAIN body :
          /\ body[s].company_system_code \in KnownCodes \cup {NULL}
          /\ body[s].credential_ref = "[MASKED]" => CredentialOf(old, s) # NULL
     /\ versions' = versions \cup {version}
     /\ Saved(id, cr)
     /\ Returned(u, id, cr)
     /\ Audit(u, "EDIT_DRAFT", id, version)
     /\ UNCHANGED <<head, activated, inv, invLog, previews>>

----------------------------------------------------------------------------
(* Review and activation.                                                  *)

Needs == [submit |-> "SUBMIT", approve |-> "APPROVE", reject |-> "APPROVE",
          activate |-> "ACTIVATE", cancel |-> "EDIT", supersede |-> "EDIT"]

Allowed == [submit |-> {"DRAFT"}, approve |-> {"SUBMITTED"}, reject |-> {"SUBMITTED"},
            activate |-> {"APPROVED"}, cancel |-> {"DRAFT", "SUBMITTED"},
            supersede |-> {"DRAFT", "SUBMITTED", "APPROVED"}]

Becomes == [submit |-> "SUBMITTED", approve |-> "APPROVED", reject |-> "REJECTED",
            activate |-> "ACTIVATED", cancel |-> "CANCELED", supersede |-> "SUPERSEDED"]

SelfApproval_OnlyCreator(u, cr) == u = cr.created_by

SelfApproval(u, cr) == u \in {cr.created_by, cr.submitted_by}

\* transition up to the effect of the action
MayTransition(u, id, action) ==
  /\ Require(u, Needs[action])
  /\ Current(u, id)
  /\ crs[id].status \in Allowed[action]
  /\ action \in {"approve", "reject"} => ~SelfApproval(u, crs[id])
  /\ action \notin {"cancel", "supersede"} => Fresh(crs[id])

Moved(u, id, action) ==
  LET cr == crs[id]
      new == [cr EXCEPT !.status = Becomes[action],
                        !.submitted_by = IF action = "submit" THEN u ELSE @,
                        !.approved_by = IF action = "approve" THEN u ELSE @]
  IN Saved(id, new) /\ Returned(u, id, new)

Transition(u, id, action) ==
  /\ action # "activate"
  /\ MayTransition(u, id, action)
  /\ Moved(u, id, action)
  /\ Audit(u, Becomes[action], id, crs[id].proposed)
  /\ UNCHANGED <<head, versions, activated, inv, invLog, previews>>

\* RegistryAdmin.activate in the same transaction: the head moves by
\* compare-and-set and the activation is on the registry's own audit.
ActivateRegistry(u, id) ==
  LET cr == crs[id]
  IN /\ cr.kind # "INVENTORY"
     /\ MayTransition(u, id, "activate")
     /\ cr.proposed \in versions /\ head = cr.base
     /\ head' = cr.proposed
     /\ activated' = activated \cup {cr.proposed}
     /\ Moved(u, id, "activate")
     /\ Audit(u, IF cr.kind = "ROLLBACK" THEN "ROLLED_BACK" ELSE "ACTIVATED", id, cr.proposed)
     /\ UNCHANGED <<versions, inv, invLog, previews>>
\* the new inventory version and the head that points to it
Publish(id, records) ==
  /\ invLog' = Append(invLog, [id |-> id, records |-> records])
  /\ inv' = [revision |-> inv.revision + 1, records |-> records]

ActivateInventory(u, id) ==
  LET cr == crs[id]
      records == MergeRecords(inv.records, cr.inventory)
  IN /\ cr.kind = "INVENTORY"
     /\ MayTransition(u, id, "activate")
     /\ cr.proposed = cr.base /\ inv.revision = cr.base_inventory
     /\ Publish(id, records)
     /\ Moved(u, id, "activate")
     /\ Audit(u, "INVENTORY_ACTIVATED", id, cr.proposed)
     /\ UNCHANGED <<head, versions, activated, previews>>

----------------------------------------------------------------------------
(* Imports.                                                                *)

Preview(u, book) ==
  LET parsed == ParseInventory(book)
      merged == MergeRecords(inv.records, parsed.rows)
      rows == DOMAIN parsed.rows
      p == [created_by |-> u, base |-> head, base_inventory |-> inv.revision,
            rows |-> parsed.rows, invalid |-> parsed.invalid \/ parsed.conflicts,
            added |-> {c \in rows : c \notin DOMAIN inv.records},
            changed |-> {c \in rows : /\ c \in DOMAIN inv.records
                                      /\ ContentAt(inv.records, c) # ContentAt(merged, c)},
            confirmed_cr |-> NULL]
  IN /\ Require(u, "EDIT")
     /\ Len(previews) < MaxPreviews
     /\ previews' = Append(previews, p)
     /\ Audit(u, "IMPORT_PREVIEW", 0, head)
     /\ UNCHANGED <<head, versions, activated, inv, invLog, crs, seen>>

\* A repeated confirmation answers with the request it made the first time.
ConfirmAgain(u, p) ==
  /\ Require(u, "EDIT")
  /\ previews[p].created_by = u
  /\ previews[p].confirmed_cr # NULL
  /\ Reads(u, previews[p].confirmed_cr, crs[previews[p].confirmed_cr])
  /\ UNCHANGED <<head, versions, activated, inv, invLog, crs, previews, audit>>

\* Mutant: a confirmed preview may be confirmed again.
Confirmable_Twice(p) ==
  LET row == previews[p]
  IN ~row.invalid /\ row.rows # <<>> /\ row.base_inventory = inv.revision

Confirmable(p) ==
  LET row == previews[p]
  IN /\ row.confirmed_cr = NULL
     /\ ~row.invalid /\ row.rows # <<>>
     /\ row.base_inventory = inv.revision

\* IMPORT_CONFIRMED follows CREATE_DRAFT in the same transaction: one entry here.
ConfirmImport(u, p) ==
  LET base == previews[p].base
  IN /\ Require(u, "EDIT")
     /\ previews[p].created_by = u
     /\ Confirmable(p)
     /\ base # NULL
     /\ New(u, "INVENTORY", base, base, previews[p].rows, "IMPORT_CONFIRMED")
     /\ previews' = [previews EXCEPT ![p].confirmed_cr = Len(crs) + 1]
     /\ UNCHANGED <<head, activated, inv, invLog>>

----------------------------------------------------------------------------
Codes == UNION {DOMAIN ParseInventory(b).rows : b \in Workbooks}

Next == \E u \in Users :
  \/ \E base \in versions \cup {NULL} : Create(u, base)
  \/ \E base \in versions \cup {NULL}, target \in versions : Rollback(u, base, target)
  \/ \E id \in DOMAIN crs :
       \/ Get(u, id)
       \/ \E body \in EditableDefinitions(Codes) : Edit(u, id, body)
       \/ \E action \in DOMAIN Becomes : Transition(u, id, action)
       \/ ActivateRegistry(u, id)
       \/ ActivateInventory(u, id)
  \/ \E book \in Workbooks : Preview(u, book)
  \/ \E p \in DOMAIN previews : ConfirmAgain(u, p) \/ ConfirmImport(u, p)

Spec == Init /\ [][Next]_vars

----------------------------------------------------------------------------
(* Properties.                                                             *)

\* The change request whose activation is the step, when there is one.
Activating(id) == crs[id].status # "ACTIVATED" /\ crs'[id].status = "ACTIVATED"

\* Whatever is in force got there through a request somebody else reviewed:
\* the registry head and the inventory revision change only by activating one
\* request, which holds a submission and an approval by a user who neither
\* created nor submitted it, for exactly the content that takes effect; and
\* nobody edits, decides on or activates a request in a state they have not
\* seen.
ChangesAreReviewed ==
  [][/\ (head' # head \/ inv' # inv) =>
          \E id \in DOMAIN crs : LET cr == crs[id] IN
            /\ Activating(id)
            /\ cr.approved_by \notin {NULL, cr.created_by, cr.submitted_by}
            /\ [actor |-> cr.submitted_by, event |-> "SUBMITTED", id |-> id, after |-> cr.proposed]
                 \in audit
            /\ [actor |-> cr.approved_by, event |-> "APPROVED", id |-> id, after |-> cr.proposed]
                 \in audit
            /\ head' = cr.proposed
     /\ \A id \in DOMAIN crs : crs'[id] # crs[id] =>
          \E u \in Users : seen[u] = [id |-> id, cr |-> crs[id]] /\ seen'[u].cr = crs'[id]]_vars

\* What the reviewer was shown is what happens: activating an import changes
\* the content of exactly the systems its preview listed as added or changed,
\* and no import loses a system or its membership in a group it does not name.
PreviewWasTrue ==
  [][/\ \A id \in DOMAIN crs : (Activating(id) /\ crs[id].kind = "INVENTORY") =>
          \E p \in DOMAIN previews :
            /\ previews[p].confirmed_cr = id
            /\ {c \in DOMAIN inv'.records : ContentAt(inv'.records, c) # ContentAt(inv.records, c)}
                 = previews[p].added \cup previews[p].changed
     /\ \A c \in DOMAIN inv.records :
          /\ c \in DOMAIN inv'.records
          /\ DOMAIN inv.records[c].members \subseteq DOMAIN inv'.records[c].members]_vars

\* Whatever sequence of edits, imports and rollbacks led to it, a registered
\* version is bound only to company systems the inventory knows, and carries
\* neither the browser's mark in place of a credential nor a credential the
\* deployment did not put on that very system.
VersionsAreSound ==
  \A v \in versions : \A s \in DOMAIN v :
    /\ v[s].company_system_code \in DOMAIN inv.records \cup {NULL}
    /\ v[s].credential_ref \in {NULL, CredentialOf(Definition(Deployed), s)}

\* The rows of the administration keep their types, and every version that was
\* ever registered (RegistryAdministration.edit) is sound.
RegistryIsSound == TypeOK /\ VersionsAreSound
=============================================================================

---------------------------- MODULE RegistryProofs ----------------------------
(***************************************************************************)
(* Theorems about the System Registry: first its administration            *)
(* (RegistryAdmin), for every set of people, requests, spreadsheets and    *)
(* definitions; then its use by a Case (RegistryDispatch) and what an      *)
(* activation may change (RegistryModel), for every set of definitions,    *)
(* routes, tools and calls.                                                *)
(*                                                                         *)
(* Columns whose content no proof looks at are left untyped: a row is a    *)
(* record of its columns, whatever they hold.                              *)
(***************************************************************************)
EXTENDS RegistryAdmin, RegistryDispatch, FiniteSetTheorems, TLAPS

IsSeq(s) == \E S : s \in Seq(S)

LEMMA EmptyIsSeq == IsSeq(<<>>) /\ Len(<<>>) = 0 /\ DOMAIN <<>> = {}
  <1>1. <<>> \in Seq({})
    OBVIOUS
  <1>2. QED
    BY <1>1 DEF IsSeq

LEMMA SeqDomain ==
  ASSUME NEW s, IsSeq(s)
  PROVE  Len(s) \in Nat /\ DOMAIN s = 1..Len(s)
  BY DEF IsSeq

LEMMA Appended ==
  ASSUME NEW s, IsSeq(s), NEW e
  PROVE  LET a == Append(s, e) IN
         /\ IsSeq(a) /\ Len(a) = Len(s) + 1 /\ DOMAIN a = 1..(Len(s) + 1)
         /\ Len(s) \in Nat /\ DOMAIN s = 1..Len(s)
         /\ \A i \in DOMAIN s : a[i] = s[i]
         /\ a[Len(s) + 1] = e
  <1>1. PICK S : s \in Seq(S)
    BY DEF IsSeq
  <1>2. Append(s, e) \in Seq(S \cup {e})
    BY <1>1
  <1>3. QED
    BY <1>1, <1>2 DEF IsSeq

LEMMA Replaced ==
  ASSUME NEW s, IsSeq(s), NEW i \in DOMAIN s, NEW e
  PROVE  LET a == [s EXCEPT ![i] = e] IN
         /\ IsSeq(a) /\ Len(a) = Len(s) /\ DOMAIN a = DOMAIN s
         /\ \A k \in DOMAIN s : a[k] = IF k = i THEN e ELSE s[k]
  <1>1. PICK S : s \in Seq(S)
    BY DEF IsSeq
  <1>2. [s EXCEPT ![i] = e] \in Seq(S \cup {e})
    BY <1>1
  <1>3. QED
    BY <1>1, <1>2 DEF IsSeq

-----------------------------------------------------------------------------
(* Change requests                                                         *)

IsRequest(r) ==
  /\ r = [kind |-> r.kind, base |-> r.base, proposed |-> r.proposed,
          base_inventory |-> r.base_inventory, revision |-> r.revision, status |-> r.status,
          created_by |-> r.created_by, submitted_by |-> r.submitted_by,
          approved_by |-> r.approved_by, inventory |-> r.inventory]
  /\ r.revision \in Nat

RequestsOK == IsSeq(crs) /\ \A id \in DOMAIN crs : IsRequest(crs[id])

(* Who read a request at its current revision read its current content.    *)
SawIt(view, cr) ==
  /\ view.cr.revision \in Nat /\ view.cr.revision <= cr.revision
  /\ view.cr.revision = cr.revision => view.cr = cr

IsView(v) == v = [id |-> v.id, cr |-> v.cr] /\ v.id \in Nat

SeenOK ==
  /\ seen = [u \in Users |-> seen[u]]
  /\ \A u \in Users : /\ IsView(seen[u]) /\ seen[u].id <= Len(crs)
                      /\ seen[u].id # 0 => SawIt(seen[u], crs[seen[u].id])

Entry(who, event, id, after) == [actor |-> who, event |-> event, id |-> id, after |-> after]

(* A request under review holds the submission of its content, an approved *)
(* one also the approval by a third person.                                *)
Reviewed(id, r, log) ==
  /\ r.status \in {"SUBMITTED", "APPROVED"} =>
       Entry(r.submitted_by, "SUBMITTED", id, r.proposed) \in log
  /\ r.status = "APPROVED" =>
       /\ r.approved_by \in Users /\ r.approved_by \notin {r.created_by, r.submitted_by}
       /\ Entry(r.approved_by, "APPROVED", id, r.proposed) \in log

ReviewOK == \A id \in DOMAIN crs : Reviewed(id, crs[id], audit)

(* What a request imports does not change after its creation.              *)
SameImport(r, s) ==
  s.kind = r.kind /\ s.inventory = r.inventory /\ s.base_inventory = r.base_inventory

AdminInv == RequestsOK /\ SeenOK /\ ReviewOK

(* What the review property says of one step.                              *)
ReviewStep ==
  /\ (head' # head \/ inv' # inv) =>
       \E id \in DOMAIN crs : LET cr == crs[id] IN
         /\ Activating(id)
         /\ cr.approved_by \notin {NULL, cr.created_by, cr.submitted_by}
         /\ [actor |-> cr.submitted_by, event |-> "SUBMITTED", id |-> id, after |-> cr.proposed]
              \in audit
         /\ [actor |-> cr.approved_by, event |-> "APPROVED", id |-> id, after |-> cr.proposed]
              \in audit
         /\ head' = cr.proposed
  /\ \A id \in DOMAIN crs : crs'[id] # crs[id] =>
       \E u \in Users : seen[u] = [id |-> id, cr |-> crs[id]] /\ seen'[u].cr = crs'[id]

LEMMA AdminTyped ==
  ASSUME AdminInv
  PROVE  /\ IsSeq(crs) /\ Len(crs) \in Nat /\ DOMAIN crs = 1..Len(crs)
         /\ \A id \in DOMAIN crs : IsRequest(crs[id]) /\ crs[id].revision \in Nat
  BY SeqDomain DEF AdminInv, RequestsOK, IsRequest

(* A user reads a request; nobody else's view moves.                       *)
LEMMA ReadsView ==
  ASSUME AdminInv, NEW u \in Users, NEW id \in Nat, NEW cr, Reads(u, id, cr)
  PROVE  /\ seen' = [v \in Users |-> seen'[v]]
         /\ IsView(seen'[u]) /\ seen'[u].id = id /\ seen'[u].cr = cr
         /\ \A v \in Users \ {u} : seen'[v] = seen[v]
  <1>1. seen = [v \in Users |-> seen[v]]
    BY DEF AdminInv, SeenOK
  <1>2. seen' = [seen EXCEPT ![u] = [id |-> id, cr |-> cr]]
    BY DEF Reads
  <1>3. seen' = [v \in Users |-> IF v = u THEN [id |-> id, cr |-> cr] ELSE seen[v]]
    BY <1>1, <1>2
  <1>4. QED
    BY <1>3 DEF IsView

(* A new request is nobody's request yet but its author's.                 *)
LEMMA NewKeeps ==
  ASSUME AdminInv, NEW u \in Users, NEW kind, NEW base, NEW version, NEW rows, NEW event,
         New(u, kind, base, version, rows, event)
  PROVE  /\ AdminInv' /\ \A id \in DOMAIN crs : id \in DOMAIN crs' /\ crs'[id] = crs[id]
  <1> DEFINE cr == NewRequest(u, kind, base, version, rows)
             n == Len(crs) + 1
  <1>1. crs' = Append(crs, cr) /\ Reads(u, n, cr)
        /\ audit' = audit \cup {[actor |-> u, event |-> event, id |-> n, after |-> version]}
    BY DEF New, Audit
  <1>2. cr.status = "DRAFT" /\ cr.revision = 1 /\ IsRequest(cr)
    BY DEF NewRequest, IsRequest
  <1> HIDE DEF cr
  <1>3. /\ IsSeq(crs) /\ Len(crs) \in Nat /\ DOMAIN crs = 1..Len(crs)
        /\ IsSeq(crs') /\ Len(crs') = Len(crs) + 1 /\ DOMAIN crs' = 1..(Len(crs) + 1)
        /\ \A i \in DOMAIN crs : crs'[i] = crs[i]
        /\ crs'[Len(crs) + 1] = cr
    BY <1>1, AdminTyped, Appended
  <1>4. RequestsOK'
    BY <1>2, <1>3 DEF AdminInv, RequestsOK
  <1>5. ReviewOK'
    <2>1. \A i \in DOMAIN crs : Reviewed(i, crs[i], audit')
      BY <1>1 DEF AdminInv, ReviewOK, Reviewed
    <2>2. Reviewed(n, cr, audit')
      BY <1>2 DEF Reviewed
    <2>3. QED
      BY <1>3, <2>1, <2>2 DEF ReviewOK
  <1>6. SeenOK'
    <2>1. /\ seen' = [v \in Users |-> seen'[v]]
          /\ IsView(seen'[u]) /\ seen'[u].id = n /\ seen'[u].cr = cr
          /\ \A v \in Users \ {u} : seen'[v] = seen[v]
      BY <1>1, <1>3, ReadsView
    <2>2. \A v \in Users \ {u} :
            /\ IsView(seen'[v]) /\ seen'[v].id <= Len(crs')
            /\ seen'[v].id # 0 => SawIt(seen'[v], crs'[seen'[v].id])
      BY <1>3, <2>1 DEF AdminInv, SeenOK, IsView
    <2>3. SawIt(seen'[u], crs'[n]) /\ n <= Len(crs')
      BY <1>2, <1>3, <2>1 DEF SawIt
    <2>4. QED
      BY <2>1, <2>2, <2>3 DEF SeenOK
  <1>7. QED
    BY <1>3, <1>4, <1>5, <1>6 DEF AdminInv


(* The row a caller names with its revision is the row the caller read.    *)
LEMMA CurrentIsSeen ==
  ASSUME AdminInv, NEW u \in Users, NEW id \in DOMAIN crs, Current(u, id)
  PROVE  seen[u] = [id |-> id, cr |-> crs[id]]
  <1>1. IsView(seen[u]) /\ seen[u].id = id /\ id # 0 /\ SawIt(seen[u], crs[id])
    BY AdminTyped DEF AdminInv, SeenOK, Current
  <1>2. seen[u].cr = crs[id]
    BY <1>1 DEF SawIt, Current
  <1>3. QED
    BY <1>1, <1>2 DEF IsView

(* The row after a save, and its author's new view of it.                  *)
LEMMA SavedKeeps ==
  ASSUME AdminInv, NEW u \in Users, NEW id \in DOMAIN crs, NEW cr, IsRequest(cr),
         cr.revision = crs[id].revision, SameImport(crs[id], cr), Saved(id, cr),
         Returned(u, id, cr), audit \subseteq audit', Reviewed(id, cr, audit')
  PROVE  /\ AdminInv'
         /\ DOMAIN crs' = DOMAIN crs /\ \A k \in DOMAIN crs : k # id => crs'[k] = crs[k]
         /\ \A k \in DOMAIN crs : SameImport(crs[k], crs'[k])
         /\ crs'[id].status = cr.status /\ seen'[u].cr = crs'[id]
  <1>0. PICK m \in Nat : m = cr.revision + 1
    BY DEF IsRequest
  <1> DEFINE new == [cr EXCEPT !.revision = m]
  <1>1. crs' = [crs EXCEPT ![id] = new] /\ Reads(u, id, new)
    BY <1>0 DEF Saved, Returned
  <1>2. /\ IsRequest(new) /\ new.revision = m /\ new.status = cr.status
        /\ new.proposed = cr.proposed /\ new.created_by = cr.created_by
        /\ new.submitted_by = cr.submitted_by /\ new.approved_by = cr.approved_by
        /\ SameImport(cr, new)
    BY DEF IsRequest, SameImport
  <1> HIDE DEF new
  <1>3. /\ IsSeq(crs) /\ Len(crs) \in Nat /\ DOMAIN crs = 1..Len(crs)
        /\ IsSeq(crs') /\ Len(crs') = Len(crs) /\ DOMAIN crs' = DOMAIN crs
        /\ \A k \in DOMAIN crs : crs'[k] = IF k = id THEN new ELSE crs[k]
    BY <1>1, AdminTyped, Replaced
  <1>4. RequestsOK'
    BY <1>2, <1>3 DEF AdminInv, RequestsOK
  <1>5. ReviewOK'
    <2>1. \A k \in DOMAIN crs : Reviewed(k, crs[k], audit')
      BY DEF AdminInv, ReviewOK, Reviewed
    <2>2. Reviewed(id, new, audit')
      BY <1>2 DEF Reviewed
    <2>3. QED
      BY <1>3, <2>1, <2>2 DEF ReviewOK
  <1>6. /\ seen' = [v \in Users |-> seen'[v]]
        /\ IsView(seen'[u]) /\ seen'[u].id = id /\ seen'[u].cr = new
        /\ \A v \in Users \ {u} : seen'[v] = seen[v]
    BY <1>1, <1>3, ReadsView
  <1>7. SeenOK'
    <2>1. ASSUME NEW v \in Users \ {u}
          PROVE  /\ IsView(seen'[v]) /\ seen'[v].id <= Len(crs')
                 /\ seen'[v].id # 0 => SawIt(seen'[v], crs'[seen'[v].id])
      <3>1. /\ IsView(seen[v]) /\ seen[v].id \in Nat /\ seen[v].id <= Len(crs)
            /\ seen[v].id # 0 => SawIt(seen[v], crs[seen[v].id])
        BY DEF AdminInv, SeenOK, IsView
      <3>2. SawIt(seen[v], crs[id]) => SawIt(seen[v], new)
        BY <1>0, <1>2, AdminTyped DEF SawIt
      <3>3. seen[v].id # 0 => seen[v].id \in DOMAIN crs
        BY <1>3, <3>1
      <3>4. QED
        BY <1>3, <1>6, <3>1, <3>2, <3>3
    <2>2. SawIt(seen'[u], crs'[id]) /\ id <= Len(crs')
      BY <1>2, <1>3, <1>6 DEF SawIt
    <2>3. QED
      BY <1>6, <2>1, <2>2 DEF SeenOK
  <1>8. \A k \in DOMAIN crs : SameImport(crs[k], crs'[k])
    BY <1>2, <1>3 DEF SameImport
  <1>9. QED
    BY <1>2, <1>3, <1>4, <1>5, <1>6, <1>7, <1>8 DEF AdminInv

LEMMA Actions ==
  /\ DOMAIN Becomes = {"submit", "approve", "reject", "activate", "cancel", "supersede"}
  /\ Becomes["submit"] = "SUBMITTED" /\ Allowed["submit"] = {"DRAFT"}
  /\ Becomes["approve"] = "APPROVED" /\ Allowed["approve"] = {"SUBMITTED"}
  /\ Becomes["reject"] = "REJECTED" /\ Becomes["cancel"] = "CANCELED"
  /\ Becomes["supersede"] = "SUPERSEDED"
  /\ Becomes["activate"] = "ACTIVATED" /\ Allowed["activate"] = {"APPROVED"}
  BY DEF Becomes, Allowed

(* A transition in the hands of a user who read the request.               *)
LEMMA MovedKeeps ==
  ASSUME AdminInv, NEW u \in Users, NEW id \in DOMAIN crs, NEW action \in DOMAIN Becomes,
         MayTransition(u, id, action), Moved(u, id, action), audit \subseteq audit',
         action \in {"submit", "approve"} =>
           Entry(u, Becomes[action], id, crs[id].proposed) \in audit'
  PROVE  /\ AdminInv'
         /\ DOMAIN crs' = DOMAIN crs /\ \A k \in DOMAIN crs : k # id => crs'[k] = crs[k]
         /\ \A k \in DOMAIN crs : SameImport(crs[k], crs'[k])
         /\ crs'[id].status = Becomes[action] /\ seen'[u].cr = crs'[id]
         /\ seen[u] = [id |-> id, cr |-> crs[id]]
  <1> DEFINE cr == crs[id]
             by == IF action = "submit" THEN u ELSE cr.submitted_by
             ap == IF action = "approve" THEN u ELSE cr.approved_by
             to == Becomes[action]
             new == [cr EXCEPT !.status = to, !.submitted_by = by, !.approved_by = ap]
  <1>1. Saved(id, new) /\ Returned(u, id, new)
    BY DEF Moved
  <1>2. IsRequest(cr) /\ Reviewed(id, cr, audit) /\ Current(u, id)
        /\ cr.status \in Allowed[action] /\ (action = "approve" => ~SelfApproval(u, cr))
    BY DEF AdminInv, RequestsOK, ReviewOK, MayTransition
  <1> HIDE DEF cr
  <1>3. /\ IsRequest(new) /\ new.revision = cr.revision /\ new.status = Becomes[action]
        /\ new.proposed = cr.proposed /\ new.created_by = cr.created_by
        /\ new.submitted_by = by /\ new.approved_by = ap /\ SameImport(cr, new)
    <2> HIDE DEF by, ap, to
    <2>1. /\ IsRequest(new) /\ new.revision = cr.revision /\ new.status = to
          /\ new.proposed = cr.proposed /\ new.created_by = cr.created_by
          /\ new.submitted_by = by /\ new.approved_by = ap /\ SameImport(cr, new)
      <3> HIDE DEF new
      <3>1. new = [cr EXCEPT !.status = to, !.submitted_by = by, !.approved_by = ap]
        BY DEF new
      <3>2. cr = [kind |-> cr.kind, base |-> cr.base, proposed |-> cr.proposed,
                  base_inventory |-> cr.base_inventory, revision |-> cr.revision,
                  status |-> cr.status, created_by |-> cr.created_by,
                  submitted_by |-> cr.submitted_by, approved_by |-> cr.approved_by,
                  inventory |-> cr.inventory] /\ cr.revision \in Nat
        BY <1>2 DEF IsRequest
      <3>3. new = [kind |-> cr.kind, base |-> cr.base, proposed |-> cr.proposed,
                   base_inventory |-> cr.base_inventory, revision |-> cr.revision,
                   status |-> to, created_by |-> cr.created_by,
                   submitted_by |-> by, approved_by |-> ap, inventory |-> cr.inventory]
        BY <3>1, <3>2
      <3>4. QED
        BY <3>2, <3>3 DEF IsRequest, SameImport
    <2>2. QED
      BY <2>1 DEF to
  <1> HIDE DEF new
  <1>4. Reviewed(id, new, audit')
    <2>1. CASE action = "submit"
      BY <1>3, <2>1, Actions DEF Reviewed, cr
    <2>2. CASE action = "approve"
      <3>1. new.status = "APPROVED" /\ cr.status = "SUBMITTED" /\ new.submitted_by = cr.submitted_by
            /\ new.approved_by = u /\ u \notin {cr.created_by, cr.submitted_by}
        BY <1>2, <1>3, <2>2, Actions DEF SelfApproval
      <3>2. Entry(cr.submitted_by, "SUBMITTED", id, cr.proposed) \in audit'
        BY <1>2, <3>1 DEF Reviewed
      <3>3. Entry(u, "APPROVED", id, cr.proposed) \in audit'
        BY <2>2, Actions DEF cr
      <3>4. QED
        BY <1>3, <3>1, <3>2, <3>3 DEF Reviewed
    <2>3. CASE action \notin {"submit", "approve"}
      <3>1. new.status \notin {"SUBMITTED", "APPROVED"}
        BY <1>3, <2>3, Actions
      <3>2. QED
        BY <3>1 DEF Reviewed
    <2>4. QED
      BY <2>1, <2>2, <2>3
  <1>5. seen[u] = [id |-> id, cr |-> crs[id]]
    BY <1>2, CurrentIsSeen
  <1>6. QED
    BY <1>1, <1>3, <1>4, <1>5, SavedKeeps DEF cr


-----------------------------------------------------------------------------
(* Previews                                                                *)

IsPreview(v) ==
  v = [created_by |-> v.created_by, base |-> v.base, base_inventory |-> v.base_inventory,
       rows |-> v.rows, invalid |-> v.invalid, added |-> v.added, changed |-> v.changed,
       confirmed_cr |-> v.confirmed_cr]

(* The preview lists what its rows would add to and change in the records. *)
Lists(v, records) ==
  /\ v.added = {c \in DOMAIN v.rows : c \notin DOMAIN records}
  /\ v.changed = {c \in DOMAIN v.rows :
                    /\ c \in DOMAIN records
                    /\ ContentAt(records, c) # ContentAt(MergeRecords(records, v.rows), c)}

Imports(v, r) == r.inventory = v.rows /\ r.base_inventory = v.base_inventory

PreviewOK(v, rs, i) ==
  /\ IsPreview(v)
  /\ v.confirmed_cr # NULL => v.confirmed_cr \in DOMAIN rs
  /\ v.base_inventory \in Nat /\ v.base_inventory <= i.revision
  /\ v.base_inventory = i.revision => Lists(v, i.records)

(* A preview is true of the inventory it was made for, and an import was   *)
(* confirmed from one.                                                     *)
PreviewInv ==
  /\ IsSeq(previews) /\ inv.revision \in Nat
  /\ \A p \in DOMAIN previews : PreviewOK(previews[p], crs, inv)
  /\ \A id \in DOMAIN crs : crs[id].kind = "INVENTORY" =>
       \E p \in DOMAIN previews :
         previews[p].confirmed_cr = id /\ Imports(previews[p], crs[id])

Checked == AdminInv' /\ PreviewInv' /\ ReviewStep

(* Requests keep what they import, and previews stay.                      *)
LEMMA PreviewsStay ==
  ASSUME PreviewInv, UNCHANGED <<previews, inv>>, DOMAIN crs \subseteq DOMAIN crs',
         \A id \in DOMAIN crs : SameImport(crs[id], crs'[id]),
         \A id \in DOMAIN crs' \ DOMAIN crs : crs'[id].kind # "INVENTORY"
  PROVE  PreviewInv'
  <1>1. \A p \in DOMAIN previews : PreviewOK(previews[p], crs', inv)
    BY DEF PreviewInv, PreviewOK
  <1>2. \A id \in DOMAIN crs' : crs'[id].kind = "INVENTORY" =>
          \E p \in DOMAIN previews :
            previews[p].confirmed_cr = id /\ Imports(previews[p], crs'[id])
    BY DEF PreviewInv, SameImport, Imports
  <1>3. QED
    BY <1>1, <1>2 DEF PreviewInv

(* A step of administration that is not an activation.                     *)
LEMMA DraftKeeps ==
  ASSUME AdminInv, PreviewInv, NEW u \in Users, NEW base, NEW target,
         Create(u, base) \/ Rollback(u, base, target)
  PROVE  Checked
  <1>1. PICK kind, version, event :
          /\ kind \in {"CONFIGURATION", "ROLLBACK"}
          /\ New(u, kind, base, version, <<>>, event)
    BY DEF Create, Rollback
  <1>2. UNCHANGED <<head, inv, previews>>
    BY DEF Create, Rollback
  <1>3. AdminInv' /\ \A id \in DOMAIN crs : id \in DOMAIN crs' /\ crs'[id] = crs[id]
    BY <1>1, NewKeeps
  <1>4. \A id \in DOMAIN crs' \ DOMAIN crs : crs'[id].kind # "INVENTORY"
    <2> DEFINE cr == NewRequest(u, kind, base, version, <<>>)
    <2>1. crs' = Append(crs, cr) /\ cr.kind # "INVENTORY"
      BY <1>1 DEF New, NewRequest
    <2> HIDE DEF cr
    <2>2. QED
      BY <2>1, AdminTyped, Appended
  <1>5. PreviewInv'
    BY <1>2, <1>3, <1>4, PreviewsStay DEF SameImport
  <1>6. QED
    BY <1>2, <1>3, <1>5 DEF Checked, ReviewStep

LEMMA ReadKeeps ==
  ASSUME AdminInv, PreviewInv, NEW u \in Users, NEW id \in DOMAIN crs, Reads(u, id, crs[id]),
         UNCHANGED <<head, inv, crs, previews, audit>>
  PROVE  Checked
  <1>1. /\ IsSeq(crs) /\ Len(crs) \in Nat /\ DOMAIN crs = 1..Len(crs)
        /\ crs[id].revision \in Nat
    BY AdminTyped
  <1>2. /\ seen' = [v \in Users |-> seen'[v]]
        /\ IsView(seen'[u]) /\ seen'[u].id = id /\ seen'[u].cr = crs[id]
        /\ \A v \in Users \ {u} : seen'[v] = seen[v]
    BY <1>1, ReadsView
  <1>3. SawIt(seen'[u], crs[id]) /\ id <= Len(crs)
    BY <1>1, <1>2 DEF SawIt
  <1>4. SeenOK'
    BY <1>2, <1>3 DEF AdminInv, SeenOK
  <1>5. AdminInv'
    BY <1>4 DEF AdminInv, RequestsOK, ReviewOK
  <1>6. PreviewInv'
    BY DEF PreviewInv
  <1>7. QED
    BY <1>5, <1>6 DEF Checked, ReviewStep

LEMMA EditKeeps ==
  ASSUME AdminInv, PreviewInv, NEW u \in Users, NEW id \in DOMAIN crs, NEW body, Edit(u, id, body)
  PROVE  Checked
  <1> DEFINE version == Edited(crs[id].proposed, body)
             old == crs[id]
             cr == [old EXCEPT !.proposed = version]
  <1>1. /\ Current(u, id) /\ old.status = "DRAFT" /\ Saved(id, cr) /\ Returned(u, id, cr)
        /\ audit \subseteq audit' /\ UNCHANGED <<head, inv, previews>>
    BY DEF Edit, Editable, Audit
  <1>2. IsRequest(old)
    BY AdminTyped
  <1> HIDE DEF version, old
  <1>3. IsRequest(cr) /\ cr.revision = old.revision /\ cr.status = old.status /\ SameImport(old, cr)
    BY <1>2 DEF IsRequest, SameImport
  <1> HIDE DEF cr
  <1>4. Reviewed(id, cr, audit')
    BY <1>1, <1>3 DEF Reviewed
  <1>5. /\ AdminInv' /\ DOMAIN crs' = DOMAIN crs
        /\ \A k \in DOMAIN crs : k # id => crs'[k] = crs[k]
        /\ \A k \in DOMAIN crs : SameImport(crs[k], crs'[k])
        /\ seen'[u].cr = crs'[id]
    BY <1>1, <1>3, <1>4, SavedKeeps DEF old
  <1>6. seen[u] = [id |-> id, cr |-> crs[id]]
    BY <1>1, CurrentIsSeen
  <1>7. PreviewInv'
    BY <1>1, <1>5, PreviewsStay
  <1>8. QED
    BY <1>1, <1>5, <1>6, <1>7 DEF Checked, ReviewStep

LEMMA TransitionKeeps ==
  ASSUME AdminInv, PreviewInv, NEW u \in Users, NEW id \in DOMAIN crs, NEW action \in DOMAIN Becomes,
         Transition(u, id, action)
  PROVE  Checked
  <1>1. /\ MayTransition(u, id, action) /\ Moved(u, id, action)
        /\ audit' = audit \cup {Entry(u, Becomes[action], id, crs[id].proposed)}
        /\ UNCHANGED <<head, inv, previews>>
    BY DEF Transition, Audit, Entry
  <1>2. /\ audit \subseteq audit' /\ Entry(u, Becomes[action], id, crs[id].proposed) \in audit'
    BY <1>1
  <1>3. /\ AdminInv' /\ DOMAIN crs' = DOMAIN crs
        /\ \A k \in DOMAIN crs : k # id => crs'[k] = crs[k]
        /\ \A k \in DOMAIN crs : SameImport(crs[k], crs'[k])
        /\ seen'[u].cr = crs'[id] /\ seen[u] = [id |-> id, cr |-> crs[id]]
    BY <1>1, <1>2, MovedKeeps
  <1>4. PreviewInv'
    BY <1>1, <1>3, PreviewsStay
  <1>5. QED
    BY <1>1, <1>3, <1>4 DEF Checked, ReviewStep


(* An activation takes effect for the request it was reviewed as.          *)
LEMMA ActivationMoves ==
  ASSUME AdminInv, NEW u \in Users, NEW id \in DOMAIN crs, MayTransition(u, id, "activate"),
         Moved(u, id, "activate"), audit \subseteq audit', head' = crs[id].proposed
  PROVE  /\ AdminInv' /\ ReviewStep /\ DOMAIN crs' = DOMAIN crs
         /\ \A k \in DOMAIN crs : SameImport(crs[k], crs'[k])
  <1> DEFINE cr == crs[id]
  <1>1. PICK action \in DOMAIN Becomes : action = "activate"
    BY Actions
  <1>2. /\ AdminInv' /\ DOMAIN crs' = DOMAIN crs
        /\ \A k \in DOMAIN crs : k # id => crs'[k] = crs[k]
        /\ \A k \in DOMAIN crs : SameImport(crs[k], crs'[k])
        /\ crs'[id].status = "ACTIVATED" /\ seen'[u].cr = crs'[id]
        /\ seen[u] = [id |-> id, cr |-> crs[id]]
    BY <1>1, MovedKeeps, Actions
  <1>3. cr.status = "APPROVED" /\ Reviewed(id, cr, audit)
    BY Actions DEF MayTransition, AdminInv, ReviewOK
  <1>4. /\ Activating(id)
        /\ cr.approved_by \notin {NULL, cr.created_by, cr.submitted_by}
        /\ Entry(cr.submitted_by, "SUBMITTED", id, cr.proposed) \in audit
        /\ Entry(cr.approved_by, "APPROVED", id, cr.proposed) \in audit
    BY <1>2, <1>3, AdminAssumption DEF Reviewed, Activating
  <1>5. ReviewStep
    BY <1>2, <1>4 DEF ReviewStep, Entry
  <1>6. QED
    BY <1>2, <1>5

LEMMA ActivateRegistryKeeps ==
  ASSUME AdminInv, PreviewInv, NEW u \in Users, NEW id \in DOMAIN crs, ActivateRegistry(u, id)
  PROVE  Checked
  <1>1. /\ MayTransition(u, id, "activate") /\ Moved(u, id, "activate") /\ audit \subseteq audit'
        /\ head' = crs[id].proposed /\ UNCHANGED <<inv, previews>>
    BY DEF ActivateRegistry, Audit
  <1>2. /\ AdminInv' /\ ReviewStep /\ DOMAIN crs' = DOMAIN crs
        /\ \A k \in DOMAIN crs : SameImport(crs[k], crs'[k])
    BY <1>1, ActivationMoves
  <1>3. PreviewInv'
    BY <1>1, <1>2, PreviewsStay
  <1>4. QED
    BY <1>2, <1>3 DEF Checked

LEMMA ActivateInventoryKeeps ==
  ASSUME AdminInv, PreviewInv, NEW u \in Users, NEW id \in DOMAIN crs, ActivateInventory(u, id)
  PROVE  Checked
  <1>1. /\ MayTransition(u, id, "activate") /\ Moved(u, id, "activate") /\ audit \subseteq audit'
        /\ crs[id].proposed = crs[id].base /\ UNCHANGED <<head, previews>>
        /\ inv' = [revision |-> inv.revision + 1,
                   records |-> MergeRecords(inv.records, crs[id].inventory)]
    BY DEF ActivateInventory, Publish, Audit
  <1>2. head' = crs[id].proposed
    BY <1>1 DEF MayTransition, Fresh
  <1>3. /\ AdminInv' /\ ReviewStep /\ DOMAIN crs' = DOMAIN crs
        /\ \A k \in DOMAIN crs : SameImport(crs[k], crs'[k])
    BY <1>1, <1>2, ActivationMoves
  <1>4. inv.revision \in Nat /\ inv'.revision = inv.revision + 1
    BY <1>1 DEF PreviewInv
  <1>5. \A p \in DOMAIN previews : PreviewOK(previews[p], crs', inv')
    BY <1>3, <1>4 DEF PreviewInv, PreviewOK
  <1>6. \A k \in DOMAIN crs : crs'[k].kind = "INVENTORY" =>
          \E p \in DOMAIN previews :
            previews[p].confirmed_cr = k /\ Imports(previews[p], crs'[k])
    BY <1>3 DEF PreviewInv, SameImport, Imports
  <1>7. PreviewInv'
    BY <1>1, <1>3, <1>4, <1>5, <1>6 DEF PreviewInv
  <1>8. QED
    BY <1>3, <1>7 DEF Checked

LEMMA PreviewKeeps ==
  ASSUME AdminInv, PreviewInv, NEW u \in Users, NEW book, Preview(u, book)
  PROVE  Checked
  <1> DEFINE parsed == ParseInventory(book)
             rows == DOMAIN parsed.rows
             v == [created_by |-> u, base |-> head, base_inventory |-> inv.revision,
                   rows |-> parsed.rows, invalid |-> parsed.invalid \/ parsed.conflicts,
                   added |-> {c \in rows : c \notin DOMAIN inv.records},
                   changed |-> {c \in rows :
                     /\ c \in DOMAIN inv.records
                     /\ ContentAt(inv.records, c)
                          # ContentAt(MergeRecords(inv.records, parsed.rows), c)},
                   confirmed_cr |-> NULL]
  <1>1. /\ previews' = Append(previews, v) /\ audit \subseteq audit'
        /\ UNCHANGED <<head, inv, crs, seen>>
    BY DEF Preview, Audit
  <1> HIDE DEF parsed
  <1>2. PreviewOK(v, crs, inv)
    BY DEF PreviewOK, IsPreview, Lists, PreviewInv
  <1> HIDE DEF v
  <1>3. /\ IsSeq(previews') /\ DOMAIN previews' = 1..(Len(previews) + 1)
        /\ Len(previews) \in Nat /\ DOMAIN previews = 1..Len(previews)
        /\ \A p \in DOMAIN previews : previews'[p] = previews[p]
        /\ previews'[Len(previews) + 1] = v
    BY <1>1, Appended DEF PreviewInv
  <1>4. \A p \in DOMAIN previews' : PreviewOK(previews'[p], crs, inv)
    BY <1>2, <1>3 DEF PreviewInv
  <1>5. DOMAIN previews \subseteq DOMAIN previews'
    BY <1>3
  <1>6. \A id \in DOMAIN crs : crs[id].kind = "INVENTORY" =>
          \E p \in DOMAIN previews' :
            previews'[p].confirmed_cr = id /\ Imports(previews'[p], crs[id])
    BY <1>3, <1>5 DEF PreviewInv
  <1>7. PreviewInv'
    BY <1>1, <1>3, <1>4, <1>6 DEF PreviewInv
  <1>8. AdminInv'
    BY <1>1 DEF AdminInv, RequestsOK, SeenOK, ReviewOK, Reviewed
  <1>9. QED
    BY <1>1, <1>7, <1>8 DEF Checked, ReviewStep

LEMMA ConfirmKeeps ==
  ASSUME AdminInv, PreviewInv, NEW u \in Users, NEW p \in DOMAIN previews, ConfirmImport(u, p)
  PROVE  Checked
  <1> DEFINE base == previews[p].base
             rows == previews[p].rows
             n == Len(crs) + 1
             cr == NewRequest(u, "INVENTORY", base, base, rows)
             old == previews[p]
             new == [old EXCEPT !.confirmed_cr = n]
  <1>1. /\ New(u, "INVENTORY", base, base, rows, "IMPORT_CONFIRMED")
        /\ old.confirmed_cr = NULL /\ old.base_inventory = inv.revision
        /\ previews' = [previews EXCEPT ![p].confirmed_cr = n]
        /\ UNCHANGED <<head, inv>>
    BY DEF ConfirmImport, Confirmable
  <1>2. AdminInv' /\ \A id \in DOMAIN crs : id \in DOMAIN crs' /\ crs'[id] = crs[id]
    BY <1>1, NewKeeps
  <1>3. crs' = Append(crs, cr) /\ cr.inventory = rows /\ cr.base_inventory = inv.revision
    BY <1>1 DEF New, NewRequest
  <1> HIDE DEF cr
  <1>4. /\ Len(crs) \in Nat /\ DOMAIN crs = 1..Len(crs) /\ DOMAIN crs' = 1..n /\ crs'[n] = cr
    BY <1>3, AdminTyped, Appended
  <1>5. PreviewOK(old, crs, inv) /\ IsSeq(previews)
    BY DEF PreviewInv
  <1>6. previews' = [previews EXCEPT ![p] = new]
    BY <1>1, <1>5 DEF IsSeq
  <1> HIDE DEF old
  <1>7. /\ IsPreview(new) /\ new.confirmed_cr = n /\ new.rows = old.rows
        /\ new.base_inventory = old.base_inventory /\ new.added = old.added
        /\ new.changed = old.changed
    BY <1>5 DEF PreviewOK, IsPreview
  <1> HIDE DEF new
  <1>8. /\ IsSeq(previews') /\ DOMAIN previews' = DOMAIN previews
        /\ \A q \in DOMAIN previews : previews'[q] = IF q = p THEN new ELSE previews[q]
    BY <1>5, <1>6, Replaced
  <1>9. PreviewOK(new, crs', inv)
    BY <1>4, <1>5, <1>7 DEF PreviewOK, Lists
  <1>10. \A q \in DOMAIN previews' : PreviewOK(previews'[q], crs', inv)
    BY <1>2, <1>8, <1>9 DEF PreviewInv, PreviewOK
  <1>11. ASSUME NEW id \in DOMAIN crs', crs'[id].kind = "INVENTORY"
         PROVE  \E q \in DOMAIN previews' :
                  previews'[q].confirmed_cr = id /\ Imports(previews'[q], crs'[id])
    <2>1. CASE id = n
      BY <1>1, <1>3, <1>4, <1>7, <1>8, <2>1 DEF Imports, old
    <2>2. CASE id # n
      <3>1. id \in DOMAIN crs /\ crs'[id] = crs[id] /\ id \in Nat
        BY <1>2, <1>4, <2>2
      <3>2. PICK q \in DOMAIN previews :
              previews[q].confirmed_cr = id /\ Imports(previews[q], crs[id])
        BY <1>11, <3>1 DEF PreviewInv
      <3>3. q # p
        BY <1>1, <3>1, <3>2, AdminAssumption DEF old
      <3>4. QED
        BY <1>8, <3>1, <3>2, <3>3
    <2>3. QED
      BY <2>1, <2>2
  <1>12. PreviewInv'
    BY <1>1, <1>8, <1>10, <1>11 DEF PreviewInv
  <1>13. QED
    BY <1>1, <1>2, <1>12 DEF Checked, ReviewStep


-----------------------------------------------------------------------------
(* The registry's administration as a whole                                *)

LEMMA InitAdmin ==
  Init => AdminInv /\ PreviewInv
  <1> SUFFICES ASSUME Init PROVE AdminInv /\ PreviewInv
    OBVIOUS
  <1>1. crs = <<>> /\ previews = <<>> /\ inv.revision = 0
        /\ seen = [u \in Users |-> [id |-> 0, cr |-> NULL]]
    BY DEF Init
  <1>2. RequestsOK /\ ReviewOK
    BY <1>1, EmptyIsSeq DEF RequestsOK, ReviewOK
  <1>3. SeenOK
    BY <1>1, EmptyIsSeq DEF SeenOK, IsView
  <1>4. PreviewInv
    BY <1>1, EmptyIsSeq DEF PreviewInv
  <1>5. QED
    BY <1>2, <1>3, <1>4 DEF AdminInv

LEMMA NextAdmin ==
  AdminInv /\ PreviewInv /\ [Next]_vars => Checked
  <1> SUFFICES ASSUME AdminInv, PreviewInv, [Next]_vars PROVE Checked
    OBVIOUS
  <1>1. CASE UNCHANGED vars
    <2>1. AdminInv' /\ PreviewInv'
      BY <1>1 DEF vars, AdminInv, PreviewInv, RequestsOK, SeenOK, ReviewOK
    <2>2. QED
      BY <1>1, <2>1 DEF vars, Checked, ReviewStep
  <1>2. CASE Next
    <2>1. PICK u \in Users :
            \/ \E base \in versions \cup {NULL} : Create(u, base)
            \/ \E base \in versions \cup {NULL}, target \in versions : Rollback(u, base, target)
            \/ \E id \in DOMAIN crs :
                 \/ Get(u, id)
                 \/ \E body \in EditableDefinitions(Codes) : Edit(u, id, body)
                 \/ \E action \in DOMAIN Becomes : Transition(u, id, action)
                 \/ ActivateRegistry(u, id)
                 \/ ActivateInventory(u, id)
            \/ \E book \in Workbooks : Preview(u, book)
            \/ \E p \in DOMAIN previews : ConfirmAgain(u, p) \/ ConfirmImport(u, p)
      BY <1>2, Zenon DEF Next
    <2>2. ASSUME NEW base, NEW target, Create(u, base) \/ Rollback(u, base, target) PROVE Checked
      BY <2>2, DraftKeeps
    <2>3. ASSUME NEW id \in DOMAIN crs, Get(u, id) PROVE Checked
      BY <2>3, ReadKeeps DEF Get
    <2>4. ASSUME NEW id \in DOMAIN crs, NEW body, Edit(u, id, body) PROVE Checked
      BY <2>4, EditKeeps
    <2>5. ASSUME NEW id \in DOMAIN crs, NEW action \in DOMAIN Becomes, Transition(u, id, action)
          PROVE  Checked
      BY <2>5, TransitionKeeps
    <2>6. ASSUME NEW id \in DOMAIN crs, ActivateRegistry(u, id) \/ ActivateInventory(u, id)
          PROVE  Checked
      BY <2>6, ActivateRegistryKeeps, ActivateInventoryKeeps
    <2>7. ASSUME NEW book, Preview(u, book) PROVE Checked
      BY <2>7, PreviewKeeps
    <2>8. ASSUME NEW p \in DOMAIN previews, ConfirmAgain(u, p) PROVE Checked
      <3>1. PICK id : id = previews[p].confirmed_cr
        OBVIOUS
      <3>2. id \in DOMAIN crs /\ Reads(u, id, crs[id]) /\ UNCHANGED <<head, inv, crs, previews, audit>>
        BY <2>8, <3>1 DEF ConfirmAgain, PreviewInv, PreviewOK
      <3>3. QED
        BY <3>2, ReadKeeps
    <2>9. ASSUME NEW p \in DOMAIN previews, ConfirmImport(u, p) PROVE Checked
      BY <2>9, ConfirmKeeps
    <2>10. QED
      BY <2>1, <2>2, <2>3, <2>4, <2>5, <2>6, <2>7, <2>8, <2>9, Zenon
  <1>3. QED
    BY <1>1, <1>2

(* Whatever is in force in the registry or the inventory was submitted and *)
(* then approved by a third person, as audited, with exactly the content   *)
(* that takes effect (RegistryAdministration.transition); and a request is *)
(* edited, decided on or activated only by a person whose last read of it  *)
(* is its current content, for any number of people and requests.          *)
THEOREM ChangesReviewed == Spec => ChangesAreReviewed
  <1>1. Init => AdminInv /\ PreviewInv
    BY InitAdmin
  <1>2. AdminInv /\ PreviewInv /\ [Next]_vars => AdminInv' /\ PreviewInv' /\ ReviewStep
    BY NextAdmin DEF Checked
  <1>3. ChangesAreReviewed <=> [][ReviewStep]_vars
    BY PTL DEF ChangesAreReviewed, ReviewStep
  <1>4. QED
    BY <1>1, <1>2, <1>3, PTL DEF Spec

-----------------------------------------------------------------------------
(* Imports take effect as previewed                                        *)

PreviewStep ==
  /\ \A id \in DOMAIN crs : (Activating(id) /\ crs[id].kind = "INVENTORY") =>
       \E p \in DOMAIN previews :
         /\ previews[p].confirmed_cr = id
         /\ {c \in DOMAIN inv'.records : ContentAt(inv'.records, c) # ContentAt(inv.records, c)}
              = previews[p].added \cup previews[p].changed
  /\ \A c \in DOMAIN inv.records :
       /\ c \in DOMAIN inv'.records
       /\ DOMAIN inv.records[c].members \subseteq DOMAIN inv'.records[c].members

(* Merging rows changes the content of the systems a preview lists, and    *)
(* takes away neither a system nor a membership.                           *)
LEMMA MergeAsListed ==
  ASSUME NEW records, NEW v, Lists(v, records)
  PROVE  LET merged == MergeRecords(records, v.rows) IN
         /\ {c \in DOMAIN merged : ContentAt(merged, c) # ContentAt(records, c)} = v.added \cup v.changed
         /\ \A c \in DOMAIN records :
              c \in DOMAIN merged /\ DOMAIN records[c].members \subseteq DOMAIN merged[c].members
  <1> DEFINE merged == MergeRecords(records, v.rows)
  <1>1. DOMAIN merged = DOMAIN records \cup DOMAIN v.rows
    BY DEF MergeRecords
  <1>2. \A c \in DOMAIN records \ DOMAIN v.rows : merged[c] = records[c]
    BY DEF MergeRecords
  <1>3. \A c \in DOMAIN records \ DOMAIN v.rows : ContentAt(merged, c) = ContentAt(records, c)
    BY <1>1, <1>2 DEF ContentAt
  <1>4. \A c \in DOMAIN v.rows \ DOMAIN records :
          ContentAt(merged, c) # {} /\ ContentAt(records, c) = {}
    BY <1>1 DEF ContentAt
  <1>5. ASSUME NEW c \in DOMAIN records
        PROVE  DOMAIN records[c].members \subseteq DOMAIN merged[c].members
    <2>1. CASE c \notin DOMAIN v.rows
      BY <1>2, <2>1
    <2>2. CASE c \in DOMAIN v.rows
      BY <2>2 DEF MergeRecords
    <2>3. QED
      BY <2>1, <2>2
  <1> HIDE DEF merged
  <1>6. v.added = DOMAIN v.rows \ DOMAIN records
        /\ v.changed = {c \in DOMAIN v.rows : c \in DOMAIN records
                          /\ ContentAt(records, c) # ContentAt(merged, c)}
    BY DEF Lists, merged
  <1>7. {c \in DOMAIN merged : ContentAt(merged, c) # ContentAt(records, c)} = v.added \cup v.changed
    BY <1>1, <1>3, <1>4, <1>6
  <1>8. QED
    BY <1>1, <1>5, <1>7 DEF merged


(* Only the activation of an import touches the inventory or puts an       *)
(* import into effect.                                                     *)
QuietStep == inv' = inv /\ \A id \in DOMAIN crs : crs[id].kind = "INVENTORY" => ~Activating(id)

LEMMA QuietIsTrue ==
  QuietStep => PreviewStep
  BY DEF QuietStep, PreviewStep

LEMMA NewIsQuiet ==
  ASSUME AdminInv, NEW u \in Users, NEW kind, NEW base, NEW version, NEW rows, NEW event,
         New(u, kind, base, version, rows, event), inv' = inv
  PROVE  QuietStep
  <1>1. \A id \in DOMAIN crs : crs'[id] = crs[id]
    BY NewKeeps
  <1>2. QED
    BY <1>1 DEF QuietStep, Activating

LEMMA EditIsQuiet ==
  ASSUME AdminInv, NEW u \in Users, NEW id \in DOMAIN crs, NEW body, Edit(u, id, body)
  PROVE  QuietStep
  <1> DEFINE version == Edited(crs[id].proposed, body)
             old == crs[id]
             cr == [old EXCEPT !.proposed = version]
  <1>1. old.status = "DRAFT" /\ Saved(id, cr) /\ UNCHANGED inv /\ IsRequest(old) /\ IsSeq(crs)
    BY AdminTyped DEF Edit, Editable
  <1>2. PICK m \in Nat : m = old.revision + 1
    BY <1>1 DEF IsRequest
  <1> DEFINE new == [cr EXCEPT !.revision = m]
  <1> HIDE DEF version
  <1>3. cr.revision = old.revision /\ new.status = "DRAFT"
    <2> HIDE DEF old
    <2>1. QED
      BY <1>1 DEF IsRequest
  <1>4. crs' = [crs EXCEPT ![id] = new]
    BY <1>1, <1>2, <1>3 DEF Saved
  <1> HIDE DEF new
  <1>5. \A k \in DOMAIN crs : crs'[k] = IF k = id THEN new ELSE crs[k]
    BY <1>1, <1>4, Replaced
  <1>6. QED
    BY <1>1, <1>3, <1>5 DEF QuietStep, Activating

LEMMA TransitionIsQuiet ==
  ASSUME AdminInv, NEW u \in Users, NEW id \in DOMAIN crs, NEW action \in DOMAIN Becomes,
         Transition(u, id, action)
  PROVE  QuietStep
  <1>1. /\ MayTransition(u, id, action) /\ Moved(u, id, action) /\ UNCHANGED inv
        /\ audit' = audit \cup {Entry(u, Becomes[action], id, crs[id].proposed)}
        /\ action # "activate"
    BY DEF Transition, Audit, Entry
  <1>2. /\ audit \subseteq audit' /\ Entry(u, Becomes[action], id, crs[id].proposed) \in audit'
    BY <1>1
  <1>3. /\ \A k \in DOMAIN crs : k # id => crs'[k] = crs[k]
        /\ crs'[id].status = Becomes[action]
    BY <1>1, <1>2, MovedKeeps
  <1>4. Becomes[action] # "ACTIVATED"
    BY <1>1, Actions
  <1>5. QED
    BY <1>1, <1>3, <1>4 DEF QuietStep, Activating

LEMMA ActivationsMove ==
  ASSUME AdminInv, NEW u \in Users, NEW id \in DOMAIN crs, MayTransition(u, id, "activate"),
         Moved(u, id, "activate"), audit \subseteq audit'
  PROVE  \A k \in DOMAIN crs : k # id => crs'[k] = crs[k]
  <1>1. PICK action \in DOMAIN Becomes : action = "activate"
    BY Actions
  <1>2. QED
    BY <1>1, MovedKeeps

LEMMA ImportIsTrue ==
  ASSUME AdminInv, PreviewInv, NEW u \in Users, NEW id \in DOMAIN crs, ActivateInventory(u, id)
  PROVE  PreviewStep
  <1>1. /\ MayTransition(u, id, "activate") /\ Moved(u, id, "activate") /\ audit \subseteq audit'
        /\ crs[id].kind = "INVENTORY" /\ inv.revision = crs[id].base_inventory
        /\ inv'.records = MergeRecords(inv.records, crs[id].inventory)
    BY DEF ActivateInventory, Publish, Audit
  <1>2. \A k \in DOMAIN crs : k # id => crs'[k] = crs[k]
    BY <1>1, ActivationsMove
  <1>3. PICK p \in DOMAIN previews : previews[p].confirmed_cr = id /\ Imports(previews[p], crs[id])
    BY <1>1 DEF PreviewInv
  <1>4. Lists(previews[p], inv.records) /\ crs[id].inventory = previews[p].rows
    BY <1>1, <1>3 DEF PreviewInv, PreviewOK, Imports
  <1>5. PICK v : v = previews[p]
    OBVIOUS
  <1>6. /\ {c \in DOMAIN inv'.records : ContentAt(inv'.records, c) # ContentAt(inv.records, c)}
             = v.added \cup v.changed
        /\ \A c \in DOMAIN inv.records :
             /\ c \in DOMAIN inv'.records
             /\ DOMAIN inv.records[c].members \subseteq DOMAIN inv'.records[c].members
    <2>1. PICK r, m : r = inv.records /\ m = MergeRecords(r, v.rows)
      OBVIOUS
    <2>2. /\ {c \in DOMAIN m : ContentAt(m, c) # ContentAt(r, c)} = v.added \cup v.changed
          /\ \A c \in DOMAIN r : c \in DOMAIN m /\ DOMAIN r[c].members \subseteq DOMAIN m[c].members
      BY <1>4, <1>5, <2>1, MergeAsListed
    <2>3. m = inv'.records
      BY <1>1, <1>4, <1>5, <2>1
    <2>4. QED
      BY <2>1, <2>2, <2>3
  <1>7. \A k \in DOMAIN crs : Activating(k) => k = id
    BY <1>2 DEF Activating
  <1>8. QED
    BY <1>3, <1>5, <1>6, <1>7 DEF PreviewStep

LEMMA NextImports ==
  AdminInv /\ PreviewInv /\ [Next]_vars => PreviewStep
  <1> SUFFICES ASSUME AdminInv, PreviewInv, [Next]_vars PROVE PreviewStep
    OBVIOUS
  <1>1. CASE UNCHANGED vars
    BY <1>1, QuietIsTrue DEF vars, QuietStep, Activating
  <1>2. CASE Next
    <2>1. PICK u \in Users :
            \/ \E base \in versions \cup {NULL} : Create(u, base)
            \/ \E base \in versions \cup {NULL}, target \in versions : Rollback(u, base, target)
            \/ \E id \in DOMAIN crs :
                 \/ Get(u, id)
                 \/ \E body \in EditableDefinitions(Codes) : Edit(u, id, body)
                 \/ \E action \in DOMAIN Becomes : Transition(u, id, action)
                 \/ ActivateRegistry(u, id)
                 \/ ActivateInventory(u, id)
            \/ \E book \in Workbooks : Preview(u, book)
            \/ \E p \in DOMAIN previews : ConfirmAgain(u, p) \/ ConfirmImport(u, p)
      BY <1>2, Zenon DEF Next
    <2>2. ASSUME NEW base, NEW target, Create(u, base) \/ Rollback(u, base, target) PROVE QuietStep
      <3>1. PICK kind, version, event : New(u, kind, base, version, <<>>, event)
        BY <2>2 DEF Create, Rollback
      <3>2. inv' = inv
        BY <2>2 DEF Create, Rollback
      <3>3. QED
        BY <3>1, <3>2, NewIsQuiet
    <2>3. ASSUME NEW id \in DOMAIN crs, Get(u, id) PROVE QuietStep
      BY <2>3 DEF Get, QuietStep, Activating
    <2>4. ASSUME NEW id \in DOMAIN crs, NEW body, Edit(u, id, body) PROVE QuietStep
      BY <2>4, EditIsQuiet
    <2>5. ASSUME NEW id \in DOMAIN crs, NEW action \in DOMAIN Becomes, Transition(u, id, action)
          PROVE  QuietStep
      BY <2>5, TransitionIsQuiet
    <2>6. ASSUME NEW id \in DOMAIN crs, ActivateRegistry(u, id) PROVE QuietStep
      <3>1. /\ MayTransition(u, id, "activate") /\ Moved(u, id, "activate")
            /\ audit \subseteq audit' /\ UNCHANGED inv /\ crs[id].kind # "INVENTORY"
        BY <2>6 DEF ActivateRegistry, Audit
      <3>2. \A k \in DOMAIN crs : k # id => crs'[k] = crs[k]
        BY <3>1, ActivationsMove
      <3>3. QED
        BY <3>1, <3>2 DEF QuietStep, Activating
    <2>7. ASSUME NEW id \in DOMAIN crs, ActivateInventory(u, id) PROVE PreviewStep
      BY <2>7, ImportIsTrue
    <2>8. ASSUME NEW book, Preview(u, book) PROVE QuietStep
      BY <2>8 DEF Preview, QuietStep, Activating
    <2>9. ASSUME NEW p \in DOMAIN previews, ConfirmAgain(u, p) PROVE QuietStep
      BY <2>9 DEF ConfirmAgain, QuietStep, Activating
    <2>10. ASSUME NEW p \in DOMAIN previews, ConfirmImport(u, p) PROVE QuietStep
      <3>1. PICK base, rows : New(u, "INVENTORY", base, base, rows, "IMPORT_CONFIRMED")
        BY <2>10 DEF ConfirmImport
      <3>2. inv' = inv
        BY <2>10 DEF ConfirmImport
      <3>3. QED
        BY <3>1, <3>2, NewIsQuiet
    <2>11. QED
      BY <2>1, <2>2, <2>3, <2>4, <2>5, <2>6, <2>7, <2>8, <2>9, <2>10, QuietIsTrue, Zenon
  <1>3. QED
    BY <1>1, <1>2

(* An activated spreadsheet import changes the content of exactly the      *)
(* systems that the preview it was confirmed from listed, however many     *)
(* people previewed, confirmed and activated other imports in between; and *)
(* no import takes away a system or its membership in a group it does not  *)
(* name (RegistryAdministration.preview, confirm_import; merge_records).   *)
THEOREM ImportsAsPreviewed == Spec => PreviewWasTrue
  <1>1. Init => AdminInv /\ PreviewInv
    BY InitAdmin
  <1>2. AdminInv /\ PreviewInv /\ [Next]_vars => AdminInv' /\ PreviewInv'
    BY NextAdmin DEF Checked
  <1>3. AdminInv /\ PreviewInv /\ [Next]_vars => PreviewStep
    BY NextImports
  <1>4. PreviewWasTrue <=> [][PreviewStep]_vars
    BY PTL DEF PreviewWasTrue, PreviewStep
  <1>5. QED
    BY <1>1, <1>2, <1>3, <1>4, PTL DEF Spec


-----------------------------------------------------------------------------
(* Rows and versions stay sound                                            *)

RowOK(r, vs, i) ==
  /\ r.kind \in ChangeKind /\ r.status \in ChangeStatus
  /\ r.proposed \in vs /\ r.base \in vs \cup {NULL}
  /\ r.base_inventory \in 0..i.revision
  /\ r.created_by \in Users
  /\ {r.submitted_by, r.approved_by} \subseteq Users \cup {NULL}

SoundVersion(v, records) ==
  \A s \in DOMAIN v :
    /\ v[s].company_system_code \in DOMAIN records \cup {NULL}
    /\ v[s].credential_ref \in {NULL, CredentialOf(Definition(Deployed), s)}

RowsOK ==
  /\ head \in versions \cup {NULL} /\ activated \subseteq versions
  /\ IsSeq(invLog) /\ inv.revision = Len(invLog)
  /\ \A id \in DOMAIN crs : RowOK(crs[id], versions, inv)
  /\ \A v \in versions : SoundVersion(v, inv.records)

LEMMA RowsTyped ==
  AdminInv /\ PreviewInv /\ RowsOK => TypeOK /\ VersionsAreSound
  <1> SUFFICES ASSUME AdminInv, PreviewInv, RowsOK PROVE TypeOK /\ VersionsAreSound
    OBVIOUS
  <1>1. \A u \in Users : seen[u].id \in 0..Len(crs)
    BY AdminTyped DEF AdminInv, SeenOK, IsView
  <1>2. \A p \in DOMAIN previews : previews[p].confirmed_cr \in DOMAIN crs \cup {NULL}
    BY DEF PreviewInv, PreviewOK
  <1>3. QED
    BY <1>1, <1>2 DEF RowsOK, RowOK, SoundVersion, TypeOK, VersionsAreSound

(* Drafts register versions made of known codes and old credentials.       *)
LEMMA NewRows ==
  ASSUME AdminInv, RowsOK, NEW u \in Users, NEW kind \in ChangeKind, NEW base, NEW version,
         NEW rows, NEW event, New(u, kind, base, version, rows, event),
         SoundVersion(version, inv.records), UNCHANGED <<head, activated, inv, invLog>>
  PROVE  RowsOK'
  <1> DEFINE cr == NewRequest(u, kind, base, version, rows)
  <1>1. crs' = Append(crs, cr) /\ versions' = versions \cup {version} /\ base = head
    BY DEF New
  <1>2. inv.revision \in Nat
    BY SeqDomain DEF RowsOK
  <1>3. RowOK(cr, versions', inv)
    BY <1>1, <1>2 DEF RowOK, NewRequest, RowsOK, ChangeStatus
  <1> HIDE DEF cr
  <1>4. /\ DOMAIN crs' = 1..(Len(crs) + 1) /\ Len(crs) \in Nat /\ DOMAIN crs = 1..Len(crs)
        /\ \A i \in DOMAIN crs : crs'[i] = crs[i]
        /\ crs'[Len(crs) + 1] = cr
    BY <1>1, AdminTyped, Appended
  <1>5. \A i \in DOMAIN crs : RowOK(crs[i], versions', inv)
    BY <1>1 DEF RowsOK, RowOK
  <1>6. \A i \in DOMAIN crs' : RowOK(crs'[i], versions', inv)
    BY <1>3, <1>4, <1>5
  <1>7. \A v \in versions' : SoundVersion(v, inv.records)
    BY <1>1 DEF RowsOK
  <1>8. QED
    BY <1>1, <1>6, <1>7 DEF RowsOK

LEMMA SavedRows ==
  ASSUME AdminInv, NEW id \in DOMAIN crs, NEW cr, IsRequest(cr), Saved(id, cr), NEW vs, NEW i,
         RowOK(cr, vs, i), \A k \in DOMAIN crs : RowOK(crs[k], vs, i)
  PROVE  \A k \in DOMAIN crs' : RowOK(crs'[k], vs, i)
  <1>0. PICK m \in Nat : m = cr.revision + 1
    BY DEF IsRequest
  <1> DEFINE new == [cr EXCEPT !.revision = m]
  <1>1. crs' = [crs EXCEPT ![id] = new]
    BY <1>0 DEF Saved
  <1>2. /\ new.kind = cr.kind /\ new.status = cr.status /\ new.proposed = cr.proposed
        /\ new.base = cr.base /\ new.base_inventory = cr.base_inventory
        /\ new.created_by = cr.created_by /\ new.submitted_by = cr.submitted_by
        /\ new.approved_by = cr.approved_by
    BY DEF IsRequest
  <1> HIDE DEF new
  <1>3. DOMAIN crs' = DOMAIN crs /\ \A k \in DOMAIN crs : crs'[k] = IF k = id THEN new ELSE crs[k]
    BY <1>1, AdminTyped, Replaced
  <1>4. RowOK(new, vs, i)
    BY <1>2 DEF RowOK
  <1>5. QED
    BY <1>3, <1>4

LEMMA EditRows ==
  ASSUME AdminInv, RowsOK, NEW u \in Users, NEW id \in DOMAIN crs,
         NEW body \in EditableDefinitions(Codes), Edit(u, id, body)
  PROVE  RowsOK'
  <1> DEFINE version == Edited(crs[id].proposed, body)
             old == crs[id]
             cr == [old EXCEPT !.proposed = version]
  <1>1. /\ Saved(id, cr) /\ UNCHANGED <<head, activated, inv, invLog>>
        /\ versions' = versions \cup {version}
        /\ \A s \in DOMAIN body : body[s].company_system_code \in DOMAIN inv.records \cup {NULL}
    BY DEF Edit, KnownCodes
  <1>2. IsRequest(old) /\ RowOK(old, versions, inv)
    BY AdminTyped DEF RowsOK
  <1>3. SoundVersion(version, inv.records)
    <2>1. SoundVersion(old.proposed, inv.records)
      BY <1>2 DEF RowsOK, RowOK
    <2>2. \A s \in DOMAIN body :
            body[s] \in [company_system_code : Codes \cup {NULL}, credential_ref : {"[MASKED]", NULL}]
      BY DEF EditableDefinitions
    <2>3. ASSUME NEW s \in DOMAIN body
          PROVE  /\ version[s].company_system_code = body[s].company_system_code
                 /\ version[s].credential_ref = CredentialOf(old.proposed, s)
      BY <2>2 DEF Edited
    <2>4. \A s : CredentialOf(old.proposed, s) \in {NULL, CredentialOf(Definition(Deployed), s)}
      BY <2>1 DEF SoundVersion, CredentialOf
    <2>5. DOMAIN version = DOMAIN body
      BY DEF Edited
    <2> HIDE DEF version
    <2>6. QED
      BY <1>1, <2>3, <2>4, <2>5 DEF SoundVersion
  <1> HIDE DEF version, old
  <1>4. /\ IsRequest(cr) /\ cr.kind = old.kind /\ cr.status = old.status /\ cr.proposed = version
        /\ cr.base = old.base /\ cr.base_inventory = old.base_inventory
        /\ cr.created_by = old.created_by /\ cr.submitted_by = old.submitted_by
        /\ cr.approved_by = old.approved_by
    BY <1>2 DEF IsRequest
  <1> HIDE DEF cr
  <1>5. RowOK(cr, versions', inv)
    BY <1>1, <1>2, <1>4 DEF RowOK
  <1>6. \A k \in DOMAIN crs : RowOK(crs[k], versions', inv)
    BY <1>1 DEF RowsOK, RowOK
  <1>7. \A k \in DOMAIN crs' : RowOK(crs'[k], versions', inv)
    BY <1>1, <1>4, <1>5, <1>6, SavedRows
  <1>8. \A v \in versions' : SoundVersion(v, inv.records)
    BY <1>1, <1>3 DEF RowsOK
  <1>9. QED
    BY <1>1, <1>7, <1>8 DEF RowsOK

(* A transition only moves the status and signs.                           *)
LEMMA MovedRows ==
  ASSUME AdminInv, NEW u \in Users, NEW id \in DOMAIN crs, NEW action \in DOMAIN Becomes,
         Moved(u, id, action), NEW vs, NEW i, \A k \in DOMAIN crs : RowOK(crs[k], vs, i)
  PROVE  \A k \in DOMAIN crs' : RowOK(crs'[k], vs, i)
  <1> DEFINE cr == crs[id]
             by == IF action = "submit" THEN u ELSE cr.submitted_by
             ap == IF action = "approve" THEN u ELSE cr.approved_by
             to == Becomes[action]
             new == [cr EXCEPT !.status = to, !.submitted_by = by, !.approved_by = ap]
  <1>1. Saved(id, new) /\ IsRequest(cr) /\ RowOK(cr, vs, i)
    BY AdminTyped DEF Moved
  <1>2. to \in ChangeStatus /\ by \in Users \cup {NULL} /\ ap \in Users \cup {NULL}
    BY <1>1, Actions DEF ChangeStatus, RowOK
  <1> HIDE DEF cr, by, ap, to
  <1>3. cr = [kind |-> cr.kind, base |-> cr.base, proposed |-> cr.proposed,
              base_inventory |-> cr.base_inventory, revision |-> cr.revision,
              status |-> cr.status, created_by |-> cr.created_by,
              submitted_by |-> cr.submitted_by, approved_by |-> cr.approved_by,
              inventory |-> cr.inventory] /\ cr.revision \in Nat
    BY <1>1 DEF IsRequest
  <1> HIDE DEF new
  <1>4. new = [kind |-> cr.kind, base |-> cr.base, proposed |-> cr.proposed,
               base_inventory |-> cr.base_inventory, revision |-> cr.revision,
               status |-> to, created_by |-> cr.created_by,
               submitted_by |-> by, approved_by |-> ap, inventory |-> cr.inventory]
    <2>1. new = [cr EXCEPT !.status = to, !.submitted_by = by, !.approved_by = ap]
      BY DEF new
    <2>2. QED
      BY <1>3, <2>1
  <1>5. IsRequest(new) /\ RowOK(new, vs, i)
    BY <1>1, <1>2, <1>3, <1>4 DEF IsRequest, RowOK
  <1>6. QED
    BY <1>1, <1>5, SavedRows

LEMMA ActivatedRows ==
  ASSUME AdminInv, PreviewInv, RowsOK, NEW u \in Users, NEW id \in DOMAIN crs,
         ActivateRegistry(u, id) \/ ActivateInventory(u, id)
  PROVE  RowsOK'
  <1>1. /\ Moved(u, id, "activate") /\ versions' = versions /\ crs[id].proposed \in versions
        /\ \/ head' = crs[id].proposed /\ activated' = activated \cup {crs[id].proposed}
              /\ UNCHANGED <<inv, invLog>>
           \/ UNCHANGED <<head, activated>> /\ Publish(id, MergeRecords(inv.records, crs[id].inventory))
    BY DEF ActivateRegistry, ActivateInventory, RowsOK, RowOK
  <1>2. PICK action \in DOMAIN Becomes : action = "activate"
    BY Actions
  <1>3. /\ IsSeq(invLog') /\ inv'.revision = Len(invLog')
        /\ inv.revision <= inv'.revision /\ inv'.revision \in Nat /\ inv.revision \in Nat
        /\ DOMAIN inv.records \subseteq DOMAIN inv'.records
    <2>1. IsSeq(invLog) /\ inv.revision = Len(invLog) /\ Len(invLog) \in Nat
      BY SeqDomain DEF RowsOK
    <2>2. CASE UNCHANGED <<inv, invLog>>
      BY <2>1, <2>2
    <2>3. CASE Publish(id, MergeRecords(inv.records, crs[id].inventory))
      <3>1. PICK e : e = [id |-> id, records |-> MergeRecords(inv.records, crs[id].inventory)]
        OBVIOUS
      <3>2. invLog' = Append(invLog, e) /\ inv'.revision = inv.revision + 1
            /\ inv'.records = MergeRecords(inv.records, crs[id].inventory)
        BY <2>3, <3>1 DEF Publish
      <3>3. IsSeq(invLog') /\ Len(invLog') = Len(invLog) + 1
        BY <2>1, <3>2, Appended
      <3>4. DOMAIN inv.records \subseteq DOMAIN inv'.records
        BY <3>2 DEF MergeRecords
      <3>5. QED
        BY <2>1, <3>2, <3>3, <3>4
    <2>4. QED
      BY <1>1, <2>2, <2>3
  <1>4. \A k \in DOMAIN crs : RowOK(crs[k], versions, inv')
    BY <1>3 DEF RowsOK, RowOK
  <1>5. PICK i : i = inv'
    OBVIOUS
  <1>6. \A k \in DOMAIN crs' : RowOK(crs'[k], versions, i)
    BY <1>1, <1>2, <1>4, <1>5, MovedRows
  <1>7. \A v \in versions : SoundVersion(v, inv'.records)
    BY <1>3 DEF RowsOK, SoundVersion
  <1>8. QED
    BY <1>1, <1>3, <1>5, <1>6, <1>7 DEF RowsOK

LEMMA InitRows ==
  Init => RowsOK
  <1> SUFFICES ASSUME Init PROVE RowsOK
    OBVIOUS
  <1>1. /\ head = Deployed /\ versions = {Deployed} \ {NULL} /\ activated = versions
        /\ inv.revision = 0 /\ inv.records = <<>> /\ invLog = <<>> /\ crs = <<>>
    BY DEF Init
  <1>2. \A v \in versions : SoundVersion(v, inv.records)
    BY <1>1, DeployedUnbound DEF SoundVersion, CredentialOf, Definition
  <1>3. QED
    BY <1>1, <1>2, EmptyIsSeq DEF RowsOK

LEMMA NextRows ==
  AdminInv /\ PreviewInv /\ RowsOK /\ [Next]_vars => RowsOK'
  <1> SUFFICES ASSUME AdminInv, PreviewInv, RowsOK, [Next]_vars PROVE RowsOK'
    OBVIOUS
  <1>1. ASSUME UNCHANGED <<head, versions, activated, inv, invLog, crs>> PROVE RowsOK'
    BY <1>1 DEF RowsOK
  <1>2. CASE UNCHANGED vars
    BY <1>1, <1>2 DEF vars
  <1>3. CASE Next
    <2>1. PICK u \in Users :
            \/ \E base \in versions \cup {NULL} : Create(u, base)
            \/ \E base \in versions \cup {NULL}, target \in versions : Rollback(u, base, target)
            \/ \E id \in DOMAIN crs :
                 \/ Get(u, id)
                 \/ \E body \in EditableDefinitions(Codes) : Edit(u, id, body)
                 \/ \E action \in DOMAIN Becomes : Transition(u, id, action)
                 \/ ActivateRegistry(u, id)
                 \/ ActivateInventory(u, id)
            \/ \E book \in Workbooks : Preview(u, book)
            \/ \E p \in DOMAIN previews : ConfirmAgain(u, p) \/ ConfirmImport(u, p)
      BY <1>3, Zenon DEF Next
    <2>2. ASSUME NEW base \in versions \cup {NULL}, Create(u, base) PROVE RowsOK'
      <3>1. PICK version : version = Definition(base)
        OBVIOUS
      <3>2. /\ New(u, "CONFIGURATION", base, version, <<>>, "CREATE_DRAFT")
            /\ UNCHANGED <<head, activated, inv, invLog>> /\ "CONFIGURATION" \in ChangeKind
        BY <2>2, <3>1 DEF Create, ChangeKind
      <3>3. SoundVersion(version, inv.records)
        BY <3>1 DEF Definition, EmptyDefinition, SoundVersion, RowsOK
      <3>4. QED
        BY <3>2, <3>3, NewRows
    <2>3. ASSUME NEW base, NEW target \in versions, Rollback(u, base, target) PROVE RowsOK'
      <3>1. /\ New(u, "ROLLBACK", base, target, <<>>, "ROLLBACK_REQUESTED")
            /\ UNCHANGED <<head, activated, inv, invLog>> /\ "ROLLBACK" \in ChangeKind
        BY <2>3 DEF Rollback, ChangeKind
      <3>2. SoundVersion(target, inv.records)
        BY DEF RowsOK
      <3>3. QED
        BY <3>1, <3>2, NewRows
    <2>4. ASSUME NEW id \in DOMAIN crs, Get(u, id) PROVE RowsOK'
      BY <1>1, <2>4 DEF Get
    <2>5. ASSUME NEW id \in DOMAIN crs, NEW body \in EditableDefinitions(Codes), Edit(u, id, body)
          PROVE  RowsOK'
      BY <2>5, EditRows
    <2>6. ASSUME NEW id \in DOMAIN crs, NEW action \in DOMAIN Becomes, Transition(u, id, action)
          PROVE  RowsOK'
      <3>1. Moved(u, id, action) /\ UNCHANGED <<head, versions, activated, inv, invLog>>
        BY <2>6 DEF Transition
      <3>2. \A k \in DOMAIN crs' : RowOK(crs'[k], versions, inv)
        BY <3>1, MovedRows DEF RowsOK
      <3>3. QED
        BY <3>1, <3>2 DEF RowsOK
    <2>7. ASSUME NEW id \in DOMAIN crs, ActivateRegistry(u, id) \/ ActivateInventory(u, id)
          PROVE  RowsOK'
      BY <2>7, ActivatedRows
    <2>8. ASSUME NEW book, Preview(u, book) PROVE RowsOK'
      BY <1>1, <2>8 DEF Preview
    <2>9. ASSUME NEW p \in DOMAIN previews, ConfirmAgain(u, p) PROVE RowsOK'
      BY <1>1, <2>9 DEF ConfirmAgain
    <2>10. ASSUME NEW p \in DOMAIN previews, ConfirmImport(u, p) PROVE RowsOK'
      <3>1. PICK base, rows : base = previews[p].base /\ rows = previews[p].rows
        OBVIOUS
      <3>2. /\ New(u, "INVENTORY", base, base, rows, "IMPORT_CONFIRMED") /\ base # NULL
            /\ UNCHANGED <<head, activated, inv, invLog>> /\ "INVENTORY" \in ChangeKind
        BY <2>10, <3>1 DEF ConfirmImport, ChangeKind
      <3>3. SoundVersion(base, inv.records)
        BY <3>2 DEF New, RowsOK
      <3>4. QED
        BY <3>2, <3>3, NewRows
    <2>11. QED
      BY <2>1, <2>2, <2>3, <2>4, <2>5, <2>6, <2>7, <2>8, <2>9, <2>10, Zenon
  <1>4. QED
    BY <1>2, <1>3

(* Whatever sequence of edits, imports, approvals and rollbacks people     *)
(* perform, the rows of the registry keep their types, and every version   *)
(* that was ever registered refers only to company systems the inventory   *)
(* knows and holds no credential but the one its deployment put on that    *)
(* very system: the browser's mark never reaches a stored definition       *)
(* (RegistryAdministration.edit).                                          *)
THEOREM VersionsStaySound == Spec => []RegistryIsSound
  <1>1. Init => AdminInv /\ PreviewInv /\ RowsOK
    BY InitAdmin, InitRows
  <1>2. AdminInv /\ PreviewInv /\ RowsOK /\ [Next]_vars => AdminInv' /\ PreviewInv' /\ RowsOK'
    BY NextAdmin, NextRows DEF Checked
  <1>3. AdminInv /\ PreviewInv /\ RowsOK => RegistryIsSound
    BY RowsTyped DEF RegistryIsSound
  <1>4. QED
    BY <1>1, <1>2, <1>3, PTL DEF Spec

-----------------------------------------------------------------------------
(* Resolution                                                              *)

IsSource(s) ==
  s = [capability_id |-> s.capability_id, system_id |-> s.system_id, adapter_id |-> s.adapter_id,
       tool_name |-> s.tool_name, claim_types |-> s.claim_types, authority |-> s.authority,
       registry_version |-> s.registry_version, routing_fingerprint |-> s.routing_fingerprint]

LEMMA ResolvedShape ==
  ASSUME NEW def, NEW r, NEW c
  PROVE  LET s == Resolved(def, r, c) IN
         /\ IsSource(s) /\ s.capability_id = c /\ s.registry_version = def
         /\ s.routing_fingerprint = r /\ s.system_id = def.capabilities[c].system_id
         /\ s.adapter_id = def.capabilities[c].adapter_id
         /\ s.tool_name = def.capabilities[c].tool_name
         /\ s.claim_types = Claims(def.capabilities[c]) /\ s.authority = RulesFor(def, c)
  <1> DEFINE cap == def.capabilities[c]
             claims == Claims(cap)
             rules == RulesFor(def, c)
  <1>1. Resolved(def, r, c) =
          [capability_id |-> c, system_id |-> cap.system_id, adapter_id |-> cap.adapter_id,
           tool_name |-> cap.tool_name, claim_types |-> claims, authority |-> rules,
           registry_version |-> def, routing_fingerprint |-> r]
    BY DEF Resolved
  <1> HIDE DEF claims, rules, cap
  <1>2. QED
    BY <1>1 DEF IsSource, claims, rules, cap

(* A tool resolves to a candidate of its name.                             *)
LEMMA ToolResolves ==
  ASSUME NEW def, NEW tool, NEW r, ResolveTool(def, Case, tool, r) # None
  PROVE  \E c \in Candidates(def, Case, r) :
           /\ def.capabilities[c].tool_name = tool
           /\ ResolveTool(def, Case, tool, r) = Resolved(def, r, c)
  <1> DEFINE found == {c \in Candidates(def, Case, r) : def.capabilities[c].tool_name = tool}
  <1>1. Cardinality(found) = 1 /\ ResolveTool(def, Case, tool, r) = Resolved(def, r, CHOOSE c \in found : TRUE)
    BY DEF ResolveTool
  <1>2. found # {}
    BY <1>1, FS_EmptySet
  <1>3. PICK c \in found : c = CHOOSE x \in found : TRUE
    BY <1>2
  <1>4. QED
    BY <1>1, <1>3

(* The source of a call: a candidate of some version under some route.     *)
FromCandidate(s) ==
  \E def, r : \E c \in Candidates(def, Case, r) : s = Resolved(def, r, c)

LEMMA SourceMayDrain ==
  ASSUME NEW s, FromCandidate(s)
  PROVE  LET y == s.registry_version.systems[s.system_id] IN
         y.status = "DRAINING" =>
           Case.created_at < y.draining_since /\ s.routing_fingerprint.allow_existing_draining
  <1>1. PICK def, r : \E c \in Candidates(def, Case, r) : s = Resolved(def, r, c)
    BY DEF FromCandidate
  <1>2. PICK c \in Candidates(def, Case, r) : s = Resolved(def, r, c)
    BY <1>1
  <1>3. s.registry_version = def /\ s.routing_fingerprint = r
        /\ s.system_id = def.capabilities[c].system_id
    BY <1>2, ResolvedShape
  <1>4. Eligible(def.systems[def.capabilities[c].system_id], Case, r)
    BY DEF Candidates
  <1>5. QED
    BY <1>3, <1>4 DEF Eligible

-----------------------------------------------------------------------------
(* Calls                                                                   *)

IsCall(c) ==
  c = [tool |-> c.tool, source |-> c.source, state |-> c.state, plan |-> c.plan,
       by |-> c.by, answer |-> c.answer, at |-> c.at]

CallOK(c) ==
  /\ IsCall(c) /\ IsSource(c.source) /\ FromCandidate(c.source)
  /\ c.state \in CallState
  /\ c.answer \in Protocols \cup {None}
  /\ c.plan # None => c.source = c.plan
  /\ c.state = "OBSERVED" => c.by = Bound(c.source)

(* What the planner was shown is what its snapshot's version resolves.     *)
SnapOK ==
  snap # None => \A t \in DOMAIN snap.tools :
                   snap.tools[t] = ResolveTool(snap.version, Case, t, snap.routing)

CallsInv == IsSeq(calls) /\ SnapOK /\ \A i \in DOMAIN calls : CallOK(calls[i])

(* An observed call is never written again.                                *)
ObservedStay ==
  \A i \in DOMAIN calls : calls[i].state = "OBSERVED" => i \in DOMAIN calls' /\ calls'[i] = calls[i]

LEMMA CallsTrue ==
  CallsInv => SourcesAreAsPlanned
  <1> SUFFICES ASSUME CallsInv, NEW i \in DOMAIN calls
               PROVE  LET r == calls[i].source
                          s == r.registry_version.systems[r.system_id]
                      IN  /\ calls[i].plan # None => r = calls[i].plan
                          /\ i \in Observed => calls[i].by = Bound(r)
                          /\ s.status = "DRAINING" =>
                               /\ Case.created_at < s.draining_since
                               /\ r.routing_fingerprint.allow_existing_draining
    BY DEF SourcesAreAsPlanned
  <1>1. CallOK(calls[i])
    BY DEF CallsInv
  <1>2. PICK r : r = calls[i].source
    OBVIOUS
  <1>3. LET s == r.registry_version.systems[r.system_id] IN
        s.status = "DRAINING" =>
          Case.created_at < s.draining_since /\ r.routing_fingerprint.allow_existing_draining
    BY <1>1, <1>2, SourceMayDrain DEF CallOK
  <1>4. QED
    BY <1>1, <1>2, <1>3 DEF CallOK, Observed

LEMMA ReserveKeeps ==
  ASSUME CallsInv, NEW tool \in Tools, NEW planned \in BOOLEAN, Reserve(tool, planned)
  PROVE  CallsInv' /\ ObservedStay
  <1>1. PICK def, rt : def = InForce /\ rt = CurrentRoute
    OBVIOUS
  <1>2. PICK r : r = ResolveTool(def, Case, tool, rt)
    OBVIOUS
  <1>3. PICK plan : plan = IF planned THEN snap.tools[tool] ELSE None
    OBVIOUS
  <1> DEFINE new == [tool |-> tool, source |-> r, state |-> "DISPATCHED", plan |-> plan,
                     by |-> None, answer |-> None, at |-> 0]
  <1>4. /\ r # None /\ calls' = Append(calls, new) /\ UNCHANGED snap
        /\ planned => snap # None /\ tool \in DOMAIN snap.tools /\ PlanIsCurrent(r)
    BY <1>1, <1>2, <1>3 DEF Reserve
  <1>5. PICK c \in Candidates(def, Case, rt) : r = Resolved(def, rt, c)
    BY <1>2, <1>4, ToolResolves
  <1>6. IsSource(r) /\ r.registry_version = def /\ r.routing_fingerprint = rt
    BY <1>5, ResolvedShape
  <1>7. FromCandidate(r)
    BY <1>5 DEF FromCandidate
  <1>8. planned => plan = r
    BY <1>2, <1>3, <1>4, <1>6 DEF CallsInv, SnapOK, PlanIsCurrent
  <1>9. CallOK(new)
    BY <1>3, <1>6, <1>7, <1>8 DEF CallOK, IsCall, CallState
  <1> HIDE DEF new
  <1>10. /\ IsSeq(calls') /\ DOMAIN calls' = 1..(Len(calls) + 1)
         /\ Len(calls) \in Nat /\ DOMAIN calls = 1..Len(calls)
         /\ \A i \in DOMAIN calls : calls'[i] = calls[i]
         /\ calls'[Len(calls) + 1] = new
    BY <1>4, Appended DEF CallsInv
  <1>11. \A i \in DOMAIN calls' : CallOK(calls'[i])
    BY <1>9, <1>10 DEF CallsInv
  <1>12. SnapOK'
    BY <1>4 DEF CallsInv, SnapOK
  <1>13. QED
    BY <1>10, <1>11, <1>12 DEF CallsInv, ObservedStay

LEMMA ObserveKeeps ==
  ASSUME CallsInv, NEW i \in DOMAIN calls, NEW answer \in Protocols \cup {None}, Observe(i, answer)
  PROVE  CallsInv' /\ ObservedStay
  <1>1. PICK n : n = Cardinality(Observed) + 1
    OBVIOUS
  <1>2. PICK b : b = Client(i)
    OBVIOUS
  <1> DEFINE old == calls[i]
             new == [old EXCEPT !.state = "OBSERVED", !.by = b, !.answer = answer, !.at = n]
  <1>3. /\ calls' = [calls EXCEPT ![i] = new] /\ UNCHANGED snap /\ old.state # "OBSERVED"
        /\ CallOK(old) /\ b = Bound(old.source) /\ IsSeq(calls)
    <2>1. calls' = [calls EXCEPT ![i].state = "OBSERVED", ![i].by = b,
                                 ![i].answer = answer, ![i].at = n]
      BY <1>1, <1>2 DEF Observe
    <2>2. QED
      BY <1>2, <2>1 DEF Observe, Client, CallsInv
  <1> HIDE DEF old
  <1> HIDE DEF new
  <1>4. new = [tool |-> old.tool, source |-> old.source, state |-> "OBSERVED", plan |-> old.plan,
               by |-> b, answer |-> answer, at |-> n]
    <2>1. new = [old EXCEPT !.state = "OBSERVED", !.by = b, !.answer = answer, !.at = n]
      BY DEF new
    <2>2. old = [tool |-> old.tool, source |-> old.source, state |-> old.state, plan |-> old.plan,
                 by |-> old.by, answer |-> old.answer, at |-> old.at]
      BY <1>3 DEF CallOK, IsCall
    <2>3. QED
      BY <2>1, <2>2
  <1>5. CallOK(new)
    BY <1>3, <1>4 DEF CallOK, IsCall, CallState
  <1>6. /\ IsSeq(calls') /\ DOMAIN calls' = DOMAIN calls
        /\ \A k \in DOMAIN calls : calls'[k] = IF k = i THEN new ELSE calls[k]
    BY <1>3, Replaced
  <1>7. SnapOK'
    BY <1>3 DEF CallsInv, SnapOK
  <1>8. QED
    BY <1>3, <1>5, <1>6, <1>7 DEF CallsInv, ObservedStay, old

LEMMA MarkErrorKeeps ==
  ASSUME CallsInv, NEW i \in DOMAIN calls, MarkError(i)
  PROVE  CallsInv' /\ ObservedStay
  <1> DEFINE old == calls[i]
             new == [old EXCEPT !.state = "ERROR"]
  <1>1. /\ calls' = [calls EXCEPT ![i] = new] /\ UNCHANGED snap /\ old.state # "OBSERVED"
        /\ CallOK(old) /\ IsSeq(calls)
    BY DEF MarkError, CallsInv
  <1> HIDE DEF old
  <1>2. new = [tool |-> old.tool, source |-> old.source, state |-> "ERROR", plan |-> old.plan,
               by |-> old.by, answer |-> old.answer, at |-> old.at]
    BY <1>1 DEF CallOK, IsCall
  <1> HIDE DEF new
  <1>3. CallOK(new)
    BY <1>1, <1>2 DEF CallOK, IsCall, CallState
  <1>4. /\ IsSeq(calls') /\ DOMAIN calls' = DOMAIN calls
        /\ \A k \in DOMAIN calls : calls'[k] = IF k = i THEN new ELSE calls[k]
    BY <1>1, Replaced
  <1>5. SnapOK'
    BY <1>1 DEF CallsInv, SnapOK
  <1>6. QED
    BY <1>1, <1>3, <1>4, <1>5 DEF CallsInv, ObservedStay, old

LEMMA ProjectKeeps ==
  ASSUME CallsInv, Project
  PROVE  CallsInv' /\ ObservedStay
  <1>1. PICK def, rt : def = InForce /\ rt = CurrentRoute
    OBVIOUS
  <1>2. PICK T : T = {x \in Tools \cap Case.allowed_tools : ResolveTool(def, Case, x, rt) # None}
    OBVIOUS
  <1>3. UNCHANGED calls
        /\ snap' = [version |-> def, routing |-> rt,
                    tools |-> [t \in T |-> ResolveTool(def, Case, t, rt)]]
    BY <1>1, <1>2 DEF Project
  <1>4. SnapOK'
    BY <1>3 DEF SnapOK
  <1>5. QED
    BY <1>3, <1>4 DEF CallsInv, ObservedStay


LEMMA CallsStay ==
  ASSUME CallsInv, UNCHANGED <<calls, snap>>
  PROVE  CallsInv' /\ ObservedStay
  BY DEF CallsInv, SnapOK, ObservedStay

LEMMA NextCalls ==
  CallsInv /\ [DispatchNext]_dispatchVars => CallsInv' /\ ObservedStay
  <1> SUFFICES ASSUME CallsInv, [DispatchNext]_dispatchVars PROVE CallsInv' /\ ObservedStay
    OBVIOUS
  <1>1. CASE UNCHANGED dispatchVars
    BY <1>1, CallsStay DEF dispatchVars
  <1>2. CASE \E body \in Bodies : Activate(body)
    BY <1>2, CallsStay DEF Activate
  <1>3. CASE \E context \in Routes : BindRoute(context)
    BY <1>3, CallsStay DEF BindRoute
  <1>4. CASE InitializeLegacy \/ Close
    BY <1>4, CallsStay DEF InitializeLegacy, Close
  <1>5. CASE Project
    BY <1>5, ProjectKeeps
  <1>6. CASE \E tool \in Tools, planned \in BOOLEAN : Reserve(tool, planned)
    BY <1>6, ReserveKeeps, Zenon
  <1>7. CASE \E i \in DOMAIN calls :
               MarkError(i) \/ \E answer \in Protocols \cup {None} : Observe(i, answer)
    BY <1>7, MarkErrorKeeps, ObserveKeeps, Zenon
  <1>8. CASE \E expected \in DOMAIN route, i \in DOMAIN calls : PromoteProtocol(expected, {i})
    BY <1>8, CallsStay DEF PromoteProtocol
  <1>9. QED
    BY <1>1, <1>2, <1>3, <1>4, <1>5, <1>6, <1>7, <1>8, Zenon DEF DispatchNext

LEMMA InitCalls ==
  DispatchInit => CallsInv
  BY EmptyIsSeq DEF DispatchInit, CallsInv, SnapOK

-----------------------------------------------------------------------------
(* Route revisions                                                         *)

IsContext(r) ==
  DOMAIN r = {"place", "product_code", "partners", "protocol_version", "effective_at",
              "allow_existing_draining"}

SameButVersion(a, b) == [a EXCEPT !.protocol_version = None] = [b EXCEPT !.protocol_version = None]

IsRevision(v) == v = [parent |-> v.parent, context |-> v.context, refs |-> v.refs]

(* The call a revision rests on, by what it answered and where.            *)
ProvenBy(k, i) ==
  /\ i \in DOMAIN calls /\ calls[i].state = "OBSERVED"
  /\ calls[i].answer = route[k].context.protocol_version
  /\ calls[i].source.authority["PROTOCOL_FIELD_TYPE"].authority_level = "AUTHORITATIVE"
  /\ \E j \in 1..(k - 1) : calls[i].source.routing_fingerprint = route[j].context

RevisionOK(k) ==
  /\ IsRevision(route[k]) /\ IsContext(route[k].context) /\ route[k].parent = k - 1
  /\ SameButVersion(route[k].context, route[1].context)
  /\ k > 1 => \E i \in route[k].refs : ProvenBy(k, i)

RouteInv ==
  /\ IsSeq(route) /\ legacy \in Routes \cup {None}
  /\ route # <<>> => legacy # None
  /\ \A k \in DOMAIN route : RevisionOK(k)

LEMMA RouteTrue ==
  RouteInv => ProtocolIsProven
  BY DEF RouteInv, RevisionOK, ProvenBy, SameButVersion, ProtocolIsProven


(* Revisions that exist are untouched by steps that write no revision.     *)
LEMMA RevisionsStay ==
  ASSUME RouteInv, ObservedStay, UNCHANGED <<route, legacy>>
  PROVE  RouteInv'
  <1>1. ASSUME NEW k \in DOMAIN route PROVE RevisionOK(k)'
    <2>1. RevisionOK(k)
      BY DEF RouteInv
    <2>2. \A i : ProvenBy(k, i) => ProvenBy(k, i)'
      BY DEF ProvenBy, ObservedStay
    <2>3. QED
      BY <2>1, <2>2 DEF RevisionOK
  <1>2. QED
    BY <1>1 DEF RouteInv

LEMMA FirstRevision ==
  ASSUME NEW context \in Routes, legacy' = context, route' = <<Revision(0, context, {})>>
  PROVE  RouteInv'
  <1> DEFINE v == Revision(0, context, {})
  <1>1. IsRevision(v) /\ v.context = context /\ v.parent = 0
    BY DEF Revision, IsRevision
  <1>2. IsContext(context) /\ context # None
    BY DispatchAssumption DEF IsContext, CaseRouteContext
  <1> HIDE DEF v
  <1>3. route' = <<v>>
    BY DEF v
  <1>4. IsSeq(route') /\ DOMAIN route' = {1} /\ route'[1] = v
    <2>1. <<v>> \in Seq({v}) /\ DOMAIN <<v>> = {1} /\ <<v>>[1] = v
      OBVIOUS
    <2>2. QED
      BY <1>3, <2>1 DEF IsSeq
  <1>5. RevisionOK(1)'
    BY <1>1, <1>2, <1>4 DEF RevisionOK, SameButVersion
  <1>6. QED
    BY <1>2, <1>4, <1>5 DEF RouteInv

LEMMA BindKeeps ==
  ASSUME RouteInv, NEW context \in Routes, BindRoute(context)
  PROVE  RouteInv'
  <1>1. CASE route = <<>>
    BY <1>1, FirstRevision DEF BindRoute
  <1>2. CASE route # <<>>
    <2>1. UNCHANGED <<route, legacy, calls>>
      BY <1>2 DEF BindRoute, RouteInv
    <2>2. QED
      BY <2>1, RevisionsStay DEF ObservedStay
  <1>3. QED
    BY <1>1, <1>2

LEMMA InitializeKeeps ==
  ASSUME RouteInv, InitializeLegacy
  PROVE  RouteInv'
  <1>1. PICK context \in Routes : legacy = context
    BY DEF RouteInv, InitializeLegacy
  <1>2. legacy' = context /\ route' = <<Revision(0, context, {})>>
    BY <1>1 DEF InitializeLegacy
  <1>3. QED
    BY <1>2, FirstRevision

(* A promoted answer: observed, from the source that is authoritative now  *)
(* and was the same when it was asked, under a route of this Case.         *)
LEMMA PromoteKeeps ==
  ASSUME CallsInv, RouteInv, NEW expected, NEW i \in DOMAIN calls, PromoteProtocol(expected, {i})
  PROVE  RouteInv'
  <1>1. IsSeq(route) /\ Len(route) \in Nat /\ DOMAIN route = 1..Len(route)
    BY SeqDomain DEF RouteInv
  <1>2. PICK n \in Nat : n = Len(route)
    BY <1>1
  <1>3. n # 0
    <2>1. PICK S : route \in Seq(S)
      BY <1>1 DEF IsSeq
    <2>2. QED
      BY <1>2, <2>1 DEF PromoteProtocol
  <1>4. PICK last : last = route[n].context
    OBVIOUS
  <1>5. CurrentRoute = last
    BY <1>2, <1>4 DEF CurrentRoute, PromoteProtocol, Last
  <1>6. RevisionOK(n)
    BY <1>1, <1>2, <1>3 DEF RouteInv
  <1>7. PICK a : a = calls[i].answer
    OBVIOUS
  <1>8. AnswerOf({i}) = a
    BY <1>7 DEF AnswerOf
  <1> DEFINE ctx == [last EXCEPT !.protocol_version = a]
             v == Revision(n, ctx, {i})
  <1>9. route' = Append(route, v) /\ UNCHANGED <<calls, legacy>>
    BY <1>2, <1>5, <1>8 DEF PromoteProtocol
  <1>10. /\ IsContext(ctx) /\ ctx.protocol_version = a
         /\ SameButVersion(ctx, route[1].context)
    BY <1>4, <1>6 DEF RevisionOK, IsContext, SameButVersion
  <1> HIDE DEF ctx
  <1>11. IsRevision(v) /\ v.context = ctx /\ v.parent = n /\ v.refs = {i}
    BY DEF IsRevision, Revision
  <1> HIDE DEF v
  <1>12. /\ IsSeq(route') /\ DOMAIN route' = 1..(n + 1)
         /\ \A k \in DOMAIN route : route'[k] = route[k]
         /\ route'[n + 1] = v
    BY <1>1, <1>2, <1>9, Appended
  <1>13. /\ calls[i].state = "OBSERVED"
         /\ calls[i].source.authority["PROTOCOL_FIELD_TYPE"].authority_level = "AUTHORITATIVE"
         /\ \E j \in 1..n : calls[i].source.routing_fingerprint = route[j].context
    <2>1. PICK s : s = ResolveTool(InForce, Case, "PROTOCOL", CurrentRoute)
      OBVIOUS
    <2>2. PICK c : c = calls[i].source
      OBVIOUS
    <2>3. Verified({i})
      BY DEF PromoteProtocol
    <2>4. /\ i \in CurrentProtocolEvidence /\ s # None
          /\ s.authority["PROTOCOL_FIELD_TYPE"].authority_level = "AUTHORITATIVE"
          /\ c.routing_fingerprint \in {route[k].context : k \in DOMAIN route}
          /\ WithoutRoute(c) = WithoutRoute(s)
      BY <2>1, <2>2, <2>3 DEF Verified
    <2>5. IsSource(c)
      BY <2>2 DEF CallsInv, CallOK
    <2>6. IsSource(s)
      <3>1. PICK def, rt : def = InForce /\ rt = CurrentRoute
        OBVIOUS
      <3>2. PICK x \in Candidates(def, Case, rt) : s = Resolved(def, rt, x)
        BY <2>1, <2>4, <3>1, ToolResolves
      <3>3. QED
        BY <3>2, ResolvedShape
    <2>7. c.authority = s.authority
      <3>1. WithoutRoute(c).authority = c.authority
        BY <2>5 DEF WithoutRoute, IsSource
      <3>2. WithoutRoute(s).authority = s.authority
        BY <2>6 DEF WithoutRoute, IsSource
      <3>3. QED
        BY <2>4, <3>1, <3>2
    <2>8. QED
      BY <1>1, <1>2, <2>2, <2>4, <2>7 DEF CurrentProtocolEvidence, Observed
  <1>14. RevisionOK(n + 1)'
    <2>1. ProvenBy(n + 1, i)'
      BY <1>7, <1>9, <1>10, <1>11, <1>12, <1>13, <1>1, <1>2 DEF ProvenBy
    <2>2. route'[1] = route[1]
      BY <1>1, <1>2, <1>3, <1>12
    <2>3. QED
      BY <1>10, <1>11, <1>12, <2>1, <2>2 DEF RevisionOK
  <1>15. ASSUME NEW k \in DOMAIN route PROVE RevisionOK(k)'
    <2>1. RevisionOK(k) /\ k \in 1..n /\ 1 \in DOMAIN route
      BY <1>1, <1>2, <1>3 DEF RouteInv
    <2>2. route'[k] = route[k] /\ route'[1] = route[1] /\ \A j \in 1..(k - 1) : route'[j] = route[j]
      BY <1>1, <1>2, <1>12, <2>1
    <2>3. \A m : ProvenBy(k, m) => ProvenBy(k, m)'
      BY <1>9, <2>2 DEF ProvenBy
    <2>4. QED
      BY <2>1, <2>2, <2>3 DEF RevisionOK
  <1>16. \A k \in DOMAIN route' : RevisionOK(k)'
    BY <1>1, <1>2, <1>12, <1>14, <1>15
  <1>17. legacy # None
    BY <1>9 DEF RouteInv, PromoteProtocol
  <1>18. QED
    BY <1>9, <1>12, <1>16, <1>17 DEF RouteInv


LEMMA NextRoute ==
  CallsInv /\ RouteInv /\ [DispatchNext]_dispatchVars => RouteInv'
  <1> SUFFICES ASSUME CallsInv, RouteInv, [DispatchNext]_dispatchVars PROVE RouteInv'
    OBVIOUS
  <1>0. ObservedStay
    BY NextCalls
  <1>1. CASE UNCHANGED dispatchVars
    BY <1>0, <1>1, RevisionsStay DEF dispatchVars
  <1>2. CASE \E body \in Bodies : Activate(body)
    BY <1>0, <1>2, RevisionsStay DEF Activate
  <1>3. CASE \E context \in Routes : BindRoute(context)
    BY <1>3, BindKeeps
  <1>4. CASE InitializeLegacy
    BY <1>4, InitializeKeeps
  <1>5. CASE Project \/ Close
    BY <1>0, <1>5, RevisionsStay DEF Project, Close
  <1>6. CASE \E tool \in Tools, planned \in BOOLEAN : Reserve(tool, planned)
    BY <1>0, <1>6, RevisionsStay DEF Reserve
  <1>7. CASE \E i \in DOMAIN calls :
               MarkError(i) \/ \E answer \in Protocols \cup {None} : Observe(i, answer)
    BY <1>0, <1>7, RevisionsStay DEF MarkError, Observe
  <1>8. CASE \E expected \in DOMAIN route, i \in DOMAIN calls : PromoteProtocol(expected, {i})
    BY <1>8, PromoteKeeps, Zenon
  <1>9. QED
    BY <1>1, <1>2, <1>3, <1>4, <1>5, <1>6, <1>7, <1>8, Zenon DEF DispatchNext

LEMMA InitRoute ==
  DispatchInit => RouteInv
  BY EmptyIsSeq DEF DispatchInit, RouteInv

(* A protocol version that a route revision adds was answered by the       *)
(* source that was authoritative for it when it was asked, under an        *)
(* earlier route of the same Case, and nothing else of the route changed   *)
(* (RouteUpdater.promote_protocol), for any number of activations, calls   *)
(* and revisions.                                                          *)
THEOREM ProtocolProven == DispatchSpec => []ProtocolIsProven
  <1>1. DispatchInit => CallsInv /\ RouteInv
    BY InitCalls, InitRoute
  <1>2. CallsInv /\ RouteInv /\ [DispatchNext]_dispatchVars => CallsInv' /\ RouteInv'
    BY NextCalls, NextRoute
  <1>3. RouteInv => ProtocolIsProven
    BY RouteTrue
  <1>4. QED
    BY <1>1, <1>2, <1>3, PTL DEF DispatchSpec

-----------------------------------------------------------------------------
(* Types                                                                   *)

TimesInv ==
  /\ published \in Bodies \cup {None}
  /\ Len(calls) <= MaxCalls
  /\ \A i \in DOMAIN calls : calls[i].at \in 0..MaxCalls

(* Observations are numbered within the Case's budget.                     *)
LEMMA ObservationsFit ==
  ASSUME CallsInv, TimesInv, NEW i \in DOMAIN calls, i \notin Observed
  PROVE  Cardinality(Observed) + 1 \in 0..MaxCalls
  <1>1. PICK n \in Nat : n = Len(calls) /\ DOMAIN calls = 1..n
    BY SeqDomain DEF CallsInv
  <1>2. i \in 1..n /\ n <= MaxCalls /\ MaxCalls \in Nat
    BY <1>1, DispatchAssumption DEF TimesInv
  <1>3. IsFiniteSet(1..n) /\ Cardinality(1..n) = n
    BY <1>2, FS_Interval
  <1>4. IsFiniteSet((1..n) \ {i}) /\ Cardinality((1..n) \ {i}) = n - 1
    BY <1>2, <1>3, FS_RemoveElement
  <1>5. Observed \in SUBSET ((1..n) \ {i})
    BY <1>1 DEF Observed
  <1>6. IsFiniteSet(Observed) /\ Cardinality(Observed) <= n - 1
    <2>1. PICK S, T : S = (1..n) \ {i} /\ T = Observed
      OBVIOUS
    <2>2. IsFiniteSet(S) /\ T \in SUBSET S
      BY <1>4, <1>5, <2>1
    <2>3. IsFiniteSet(T) /\ Cardinality(T) <= Cardinality(S)
      BY <2>2, FS_Subset, Zenon
    <2>4. QED
      BY <1>4, <2>1, <2>3
  <1>7. Cardinality(Observed) \in Nat
    BY <1>6, FS_CardinalityType
  <1>8. QED
    BY <1>2, <1>6, <1>7

LEMMA ObserveTimes ==
  ASSUME CallsInv, TimesInv, NEW i \in DOMAIN calls, NEW answer \in Protocols \cup {None}, Observe(i, answer)
  PROVE  TimesInv'
  <1>1. i \notin Observed
    BY DEF Observe, Observed
  <1>2. PICK n \in 0..MaxCalls : n = Cardinality(Observed) + 1
    BY <1>1, ObservationsFit
  <1>3. PICK b : b = Client(i)
    OBVIOUS
  <1> DEFINE old == calls[i]
             new == [old EXCEPT !.state = "OBSERVED", !.by = b, !.answer = answer, !.at = n]
  <1>4. calls' = [calls EXCEPT ![i] = new] /\ IsCall(old) /\ IsSeq(calls) /\ UNCHANGED published
    <2>1. calls' = [calls EXCEPT ![i].state = "OBSERVED", ![i].by = b,
                                 ![i].answer = answer, ![i].at = n]
      BY <1>2, <1>3 DEF Observe
    <2>2. QED
      BY <2>1 DEF Observe, CallsInv, CallOK
  <1> HIDE DEF old
  <1>5. new.at = n
    BY <1>4 DEF IsCall
  <1> HIDE DEF new
  <1>6. /\ Len(calls') = Len(calls) /\ DOMAIN calls' = DOMAIN calls
        /\ \A k \in DOMAIN calls : calls'[k] = IF k = i THEN new ELSE calls[k]
    BY <1>4, Replaced
  <1>7. QED
    BY <1>4, <1>5, <1>6 DEF TimesInv

LEMMA MarkErrorTimes ==
  ASSUME CallsInv, TimesInv, NEW i \in DOMAIN calls, MarkError(i)
  PROVE  TimesInv'
  <1> DEFINE old == calls[i]
             new == [old EXCEPT !.state = "ERROR"]
  <1>1. calls' = [calls EXCEPT ![i] = new] /\ IsCall(old) /\ IsSeq(calls) /\ UNCHANGED published
    BY DEF MarkError, CallsInv, CallOK
  <1> HIDE DEF old
  <1>2. new.at = old.at
    BY <1>1 DEF IsCall
  <1> HIDE DEF new
  <1>3. /\ Len(calls') = Len(calls) /\ DOMAIN calls' = DOMAIN calls
        /\ \A k \in DOMAIN calls : calls'[k] = IF k = i THEN new ELSE calls[k]
    BY <1>1, Replaced
  <1>4. QED
    BY <1>1, <1>2, <1>3 DEF TimesInv, old

LEMMA ReserveTimes ==
  ASSUME CallsInv, TimesInv, NEW tool \in Tools, NEW planned \in BOOLEAN, Reserve(tool, planned)
  PROVE  TimesInv'
  <1>1. PICK new : calls' = Append(calls, new) /\ new.at = 0
    BY DEF Reserve
  <1>2. /\ Len(calls') = Len(calls) + 1 /\ DOMAIN calls' = 1..(Len(calls) + 1)
        /\ Len(calls) \in Nat /\ DOMAIN calls = 1..Len(calls)
        /\ \A i \in DOMAIN calls : calls'[i] = calls[i]
        /\ calls'[Len(calls) + 1] = new
    BY <1>1, Appended DEF CallsInv
  <1>3. Len(calls) < MaxCalls /\ MaxCalls \in Nat /\ UNCHANGED published
    BY DispatchAssumption DEF Reserve
  <1>4. QED
    BY <1>1, <1>2, <1>3 DEF TimesInv

LEMMA NextTimes ==
  CallsInv /\ TimesInv /\ [DispatchNext]_dispatchVars => TimesInv'
  <1> SUFFICES ASSUME CallsInv, TimesInv, [DispatchNext]_dispatchVars PROVE TimesInv'
    OBVIOUS
  <1>1. ASSUME UNCHANGED calls, published' \in Bodies \cup {None} PROVE TimesInv'
    BY <1>1 DEF TimesInv
  <1>2. CASE UNCHANGED dispatchVars
    BY <1>1, <1>2 DEF dispatchVars, TimesInv
  <1>3. CASE \E body \in Bodies : Activate(body)
    BY <1>1, <1>3 DEF Activate
  <1>4. CASE (\E context \in Routes : BindRoute(context)) \/ InitializeLegacy \/ Project \/ Close
    BY <1>1, <1>4 DEF BindRoute, InitializeLegacy, Project, Close, TimesInv
  <1>5. CASE \E tool \in Tools, planned \in BOOLEAN : Reserve(tool, planned)
    BY <1>5, ReserveTimes, Zenon
  <1>6. CASE \E i \in DOMAIN calls :
               MarkError(i) \/ \E answer \in Protocols \cup {None} : Observe(i, answer)
    BY <1>6, MarkErrorTimes, ObserveTimes, Zenon
  <1>7. CASE \E expected \in DOMAIN route, i \in DOMAIN calls : PromoteProtocol(expected, {i})
    BY <1>1, <1>7 DEF PromoteProtocol, TimesInv
  <1>8. QED
    BY <1>2, <1>3, <1>4, <1>5, <1>6, <1>7, Zenon DEF DispatchNext

(* For every set of definitions and routes, although the registry and the  *)
(* Case's route may move between the planner's snapshot, the reservation   *)
(* and the answer: a planned call is reserved at the very source the       *)
(* planner was shown, it is observed by the client its reservation         *)
(* recorded, and a draining source serves only Cases older than its cutoff *)
(* whose route allows it (RegistryDispatchGuard.prepare, record, client).  *)
(* The rows of calls and routes keep their types: a revision names its     *)
(* predecessor, and observations are numbered within the tool budget.      *)
THEOREM CallsReadAsMeant == DispatchSpec => []CallsReadTheirSource
  <1>1. DispatchInit => CallsInv /\ RouteInv /\ TimesInv
    <2>1. DispatchInit => TimesInv
      BY EmptyIsSeq, DispatchAssumption DEF DispatchInit, TimesInv
    <2>2. QED
      BY <2>1, InitCalls, InitRoute
  <1>2. CallsInv /\ RouteInv /\ TimesInv /\ [DispatchNext]_dispatchVars
          => CallsInv' /\ RouteInv' /\ TimesInv'
    BY NextCalls, NextRoute, NextTimes
  <1>3. CallsInv /\ RouteInv /\ TimesInv => CallsReadTheirSource
    <2>1. CallsInv /\ RouteInv /\ TimesInv => DispatchTypeOK
      BY DEF CallsInv, CallOK, RouteInv, RevisionOK, TimesInv, DispatchTypeOK
    <2>2. QED
      BY <2>1, CallsTrue DEF CallsReadTheirSource
  <1>4. QED
    BY <1>1, <1>2, <1>3, PTL DEF DispatchSpec

-----------------------------------------------------------------------------
(* What an activation may change                                           *)

(* A definition in force: accepted by register, and finite.                *)
Sound(def) == Integrity(def) /\ IsFiniteSet(DOMAIN def.capabilities)

LEMMA RuleClaims ==
  ASSUME NEW def, Integrity(def), NEW c \in DOMAIN def.capabilities
  PROVE  /\ DOMAIN RulesFor(def, c) = Claims(def.capabilities[c])
         /\ \A claim \in Claims(def.capabilities[c]) :
              /\ <<c, claim>> \in DOMAIN def.rules
              /\ RulesFor(def, c)[claim] = def.rules[<<c, claim>>]
              /\ def.rules[<<c, claim>>].authority_level \in AuthorityLevel
  <1>1. \A claim \in Claims(def.capabilities[c]) : <<c, claim>> \in DOMAIN def.rules
    BY DEF Integrity
  <1>2. \A x \in DOMAIN def.rules :
          x[2] \in Claims(def.capabilities[x[1]]) /\ def.rules[x].authority_level \in AuthorityLevel
    BY DEF Integrity, ClaimAuthorityRule
  <1> DEFINE D == {x[2] : x \in {y \in DOMAIN def.rules : y[1] = c}}
  <1>3. RulesFor(def, c) = [claim \in D |-> def.rules[<<c, claim>>]]
    BY DEF RulesFor
  <1>4. \A claim \in Claims(def.capabilities[c]) : claim \in D
    <2>1. \A claim : <<c, claim>>[1] = c /\ <<c, claim>>[2] = claim
      OBVIOUS
    <2>2. QED
      BY <1>1, <2>1
  <1>5. \A claim \in D : claim \in Claims(def.capabilities[c])
    BY <1>2
  <1>6. D = Claims(def.capabilities[c])
    BY <1>4, <1>5
  <1> HIDE DEF D
  <1>7. QED
    BY <1>1, <1>2, <1>3, <1>6

(* The level at which a source answers a claim is its rule's.              *)
LEMMA LevelOfClaim ==
  ASSUME NEW def, Integrity(def), NEW c \in DOMAIN def.capabilities, NEW claim,
         claim \notin UncollectedClaimType
  PROVE  /\ claim \in Claims(def.capabilities[c]) =>
              /\ LevelFor(def, c, claim) = def.rules[<<c, claim>>].authority_level
              /\ LevelFor(def, c, claim) \in AuthorityLevel
         /\ claim \notin Claims(def.capabilities[c]) => LevelFor(def, c, claim) = None
  <1>1. def.capabilities[c].contributes_requirements \subseteq UncollectedClaimType
    BY DEF Integrity, CapabilityDefinition
  <1>2. QED
    BY <1>1, RuleClaims DEF LevelFor

LEMMA Ranks ==
  /\ AUTHORITY_ORDER["AUTHORITATIVE"] = 0 /\ AUTHORITY_ORDER["CORROBORATING"] = 1
  /\ AUTHORITY_ORDER["DIAGNOSTIC"] = 2
  /\ \A l \in AuthorityLevel : AUTHORITY_ORDER[l] \in Nat /\ (AUTHORITY_ORDER[l] = 0 <=> l = "AUTHORITATIVE")
  BY DEF AUTHORITY_ORDER, AuthorityLevel

LEMMA FiniteCandidates ==
  ASSUME NEW def, Sound(def), NEW r, NEW S, S \subseteq Candidates(def, Case, r)
  PROVE  IsFiniteSet(S) /\ S \subseteq DOMAIN def.capabilities
  <1>1. S \in SUBSET DOMAIN def.capabilities
    BY DEF Candidates
  <1>2. PICK T : T = DOMAIN def.capabilities
    OBVIOUS
  <1>3. IsFiniteSet(T) /\ S \in SUBSET T
    BY <1>1, <1>2 DEF Sound
  <1>4. IsFiniteSet(S)
    BY <1>3, FS_Subset, Zenon
  <1>5. QED
    BY <1>1, <1>4

(* Verification by tool name reaches the one best source of the claim.     *)
LEMMA AuthorityIsReached ==
  ASSUME NEW def, Sound(def), NEW claim, NEW r, claim \notin UncollectedClaimType
  PROVE  ReachesAuthority(def, claim, r)
  <1> DEFINE eligible == Candidates(def, Case, r)
             Rank(c) == AUTHORITY_ORDER[LevelFor(def, c, claim)]
             entries == {c \in eligible : LevelFor(def, c, claim) # None}
             best == {c \in entries : \A o \in entries : Rank(c) <= Rank(o)}
             x == Resolve(def, Case, claim, r)
             tool == x.tool_name
             found == {c \in eligible : def.capabilities[c].tool_name = tool}
  <1> SUFFICES ASSUME VerificationTool(def, Case, claim, r) # None
               PROVE  \E c \in eligible :
                        /\ \A o \in eligible \ {c} : def.capabilities[o].tool_name # tool
                        /\ def.capabilities[c].tool_name = tool
                        /\ \A o \in eligible \ {c} :
                             LevelFor(def, o, claim) # None => Rank(c) < Rank(o)
    BY DEF ReachesAuthority, VerificationTool
  <1>1. x # None /\ ResolveTool(def, Case, tool, r) = x
    BY DEF VerificationTool
  <1>2. Cardinality(best) = 1 /\ x = Resolved(def, r, CHOOSE c \in best : TRUE)
    BY <1>1 DEF Resolve
  <1>3. Cardinality(found) = 1 /\ x = Resolved(def, r, CHOOSE c \in found : TRUE)
    BY <1>1 DEF ResolveTool
  <1>4. PICK c : best = {c}
    <2>1. IsFiniteSet(best)
      BY FiniteCandidates
    <2> HIDE DEF best
    <2>2. QED
      BY <1>2, <2>1, FS_Singleton
  <1>5. PICK d : found = {d}
    <2>1. IsFiniteSet(found)
      BY FiniteCandidates
    <2> HIDE DEF found
    <2>2. QED
      BY <1>3, <2>1, FS_Singleton
  <1>6. x = Resolved(def, r, c) /\ x = Resolved(def, r, d)
    <2>1. (CHOOSE y \in best : TRUE) = c
      <3> HIDE DEF best
      <3>1. QED
        BY <1>4
    <2>2. (CHOOSE y \in found : TRUE) = d
      <3> HIDE DEF found
      <3>1. QED
        BY <1>5
    <2>3. QED
      BY <1>2, <1>3, <2>1, <2>2
  <1>7. c = d
    <2>1. Resolved(def, r, c).capability_id = c /\ Resolved(def, r, d).capability_id = d
      BY ResolvedShape
    <2>2. QED
      BY <1>6, <2>1
  <1>8. \A o \in entries : Rank(o) \in Nat
    <2>1. \A o \in entries : LevelFor(def, o, claim) \in AuthorityLevel
      <3>1. ASSUME NEW o \in entries PROVE LevelFor(def, o, claim) \in AuthorityLevel
        <4>1. o \in DOMAIN def.capabilities /\ LevelFor(def, o, claim) # None /\ Integrity(def)
          BY DEF Candidates, Sound
        <4>2. QED
          BY <4>1, LevelOfClaim
      <3>2. QED
        BY <3>1
    <2>2. QED
      BY <2>1, Ranks
  <1>9. c \in best /\ d \in found
    BY <1>4, <1>5
  <1>10. ASSUME NEW o \in eligible \ {c}, LevelFor(def, o, claim) # None
         PROVE  Rank(c) < Rank(o)
    <2>1. o \in entries /\ o \notin best /\ c \in entries
      BY <1>4, <1>9, <1>10
    <2>2. \A y \in entries : Rank(c) <= Rank(y)
      BY <1>9
    <2> HIDE DEF Rank
    <2>3. Rank(o) # Rank(c)
      BY <2>1, <2>2
    <2>4. QED
      BY <1>8, <2>1, <2>2, <2>3
  <1>11. \A o \in eligible \ {c} : def.capabilities[o].tool_name # tool
    BY <1>5, <1>7
  <1>12. QED
    BY <1>7, <1>9, <1>10, <1>11


(* Equal operational fields make a source equally eligible.                *)
LEMMA SameEligibility ==
  ASSUME NEW s, NEW y, Operational(s) = Operational(y), NEW r
  PROVE  Eligible(s, Case, r) <=> Eligible(y, Case, r)
  <1>1. /\ Operational(s)["scope"] = s["scope"] /\ Operational(s)["status"] = s["status"]
        /\ Operational(s)["effective_from"] = s["effective_from"]
        /\ Operational(s)["effective_until"] = s["effective_until"]
        /\ Operational(s)["draining_since"] = s["draining_since"]
    BY DEF Operational
  <1>2. /\ Operational(y)["scope"] = y["scope"] /\ Operational(y)["status"] = y["status"]
        /\ Operational(y)["effective_from"] = y["effective_from"]
        /\ Operational(y)["effective_until"] = y["effective_until"]
        /\ Operational(y)["draining_since"] = y["draining_since"]
    BY DEF Operational
  <1>3. /\ s.scope = y.scope /\ s.status = y.status /\ s.effective_from = y.effective_from
        /\ s.effective_until = y.effective_until /\ s.draining_since = y.draining_since
    BY <1>1, <1>2
  <1>4. QED
    BY <1>3 DEF Eligible

(* Both definitions have the capability, its rules and its source alike.   *)
Alike(a, b, c) ==
  /\ c \in DOMAIN a.capabilities /\ c \in DOMAIN b.capabilities
  /\ a.capabilities[c] = b.capabilities[c]
  /\ RulesFor(a, c) = RulesFor(b, c)
  /\ LET s == a.capabilities[c].system_id IN Operational(a.systems[s]) = Operational(b.systems[s])

LEMMA UnchangedIsAlike ==
  ASSUME NEW a, NEW b, Integrity(a), Integrity(b), NEW c \in DOMAIN a.capabilities,
         c \notin ChangedCapabilities(a, b)
  PROVE  Alike(a, b, c)
  <1> DEFINE Fa == [s \in DOMAIN a.systems |-> Operational(a.systems[s])]
             Fb == [s \in DOMAIN b.systems |-> Operational(b.systems[s])]
             sources == Differing(Fa, Fb)
             s == a.capabilities[c].system_id
  <1>1. /\ c \notin Differing(a.capabilities, b.capabilities)
        /\ \A x \in Differing(a.rules, b.rules) : x[1] # c
        /\ s \notin sources
    BY DEF ChangedCapabilities
  <1>2. c \in DOMAIN b.capabilities /\ a.capabilities[c] = b.capabilities[c]
    BY <1>1 DEF Differing
  <1>3. RulesFor(a, c) = RulesFor(b, c)
    <2>1. PICK T : T = Claims(a.capabilities[c])
      OBVIOUS
    <2>2. /\ DOMAIN RulesFor(a, c) = T /\ DOMAIN RulesFor(b, c) = T
          /\ \A claim \in T :
               /\ <<c, claim>> \in DOMAIN a.rules /\ RulesFor(a, c)[claim] = a.rules[<<c, claim>>]
               /\ <<c, claim>> \in DOMAIN b.rules /\ RulesFor(b, c)[claim] = b.rules[<<c, claim>>]
      BY <1>2, <2>1, RuleClaims
    <2>3. \A claim \in T : a.rules[<<c, claim>>] = b.rules[<<c, claim>>]
      <3>1. \A claim : <<c, claim>>[1] = c
        OBVIOUS
      <3>2. QED
        BY <1>1, <2>2, <3>1 DEF Differing
    <2>4. PICK f, g : f = RulesFor(a, c) /\ g = RulesFor(b, c)
      OBVIOUS
    <2>5. f = [claim \in T |-> f[claim]] /\ g = [claim \in T |-> g[claim]]
      BY <2>2, <2>4 DEF RulesFor
    <2>6. \A claim \in T : f[claim] = g[claim]
      BY <2>2, <2>3, <2>4
    <2>7. QED
      BY <2>4, <2>5, <2>6
  <1>4. Operational(a.systems[s]) = Operational(b.systems[s])
    <2>1. s \in DOMAIN a.systems /\ s \in DOMAIN b.systems
      BY <1>2 DEF Integrity
    <2>2. Fa[s] = Fb[s]
      BY <1>1, <2>1 DEF Differing
    <2>3. QED
      BY <2>1, <2>2
  <1>5. QED
    BY <1>2, <1>3, <1>4 DEF Alike

LEMMA AlikeCandidate ==
  ASSUME NEW a, NEW b, NEW c, Alike(a, b, c), NEW r
  PROVE  c \in Candidates(a, Case, r) => c \in Candidates(b, Case, r)
  <1>1. PICK s : s = a.capabilities[c].system_id
    OBVIOUS
  <1>2. Eligible(a.systems[s], Case, r) => Eligible(b.systems[s], Case, r)
    BY <1>1, SameEligibility DEF Alike
  <1>3. QED
    BY <1>1, <1>2 DEF Candidates, Alike

LEMMA DiffersBothWays ==
  ASSUME NEW a, NEW b
  PROVE  ChangedCapabilities(a, b) = ChangedCapabilities(b, a)
  <1>1. \A f, g : Differing(f, g) = Differing(g, f)
    BY DEF Differing
  <1>2. QED
    BY <1>1 DEF ChangedCapabilities

(* None of the changed capabilities is one of the tool's.                  *)
Unlisted(a, b, t) ==
  \A c \in ChangedCapabilities(a, b) : \A d \in {a, b} :
    c \in DOMAIN d.capabilities => d.capabilities[c].tool_name # t

ToolSources(def, t, r) == {c \in Candidates(def, Case, r) : def.capabilities[c].tool_name = t}

(* The capabilities of a tool that the change does not list are in both.   *)
LEMMA UnlistedToolIsSame ==
  ASSUME NEW a, NEW b, Integrity(a), Integrity(b), NEW t, NEW r, Unlisted(a, b, t)
  PROVE  /\ ToolSources(a, t, r) \subseteq ToolSources(b, t, r)
         /\ \A c \in ToolSources(a, t, r) : Alike(a, b, c)
  <1>1. ASSUME NEW c \in ToolSources(a, t, r) PROVE Alike(a, b, c)
    <2>1. c \in DOMAIN a.capabilities /\ a.capabilities[c].tool_name = t
      BY DEF Candidates, ToolSources
    <2>2. c \notin ChangedCapabilities(a, b)
      BY <2>1 DEF Unlisted
    <2>3. QED
      BY <2>1, <2>2, UnchangedIsAlike
  <1>2. ASSUME NEW c \in ToolSources(a, t, r) PROVE c \in ToolSources(b, t, r)
    <2>1. Alike(a, b, c)
      BY <1>1
    <2>2. QED
      BY <2>1, AlikeCandidate DEF Alike, ToolSources
  <1>3. QED
    BY <1>1, <1>2

LEMMA ToolChangeIsListed ==
  ASSUME NEW a, NEW b, Integrity(a), Integrity(b), NEW t, NEW r,
         \A c \in DOMAIN a.capabilities : Resolved(a, r, c) # None,
         \A c \in DOMAIN b.capabilities : Resolved(b, r, c) # None,
         Unlisted(a, b, t)
  PROVE  ToolOutcome(a, t, r) = ToolOutcome(b, t, r)
  <1>1. PICK S : S = ToolSources(a, t, r)
    OBVIOUS
  <1>2. S = ToolSources(b, t, r) /\ \A c \in S : Alike(a, b, c)
    <2>1. Unlisted(b, a, t)
      BY DiffersBothWays DEF Unlisted
    <2>2. ToolSources(b, t, r) \subseteq ToolSources(a, t, r)
      BY <2>1, UnlistedToolIsSame
    <2>3. QED
      BY <1>1, <2>2, UnlistedToolIsSame
  <1>3. \A def : ResolveTool(def, Case, t, r) =
                   IF Cardinality(ToolSources(def, t, r)) # 1 THEN None
                   ELSE Resolved(def, r, CHOOSE c \in ToolSources(def, t, r) : TRUE)
    BY DEF ResolveTool, ToolSources
  <1>4. CASE Cardinality(S) # 1
    <2>1. ResolveTool(a, Case, t, r) = None /\ ResolveTool(b, Case, t, r) = None
      BY <1>1, <1>2, <1>3, <1>4
    <2>2. ToolOutcome(a, t, r) = None /\ ToolOutcome(b, t, r) = None
      BY <2>1 DEF ToolOutcome
    <2>3. QED
      BY <2>2
  <1>5. CASE Cardinality(S) = 1
    <2>1. S # {}
      BY <1>5, FS_EmptySet
    <2>2. PICK c \in S : c = CHOOSE y \in S : TRUE
      BY <2>1
    <2>3. PICK x, y : x = Resolved(a, r, c) /\ y = Resolved(b, r, c)
      OBVIOUS
    <2>4. ResolveTool(a, Case, t, r) = x /\ ResolveTool(b, Case, t, r) = y
      BY <1>1, <1>2, <1>3, <1>5, <2>2, <2>3
    <2>5. Alike(a, b, c) /\ x # None /\ y # None
      BY <1>2, <2>3 DEF Alike
    <2>6. /\ IsSource(x) /\ IsSource(y)
          /\ x.capability_id = y.capability_id /\ x.system_id = y.system_id
          /\ x.adapter_id = y.adapter_id /\ x.tool_name = y.tool_name
          /\ x.claim_types = y.claim_types /\ x.authority = y.authority
          /\ x.routing_fingerprint = y.routing_fingerprint
      BY <2>3, <2>5, ResolvedShape DEF Alike
    <2>7. [x EXCEPT !.registry_version = None] = [y EXCEPT !.registry_version = None]
      BY <2>6 DEF IsSource
    <2>8. QED
      BY <2>4, <2>5, <2>7 DEF ToolOutcome
  <1>6. QED
    BY <1>4, <1>5


-----------------------------------------------------------------------------
(* The authoritative source of payment finality                            *)

(* The candidates that answer for payment finality with full authority.    *)
Deciding(def, r) ==
  {c \in Candidates(def, Case, r) :
     /\ "PAYMENT_FINALITY" \in Claims(def.capabilities[c])
     /\ def.rules[<<c, "PAYMENT_FINALITY">>].authority_level = "AUTHORITATIVE"}

(* The two reasons that keep the answer to this question in view.          *)
Calm(a, b) ==
  LET payment == PaymentCapabilities(a) \cup PaymentCapabilities(b) IN
  /\ \A x \in Differing(a.rules, b.rules) : x[2] # "PAYMENT_FINALITY"
  /\ \A c \in payment : c \notin Differing(a.capabilities, b.capabilities)
  /\ \A d \in {a, b} : \A c \in payment \cap DOMAIN d.capabilities :
       d.capabilities[c].system_id \notin Differing(a.systems, b.systems)

LEMMA NoReasonIsCalm ==
  ASSUME NEW a, NEW b, RiskReasons(a, b) = {}
  PROVE  Calm(a, b)
  <1>1. "PAYMENT_FINALITY_AUTHORITY_CHANGE" \notin RiskReasons(a, b)
        /\ "PAYMENT_FINALITY_SOURCE_CHANGE" \notin RiskReasons(a, b)
    OBVIOUS
  <1>2. \A x \in Differing(a.rules, b.rules) : x[2] # "PAYMENT_FINALITY"
    BY <1>1 DEF RiskReasons
  <1> DEFINE payment == PaymentCapabilities(a) \cup PaymentCapabilities(b)
             paymentSystems == UNION {{d.capabilities[c].system_id : c \in payment \cap DOMAIN d.capabilities}
                                        : d \in {a, b}}
  <1>3. Differing(a.capabilities, b.capabilities) \cap payment = {}
        /\ Differing(a.systems, b.systems) \cap paymentSystems = {}
    BY <1>1 DEF RiskReasons
  <1>4. QED
    BY <1>2, <1>3 DEF Calm

LEMMA CalmBothWays ==
  ASSUME NEW a, NEW b, Calm(a, b)
  PROVE  Calm(b, a)
  <1>1. \A f, g : Differing(f, g) = Differing(g, f)
    BY DEF Differing
  <1>2. QED
    BY <1>1 DEF Calm

LEMMA DecidingIsKept ==
  ASSUME NEW a, NEW b, Integrity(a), Integrity(b), Calm(a, b), NEW r, NEW c \in Deciding(a, r)
  PROVE  /\ c \in Deciding(b, r) /\ a.capabilities[c] = b.capabilities[c]
         /\ a.rules[<<c, "PAYMENT_FINALITY">>] = b.rules[<<c, "PAYMENT_FINALITY">>]
  <1>0. <<c, "PAYMENT_FINALITY">>[1] = c /\ <<c, "PAYMENT_FINALITY">>[2] = "PAYMENT_FINALITY"
    OBVIOUS
  <1>1. PICK k : k = <<c, "PAYMENT_FINALITY">> /\ k[1] = c /\ k[2] = "PAYMENT_FINALITY"
    BY <1>0, Zenon
  <1>2. /\ c \in DOMAIN a.capabilities /\ k \in DOMAIN a.rules
        /\ a.rules[k].authority_level = "AUTHORITATIVE"
    BY <1>1, RuleClaims DEF Deciding, Candidates
  <1>3. c \in PaymentCapabilities(a)
    BY <1>1, <1>2 DEF PaymentCapabilities
  <1>4. c \in DOMAIN b.capabilities /\ a.capabilities[c] = b.capabilities[c]
    BY <1>2, <1>3 DEF Calm, Differing
  <1>5. k \in DOMAIN b.rules /\ a.rules[k] = b.rules[k]
    BY <1>1, <1>2 DEF Calm, Differing
  <1>6. PICK s : s = a.capabilities[c].system_id
    OBVIOUS
  <1>7. a.systems[s] = b.systems[s]
    <2>1. s \notin Differing(a.systems, b.systems)
      BY <1>2, <1>3, <1>6 DEF Calm
    <2>2. s \in DOMAIN a.systems
      BY <1>2, <1>6 DEF Integrity
    <2>3. QED
      BY <2>1, <2>2 DEF Differing
  <1>8. c \in Candidates(b, Case, r)
    BY <1>4, <1>6, <1>7 DEF Deciding, Candidates
  <1>9. QED
    BY <1>1, <1>2, <1>4, <1>5, <1>8 DEF Deciding

LEMMA FinalityIsClaim == "PAYMENT_FINALITY" \notin UncollectedClaimType /\ "PROTOCOL_FIELD_TYPE" \notin UncollectedClaimType
  BY DEF UncollectedClaimType

(* If some candidate has full authority, those are the best.               *)
LEMMA DecidingIsBest ==
  ASSUME NEW def, Integrity(def), NEW r, Deciding(def, r) # {}
  PROVE  Resolve(def, Case, "PAYMENT_FINALITY", r) =
           IF Cardinality(Deciding(def, r)) # 1 THEN None
           ELSE Resolved(def, r, CHOOSE c \in Deciding(def, r) : TRUE)
  <1> DEFINE claim == "PAYMENT_FINALITY"
             Level(c) == LevelFor(def, c, claim)
             entries == {c \in Candidates(def, Case, r) : Level(c) # None}
             best == {c \in entries : \A o \in entries : AUTHORITY_ORDER[Level(c)] <= AUTHORITY_ORDER[Level(o)]}
  <1>1. \A c \in Candidates(def, Case, r) :
          /\ claim \in Claims(def.capabilities[c]) =>
               Level(c) = def.rules[<<c, claim>>].authority_level /\ Level(c) \in AuthorityLevel
          /\ claim \notin Claims(def.capabilities[c]) => Level(c) = None
    BY LevelOfClaim, FinalityIsClaim DEF Candidates
  <1>2. \A c \in entries : Level(c) \in AuthorityLevel
                           /\ (c \in Deciding(def, r) <=> Level(c) = "AUTHORITATIVE")
    BY <1>1 DEF Deciding
  <1>3. \A c \in Deciding(def, r) : c \in entries
    BY <1>1, DispatchAssumption DEF Deciding
  <1>4. PICK d \in Deciding(def, r) : TRUE
    OBVIOUS
  <1>5. best = Deciding(def, r)
    <2> HIDE DEF Level
    <2>1. \A c \in entries : AUTHORITY_ORDER[Level(c)] \in Nat
                             /\ (AUTHORITY_ORDER[Level(c)] = 0 <=> Level(c) = "AUTHORITATIVE")
      BY <1>2, Ranks
    <2>2. AUTHORITY_ORDER[Level(d)] = 0 /\ d \in entries
      BY <1>2, <1>3, <2>1
    <2> HIDE DEF entries
    <2>3. \A c \in best : c \in Deciding(def, r)
      BY <1>2, <2>1, <2>2
    <2>4. \A c \in Deciding(def, r) : c \in best
      BY <1>2, <1>3, <2>1
    <2>5. QED
      BY <2>3, <2>4
  <1>6. Resolve(def, Case, claim, r) =
          IF Cardinality(best) # 1 THEN None ELSE Resolved(def, r, CHOOSE c \in best : TRUE)
    BY DEF Resolve
  <1> HIDE DEF best
  <1>7. QED
    BY <1>5, <1>6


LEMMA AuthorityDecides ==
  ASSUME NEW def, Integrity(def), NEW r, IsAuthoritative(Outcome(def, "PAYMENT_FINALITY", r))
  PROVE  Deciding(def, r) # {}
  <1> DEFINE claim == "PAYMENT_FINALITY"
             Level(c) == LevelFor(def, c, claim)
             entries == {c \in Candidates(def, Case, r) : Level(c) # None}
             best == {c \in entries : \A o \in entries : AUTHORITY_ORDER[Level(c)] <= AUTHORITY_ORDER[Level(o)]}
  <1>1. PICK x : x = Resolve(def, Case, claim, r)
    OBVIOUS
  <1>2. x # None /\ [x EXCEPT !.registry_version = None, !.authority = x.authority[claim]].authority.authority_level
                      = "AUTHORITATIVE"
    BY <1>1 DEF Outcome, IsAuthoritative
  <1>3. x = IF Cardinality(best) # 1 THEN None ELSE Resolved(def, r, CHOOSE c \in best : TRUE)
    BY <1>1 DEF Resolve
  <1>4. PICK c \in entries : x = Resolved(def, r, c)
    <2>1. best \subseteq entries
      OBVIOUS
    <2> HIDE DEF best
    <2>2. Cardinality(best) = 1
      BY <1>2, <1>3
    <2>3. best # {}
      BY <2>2, FS_EmptySet
    <2>4. QED
      BY <1>3, <2>1, <2>2, <2>3
  <1>5. c \in DOMAIN def.capabilities /\ c \in Candidates(def, Case, r) /\ Level(c) # None
    BY DEF Candidates
  <1>6. claim \in Claims(def.capabilities[c])
    BY <1>5, LevelOfClaim, FinalityIsClaim
  <1>7. IsSource(x) /\ x.authority = RulesFor(def, c)
    BY <1>4, ResolvedShape
  <1>8. x.authority[claim] = def.rules[<<c, claim>>]
    BY <1>5, <1>6, <1>7, RuleClaims
  <1>9. PICK a : a = x.authority[claim]
    OBVIOUS
  <1>10. [x EXCEPT !.registry_version = None, !.authority = a].authority = a
    BY <1>7 DEF IsSource
  <1>11. a.authority_level = "AUTHORITATIVE"
    BY <1>2, <1>9, <1>10
  <1>12. QED
    BY <1>5, <1>6, <1>8, <1>9, <1>11 DEF Deciding

LEMMA FinalityChangeIsRisky ==
  ASSUME NEW a, NEW b, Integrity(a), Integrity(b), NEW r, Calm(a, b),
         \A c \in DOMAIN a.capabilities : Resolved(a, r, c) # None,
         \A c \in DOMAIN b.capabilities : Resolved(b, r, c) # None,
         \/ IsAuthoritative(Outcome(a, "PAYMENT_FINALITY", r))
         \/ IsAuthoritative(Outcome(b, "PAYMENT_FINALITY", r))
  PROVE  Outcome(a, "PAYMENT_FINALITY", r) = Outcome(b, "PAYMENT_FINALITY", r)
  <1> DEFINE claim == "PAYMENT_FINALITY"
  <1>1. PICK S : S = Deciding(a, r)
    OBVIOUS
  <1>2. S = Deciding(b, r)
    <2>1. \A c \in Deciding(a, r) : c \in Deciding(b, r)
      BY DecidingIsKept
    <2>2. Calm(b, a)
      BY CalmBothWays
    <2>3. \A c \in Deciding(b, r) : c \in Deciding(a, r)
      BY <2>2, DecidingIsKept
    <2>4. QED
      BY <1>1, <2>1, <2>3
  <1>3. S # {}
    BY <1>1, <1>2, AuthorityDecides
  <1>4. Resolve(a, Case, claim, r) = IF Cardinality(S) # 1 THEN None
                                    ELSE Resolved(a, r, CHOOSE c \in S : TRUE)
    BY <1>1, <1>3, DecidingIsBest
  <1>5. Resolve(b, Case, claim, r) = IF Cardinality(S) # 1 THEN None
                                    ELSE Resolved(b, r, CHOOSE c \in S : TRUE)
    BY <1>2, <1>3, DecidingIsBest
  <1>6. CASE Cardinality(S) # 1
    <2>1. Outcome(a, claim, r) = None /\ Outcome(b, claim, r) = None
      BY <1>4, <1>5, <1>6 DEF Outcome
    <2>2. QED
      BY <2>1
  <1>7. CASE Cardinality(S) = 1
    <2>1. PICK c \in S : c = CHOOSE y \in S : TRUE
      BY <1>3
    <2>2. PICK x, y : x = Resolved(a, r, c) /\ y = Resolved(b, r, c)
      OBVIOUS
    <2>3. Resolve(a, Case, claim, r) = x /\ Resolve(b, Case, claim, r) = y
      BY <1>4, <1>5, <1>7, <2>1, <2>2
    <2>4. /\ a.capabilities[c] = b.capabilities[c]
          /\ a.rules[<<c, claim>>] = b.rules[<<c, claim>>]
      BY <1>1, DecidingIsKept
    <2>5. /\ c \in DOMAIN a.capabilities /\ claim \in Claims(a.capabilities[c])
          /\ c \in DOMAIN b.capabilities /\ claim \in Claims(b.capabilities[c])
      BY <1>1, <1>2, <2>1 DEF Deciding, Candidates
    <2>6. /\ IsSource(x) /\ IsSource(y)
          /\ x.capability_id = y.capability_id /\ x.system_id = y.system_id
          /\ x.adapter_id = y.adapter_id /\ x.tool_name = y.tool_name
          /\ x.claim_types = y.claim_types
          /\ x.routing_fingerprint = y.routing_fingerprint
          /\ x.authority = RulesFor(a, c) /\ y.authority = RulesFor(b, c)
      BY <2>2, <2>4, ResolvedShape
    <2>7. PICK u : u = x.authority[claim]
      OBVIOUS
    <2>8. u = y.authority[claim]
      BY <2>4, <2>5, <2>6, <2>7, RuleClaims
    <2>9. [x EXCEPT !.registry_version = None, !.authority = u]
            = [y EXCEPT !.registry_version = None, !.authority = u]
      BY <2>6 DEF IsSource
    <2>10. x # None /\ y # None
      BY <2>2, <2>5
    <2>11. QED
      BY <2>3, <2>7, <2>8, <2>9, <2>10 DEF Outcome
  <1>8. QED
    BY <1>6, <1>7

(* What is published was accepted.                                         *)
PublishedOK ==
  published # None => published \in Bodies /\ Integrity(ReadDefinition(published))

LEMMA ReadsSound ==
  ASSUME NEW body \in Bodies, Integrity(ReadDefinition(body))
  PROVE  /\ Sound(ReadDefinition(body))
         /\ \A r \in Routes : \A c \in DOMAIN ReadDefinition(body).capabilities :
              Resolved(ReadDefinition(body), r, c) # None
  <1>1. ReadDefinition(body).capabilities = body.capabilities
    BY DEF ReadDefinition
  <1>2. QED
    BY <1>1, DispatchAssumption DEF Sound

(* What the activation property says of one step.                          *)
ActivationStep ==
  (published # None /\ published' # published) =>
    \A r \in Routes :
      LET a == Outcome(InForce, "PAYMENT_FINALITY", r)
          b == Outcome(InForce', "PAYMENT_FINALITY", r)
      IN  /\ (a # b /\ (IsAuthoritative(a) \/ IsAuthoritative(b)))
               => RiskReasons(InForce, InForce') # {}
          /\ \A t \in Tools :
               ToolOutcome(InForce, t, r) # ToolOutcome(InForce', t, r) =>
                 \E c \in ChangedCapabilities(InForce, InForce') :
                   \E d \in {InForce, InForce'} :
                     c \in DOMAIN d.capabilities /\ d.capabilities[c].tool_name = t
          /\ \A claim \in {"PAYMENT_FINALITY", "PROTOCOL_FIELD_TYPE"} :
               ReachesAuthority(InForce', claim, r)

LEMMA ActivateIsUnderstood ==
  ASSUME PublishedOK, NEW body \in Bodies, Activate(body)
  PROVE  PublishedOK' /\ ActivationStep
  <1>1. published' = body /\ Integrity(ReadDefinition(body))
    BY DEF Activate
  <1>2. PublishedOK'
    BY <1>1 DEF PublishedOK
  <1>3. ASSUME published # None, NEW r \in Routes
        PROVE  LET a == Outcome(InForce, "PAYMENT_FINALITY", r)
                   b == Outcome(InForce', "PAYMENT_FINALITY", r)
               IN  /\ (a # b /\ (IsAuthoritative(a) \/ IsAuthoritative(b)))
                        => RiskReasons(InForce, InForce') # {}
                   /\ \A t \in Tools :
                        ToolOutcome(InForce, t, r) # ToolOutcome(InForce', t, r) =>
                          \E c \in ChangedCapabilities(InForce, InForce') :
                            \E d \in {InForce, InForce'} :
                              c \in DOMAIN d.capabilities /\ d.capabilities[c].tool_name = t
                   /\ \A claim \in {"PAYMENT_FINALITY", "PROTOCOL_FIELD_TYPE"} :
                        ReachesAuthority(InForce', claim, r)
    <2>1. PICK x, y : x = InForce /\ y = InForce'
      OBVIOUS
    <2>2. /\ Sound(x) /\ Sound(y) /\ Integrity(x) /\ Integrity(y)
          /\ \A c \in DOMAIN x.capabilities : Resolved(x, r, c) # None
          /\ \A c \in DOMAIN y.capabilities : Resolved(y, r, c) # None
      BY <1>1, <1>3, <2>1, ReadsSound DEF InForce, PublishedOK, Sound
    <2>3. (Outcome(x, "PAYMENT_FINALITY", r) # Outcome(y, "PAYMENT_FINALITY", r)
           /\ (IsAuthoritative(Outcome(x, "PAYMENT_FINALITY", r))
               \/ IsAuthoritative(Outcome(y, "PAYMENT_FINALITY", r))))
             => RiskReasons(x, y) # {}
      BY <2>2, NoReasonIsCalm, FinalityChangeIsRisky
    <2>4. ASSUME NEW t \in Tools, ToolOutcome(x, t, r) # ToolOutcome(y, t, r)
          PROVE  \E c \in ChangedCapabilities(x, y) : \E d \in {x, y} :
                   c \in DOMAIN d.capabilities /\ d.capabilities[c].tool_name = t
      <3>1. ~Unlisted(x, y, t)
        BY <2>2, <2>4, ToolChangeIsListed
      <3>2. QED
        BY <3>1 DEF Unlisted
    <2>5. \A claim \in {"PAYMENT_FINALITY", "PROTOCOL_FIELD_TYPE"} : ReachesAuthority(y, claim, r)
      BY <2>2, AuthorityIsReached, FinalityIsClaim
    <2>6. QED
      BY <2>1, <2>3, <2>4, <2>5
  <1>4. QED
    BY <1>2, <1>3 DEF ActivationStep

LEMMA NextPublished ==
  PublishedOK /\ [DispatchNext]_dispatchVars => PublishedOK' /\ ActivationStep
  <1> SUFFICES ASSUME PublishedOK, [DispatchNext]_dispatchVars PROVE PublishedOK' /\ ActivationStep
    OBVIOUS
  <1>1. ASSUME UNCHANGED published PROVE PublishedOK' /\ ActivationStep
    BY <1>1 DEF PublishedOK, ActivationStep
  <1>2. CASE \E body \in Bodies : Activate(body)
    BY <1>2, ActivateIsUnderstood, Zenon
  <1>3. CASE UNCHANGED dispatchVars
    BY <1>1, <1>3 DEF dispatchVars
  <1>4. CASE DispatchNext /\ ~ \E body \in Bodies : Activate(body)
    <2>1. UNCHANGED published
      BY <1>4 DEF DispatchNext, BindRoute, InitializeLegacy, Project, Close, Reserve, MarkError,
                  Observe, PromoteProtocol
    <2>2. QED
      BY <1>1, <2>1
  <1>5. QED
    BY <1>2, <1>3, <1>4

(* An activation brings no surprise, for any two definitions the registry  *)
(* accepts and any route: the authoritative source of payment finality is  *)
(* not replaced, removed or added, nor its rule for the claim changed,     *)
(* without version_diff calling the change high-risk; a tool that resolves *)
(* differently has a capability that changed_capability_types starts from; *)
(* and verification by tool name still reaches the one eligible source of  *)
(* the best level for the claim.                                           *)
THEOREM ActivationsUnderstood == DispatchSpec => ActivationIsUnderstood
  <1>1. DispatchInit => PublishedOK
    BY DEF DispatchInit, PublishedOK
  <1>2. PublishedOK /\ [DispatchNext]_dispatchVars => PublishedOK' /\ ActivationStep
    BY NextPublished
  <1>3. ActivationIsUnderstood <=> [][ActivationStep]_dispatchVars
    BY PTL DEF ActivationIsUnderstood, ActivationStep
  <1>4. QED
    BY <1>1, <1>2, <1>3, PTL DEF DispatchSpec
=============================================================================

---------------------------- MODULE FramesProofs ----------------------------
(***************************************************************************)
(* What a reader of a Case is shown, for every set of replicas and         *)
(* clients, every lifetime, page and cache size: ShownFrameIsTrue,         *)
(* QuietBuildSucceeds and CursorsSurviveRotation of InvestigationFrames.   *)
(***************************************************************************)
EXTENDS InvestigationFrames, SequenceTheorems, FiniteSetTheorems, TLAPS

(***************************************************************************)
(* The Case.                                                               *)
(***************************************************************************)
\* A report was made at the revision it names or before.
ReportOK(d, r) ==
  /\ r.read = [p \in SnapshotParts |-> r.read[p]]
  /\ r.read["revision"] \in Nat /\ r.read["revision"] <= d.revision

\* The closure of a closed Case agrees with it, and no report was made at
\* the revision that closed it.
ClosureOK(d) ==
  \E r \in d.reports :
    /\ d.closure = {r} /\ r.verdict = "PASS"
    /\ r.read["evidence"] = d.evidence /\ r.read["ledger"] = d.ledger /\ r.read["calls"] = d.calls
    /\ d.revision = r.read["revision"] + 1
    /\ \A x \in d.reports : x.read["revision"] < d.revision

DbShape(d) ==
  /\ d = [revision |-> d.revision, evidence |-> d.evidence, calls |-> d.calls,
          ledger |-> d.ledger, recovery |-> d.recovery, other |-> d.other,
          status |-> d.status, reports |-> d.reports, closure |-> d.closure]
  /\ d.revision \in Nat /\ d.evidence \in Nat /\ d.calls \in Nat
  /\ d.ledger \in Nat /\ d.recovery \in Nat /\ d.other \in Nat

DbOK(d) ==
  /\ DbShape(d)
  /\ \A r \in d.reports : ReportOK(d, r)
  /\ \/ d.status = "OPEN" /\ d.closure = {}
     \/ d.status = "CLOSED_VERIFIED" /\ ClosureOK(d)

(* The projection never finds a Case at odds with its closure, and shows   *)
(* the closing report as the one current evaluation.                       *)
LEMMA CaseIsBound ==
  ASSUME NEW d, DbOK(d)
  PROVE  /\ Bound(d)
         /\ d.status = "CLOSED_VERIFIED" =>
              /\ CurrentReports(d) = d.closure
              /\ \A r \in d.closure : r.verdict = "PASS" /\ r.read.evidence = d.evidence
  <1>1. CASE d.status = "OPEN"
    BY <1>1 DEF DbOK, ClosureOK, Bound, checked_closure
  <1>2. CASE d.status = "CLOSED_VERIFIED"
    <2>1. PICK r \in d.reports :
            /\ d.closure = {r} /\ r.verdict = "PASS"
            /\ r.read["evidence"] = d.evidence /\ r.read["ledger"] = d.ledger
            /\ r.read["calls"] = d.calls /\ d.revision = r.read["revision"] + 1
            /\ \A x \in d.reports : x.read["revision"] < d.revision
      BY <1>2 DEF DbOK, ClosureOK
    <2>2. checked_closure(d) = {r}
      BY <1>2, <2>1 DEF checked_closure
    <2>3. ASSUME NEW x \in d.reports, x.read = SnapshotOf(d)
          PROVE  FALSE
      <3>1. x.read["revision"] = d["revision"]
        BY <2>3 DEF SnapshotOf, SnapshotParts
      <3>2. d["revision"] \in Nat /\ x.read["revision"] < d["revision"]
        BY <2>1 DEF DbOK, DbShape
      <3>3. QED
        BY <3>1, <3>2
    <2>4. CurrentReports(d) = {r}
      BY <2>1, <2>2, <2>3 DEF CurrentReports
    <2>5. QED
      BY <1>2, <2>1, <2>2, <2>4 DEF Bound
  <1>3. QED
    BY <1>1, <1>2 DEF DbOK

(* The Case keeps this through every write, report and closure.            *)
LEMMA WriteKeepsCase ==
  ASSUME FramesAssumption, DbOK(db), NEW p \in Parts, Write(p)
  PROVE  DbOK(db')
  <1>1. p \in {"revision", "evidence", "calls", "ledger", "recovery", "other"}
    BY DEF FramesAssumption
  <1>2. db' = [db EXCEPT ![p] = db[p] + 1] /\ (p \in {"recovery", "other"} \/ db.status = "OPEN")
    BY DEF Write, Moved
  <1>3. /\ DbShape(db') /\ db'.reports = db.reports /\ db'.closure = db.closure
        /\ db'.status = db.status /\ db.revision <= db'.revision
        /\ p \in {"recovery", "other"} =>
             /\ db'.revision = db.revision /\ db'.evidence = db.evidence
             /\ db'.calls = db.calls /\ db'.ledger = db.ledger
    <2>1. PICK n \in Nat : n = db[p] + 1
      BY <1>1 DEF DbOK, DbShape
    <2>2. db' = [db EXCEPT ![p] = n]
      BY <1>2, <2>1
    <2>3. db = [revision |-> db.revision, evidence |-> db.evidence, calls |-> db.calls,
                ledger |-> db.ledger, recovery |-> db.recovery, other |-> db.other,
                status |-> db.status, reports |-> db.reports, closure |-> db.closure]
      BY DEF DbOK, DbShape
    <2>4. db' = [revision |-> IF p = "revision" THEN n ELSE db.revision,
                 evidence |-> IF p = "evidence" THEN n ELSE db.evidence,
                 calls |-> IF p = "calls" THEN n ELSE db.calls,
                 ledger |-> IF p = "ledger" THEN n ELSE db.ledger,
                 recovery |-> IF p = "recovery" THEN n ELSE db.recovery,
                 other |-> IF p = "other" THEN n ELSE db.other,
                 status |-> db.status, reports |-> db.reports, closure |-> db.closure]
      BY <1>1, <2>2, <2>3
    <2>5. QED
      BY <1>1, <2>1, <2>4 DEF DbOK, DbShape
  <1>4. \A r \in db'.reports : ReportOK(db', r)
    BY <1>3 DEF DbOK, ReportOK, DbShape
  <1>5. CASE db.status = "OPEN"
    BY <1>3, <1>4, <1>5 DEF DbOK
  <1>6. CASE db.status = "CLOSED_VERIFIED"
    BY <1>2, <1>3, <1>4, <1>6 DEF DbOK, ClosureOK
  <1>7. QED
    BY <1>5, <1>6 DEF DbOK

LEMMA RecordKeepsCase ==
  ASSUME DbOK(db), NEW v, record(v)
  PROVE  DbOK(db')
  <1> DEFINE r == [run |-> Cardinality(db.reports) + 1, verdict |-> v, read |-> SnapshotOf(db)]
  <1>1. db.status = "OPEN" /\ db' = [db EXCEPT !.reports = db.reports \cup {r}]
    BY DEF record, Moved
  <1>2. r.read = SnapshotOf(db)
    OBVIOUS
  <1> HIDE DEF r
  <1>3. db = [revision |-> db.revision, evidence |-> db.evidence, calls |-> db.calls,
              ledger |-> db.ledger, recovery |-> db.recovery, other |-> db.other,
              status |-> db.status, reports |-> db.reports, closure |-> db.closure]
    BY DEF DbOK, DbShape
  <1>4. db' = [revision |-> db.revision, evidence |-> db.evidence, calls |-> db.calls,
               ledger |-> db.ledger, recovery |-> db.recovery, other |-> db.other,
               status |-> db.status, reports |-> db.reports \cup {r}, closure |-> db.closure]
    BY <1>1, <1>3
  <1>5. DbShape(db')
    BY <1>4 DEF DbOK, DbShape
  <1>6. ReportOK(db', r)
    BY <1>2, <1>4 DEF ReportOK, SnapshotOf, SnapshotParts, DbOK, DbShape
  <1>7. \A x \in db.reports : ReportOK(db', x)
    BY <1>4 DEF ReportOK, DbOK
  <1>8. QED
    BY <1>1, <1>4, <1>5, <1>6, <1>7 DEF DbOK

LEMMA CloseKeepsCase ==
  ASSUME DbOK(db), NEW r \in db.reports, close(r)
  PROVE  DbOK(db')
  <1>1. PICK n \in Nat : n = db.revision + 1
    BY DEF DbOK, DbShape
  <1>2. /\ db.status = "OPEN" /\ r.verdict = "PASS" /\ r.read = SnapshotOf(db)
        /\ db' = [db EXCEPT !.status = "CLOSED_VERIFIED", !.closure = {r}, !.revision = n]
    BY <1>1 DEF close, Moved
  <1>3. db = [revision |-> db.revision, evidence |-> db.evidence, calls |-> db.calls,
              ledger |-> db.ledger, recovery |-> db.recovery, other |-> db.other,
              status |-> db.status, reports |-> db.reports, closure |-> db.closure]
    BY DEF DbOK, DbShape
  <1>4. db' = [revision |-> n, evidence |-> db.evidence, calls |-> db.calls,
               ledger |-> db.ledger, recovery |-> db.recovery, other |-> db.other,
               status |-> "CLOSED_VERIFIED", reports |-> db.reports, closure |-> {r}]
    BY <1>2, <1>3
  <1>5. DbShape(db')
    BY <1>4 DEF DbOK, DbShape
  <1>6. \A x \in db.reports : ReportOK(db', x) /\ x.read["revision"] < n
    BY <1>1, <1>4 DEF ReportOK, DbOK, DbShape
  <1>7. /\ r.read["evidence"] = db.evidence /\ r.read["ledger"] = db.ledger
        /\ r.read["calls"] = db.calls /\ r.read["revision"] = db.revision
    BY <1>2 DEF SnapshotOf, SnapshotParts
  <1>8. ClosureOK(db')
    BY <1>1, <1>2, <1>4, <1>6, <1>7 DEF ClosureOK
  <1>9. QED
    BY <1>4, <1>5, <1>6, <1>8 DEF DbOK

(***************************************************************************)
(* Frames and pages.                                                       *)
(***************************************************************************)
\* The items between two places of a section of n items.
Between(n, a, b) == [i \in 1..(b - a) |-> n + 1 - (a + i)]

\* What a reader has after walking the pages of the frame `id': a prefix of
\* its items, and a cursor that points behind it.
Walked(id, got, cursor) ==
  /\ Len(got) \in 0..id.case.evidence
  /\ got = Between(id.case.evidence, 0, Len(got))
  /\ cursor # None =>
       /\ cursor = [frame |-> id, offset |-> Len(got), key |-> cursor.key]
       /\ cursor.key \in Nat
  /\ cursor = None \/ Len(got) < id.case.evidence

\* Nothing is left when there is no cursor.
WalkedOut(id, got, cursor) == cursor = None => Len(got) = id.case.evidence

SignedWith(cursor, key) == cursor # None => cursor.key = key

IsFrame(f) ==
  /\ f = [id |-> f.id, first |-> f.first]
  /\ DbOK(f.id.case) /\ f.id.epoch \in Nat
  /\ Walked(f.id, f.first.items, f.first.cursor)
  /\ WalkedOut(f.id, f.first.items, f.first.cursor)

LEMMA FrameIsSome == ASSUME NEW f, IsFrame(f) PROVE f # None
  <1>1. DOMAIN f = {"id", "first"}
    BY DEF IsFrame
  <1>2. DOMAIN None = {"kind"}
    BY DEF None
  <1>3. QED
    BY <1>1, <1>2

(* Cutting a sequence in two and putting it together.                      *)
LEMMA Cut ==
  ASSUME NEW n \in Nat, NEW a \in Nat, NEW b \in Nat, a <= b, b <= n
  PROVE  SubSeq(Between(n, 0, n), a + 1, b) = Between(n, a, b)
  <1>1. PICK s : s = Between(n, 0, n)
    OBVIOUS
  <1>2. s = [i \in 1..n |-> n + 1 - i]
    BY <1>1 DEF Between
  <1>3. s \in Seq(Int) /\ Len(s) = n
    BY <1>2
  <1>4. SubSeq(s, a + 1, b) = [i \in 1..(b - a) |-> n + 1 - (a + i)]
    BY <1>2, <1>3
  <1>5. QED
    BY <1>1, <1>4 DEF Between

LEMMA Joined ==
  ASSUME NEW n \in Nat, NEW a \in Nat, NEW b \in Nat, a <= b
  PROVE  /\ Between(n, 0, a) \o Between(n, a, b) = Between(n, 0, b)
         /\ Len(Between(n, 0, b)) = b
  <1>1. PICK s, t : s = Between(n, 0, a) /\ t = Between(n, a, b)
    OBVIOUS
  <1>2. s \in Seq(Int) /\ Len(s) = a /\ s = [i \in 1..a |-> n + 1 - i]
    BY <1>1 DEF Between
  <1>3. PICK m \in Nat : m = b - a
    OBVIOUS
  <1>4. t = [i \in 1..m |-> n + 1 - (a + i)]
    BY <1>1, <1>3 DEF Between
  <1>5. t \in Seq(Int) /\ Len(t) = m
    BY <1>4
  <1>6. s \o t \in Seq(Int) /\ Len(s \o t) = b
    BY <1>2, <1>3, <1>5, ConcatProperties
  <1>7. s \o t = [i \in 1..b |-> (s \o t)[i]]
    BY <1>6, LenProperties
  <1>8. ASSUME NEW i \in 1..b
        PROVE  (s \o t)[i] = n + 1 - i
    <2>1. (s \o t)[i] = IF i <= a THEN s[i] ELSE t[i - a]
      BY <1>2, <1>3, <1>5, ConcatProperties
    <2>2. i > a => i - a \in 1..m /\ a + (i - a) = i
      BY <1>3
    <2>3. i > a => t[i - a] = n + 1 - i
      BY <1>4, <2>2
    <2>4. i <= a => s[i] = n + 1 - i
      BY <1>2
    <2>5. (s \o t)[i] = n + 1 - i
      <3>1. CASE i <= a
        BY <2>1, <2>4, <3>1
      <3>2. CASE i > a
        <4>1. t[i - a] = n + 1 - i
          BY <2>3, <3>2
        <4>2. ~(i <= a)
          BY <3>2
        <4>3. (s \o t)[i] = t[i - a]
          BY <2>1, <4>2, Zenon
        <4>4. QED
          BY <4>1, <4>3, Zenon
      <3>3. i <= a \/ i > a
        OBVIOUS
      <3>4. QED
        BY <3>1, <3>2, <3>3, Zenon
    <2>6. QED
      BY <2>5
  <1>9. PICK u : u = Between(n, 0, b)
    OBVIOUS
  <1>10. u = [i \in 1..b |-> n + 1 - i] /\ Len(u) = b
    BY <1>9 DEF Between
  <1>11. s \o t = u
    BY <1>7, <1>8, <1>10
  <1>12. QED
    BY <1>1, <1>9, <1>10, <1>11

(* The page at the place the reader has come to continues its walk.        *)
LEMMA PageContinues ==
  ASSUME FramesAssumption, NEW f, NEW id, id = f.id, DbOK(id.case), NEW got, NEW key \in Nat,
         NEW k \in Nat, k <= id.case.evidence, got = Between(id.case.evidence, 0, k),
         NEW p, p = _page(f, k, key)
  PROVE  /\ Walked(id, got \o p.items, p.cursor)
         /\ WalkedOut(id, got \o p.items, p.cursor)
         /\ SignedWith(p.cursor, key)
         /\ p.items \in Seq(Int)
  <1>1. PICK n \in Nat : n = id.case.evidence
    BY DEF DbOK, DbShape
  <1>2. PageSize \in Nat \ {0}
    BY DEF FramesAssumption
  <1>3. PICK end \in Nat : end = IF k + PageSize < n THEN k + PageSize ELSE n
    BY <1>1, <1>2
  <1>4. k <= end /\ end <= n
    BY <1>1, <1>2, <1>3
  <1>5. PICK items : items = Between(n, 0, n)
    OBVIOUS
  <1>6. items = [i \in 1..n |-> n + 1 - i]
    BY <1>5 DEF Between
  <1>7. Items(id.case) = items /\ Len(items) = n
    BY <1>1, <1>6 DEF Items
  <1>8. /\ p.items = SubSeq(items, k + 1, end)
        /\ p.cursor = IF end < n THEN [frame |-> id, offset |-> end, key |-> key] ELSE None
    <2>1. p = [items |-> SubSeq(items, k + 1, end),
               cursor |-> IF end < n THEN [frame |-> id, offset |-> end, key |-> key] ELSE None]
      BY <1>3, <1>7, Zenon DEF _page
    <2>2. QED
      BY <2>1
  <1>9. p.items = Between(n, k, end)
    BY <1>4, <1>5, <1>8, Cut
  <1>10. got \o p.items = Between(n, 0, end) /\ Len(got \o p.items) = end
    <2>1. got = Between(n, 0, k)
      BY <1>1
    <2>2. Between(n, 0, k) \o Between(n, k, end) = Between(n, 0, end) /\ Len(Between(n, 0, end)) = end
      BY <1>4, Joined
    <2>3. QED
      BY <1>9, <2>1, <2>2
  <1>11. PICK all : all = got \o p.items
    OBVIOUS
  <1>12. all = Between(n, 0, end) /\ Len(all) = end
    BY <1>10, <1>11
  <1>13. PICK c : c = [frame |-> id, offset |-> end, key |-> key]
    OBVIOUS
  <1>14. c # None
    <2>1. DOMAIN c = {"frame", "offset", "key"}
      BY <1>13
    <2>2. DOMAIN None = {"kind"}
      BY DEF None
    <2>3. QED
      BY <2>1, <2>2
  <1>15. Walked(id, all, p.cursor)
    <2>1. Len(all) \in 0..id.case.evidence
      BY <1>1, <1>4, <1>12
    <2>2. all = Between(id.case.evidence, 0, Len(all))
      BY <1>1, <1>12
    <2>3. p.cursor # None => p.cursor = c /\ end < n
      BY <1>8, <1>13
    <2>4. c = [frame |-> id, offset |-> Len(all), key |-> c.key] /\ c.key \in Nat
      BY <1>12, <1>13
    <2>5. QED
      BY <1>1, <1>12, <2>1, <2>2, <2>3, <2>4 DEF Walked
  <1>16. WalkedOut(id, all, p.cursor)
    BY <1>1, <1>4, <1>8, <1>12, <1>13, <1>14 DEF WalkedOut
  <1>17. SignedWith(p.cursor, key)
    BY <1>8, <1>13 DEF SignedWith
  <1>18. p.items \in Seq(Int)
    <2>1. PICK m \in Nat : m = end - k
      BY <1>4
    <2>2. p.items = [i \in 1..m |-> n + 1 - (k + i)]
      BY <1>9, <2>1 DEF Between
    <2>3. QED
      BY <2>2
  <1>19. QED
    BY <1>11, <1>15, <1>16, <1>17, <1>18, Zenon

(***************************************************************************)
(* The inductive invariant.                                                *)
(***************************************************************************)
\* A stored frame was inserted at some time, after its epoch began.
RowOK(row, now) ==
  /\ row = [frame |-> row.frame, expires |-> row.expires, order |-> row.order]
  /\ IsFrame(row.frame) /\ row.order \in Nat
  /\ \E t \in Nat : t <= now /\ row.expires = t + TTL /\ row.frame.id.epoch <= t \div TTL

StoreOK(store, now) ==
  /\ store = [rows |-> store.rows, inserted |-> store.inserted]
  /\ store.inserted \in Nat /\ (Shared => store.inserted = 0)
  /\ \A row \in store.rows : RowOK(row, now) /\ row.order <= store.inserted

StoresOK == cache = [s \in Stores |-> cache[s]] /\ \A s \in Stores : StoreOK(cache[s], clock)

KeysTyped ==
  /\ keys = [r \in Replicas |-> keys[r]]
  /\ \A r \in Replicas : keys[r].current \in Nat

IsRequest(q) ==
  /\ q = [pc |-> q.pc, replica |-> q.replica, tries |-> q.tries, read |-> q.read,
          frame |-> q.frame, got |-> q.got, cursor |-> q.cursor, error |-> q.error,
          count |-> q.count, until |-> q.until]
  /\ q.pc \in {"idle", "read", "project", "recheck", "put", "get", "done"}
  /\ q.error # "CONTEXT_ELIGIBILITY_ERROR"

\* A projected frame: the Cases since its projection are known, and while
\* nothing moves its epoch is the current one.
Projected(c) ==
  /\ IsFrame(req[c].frame) /\ db \in since[c]
  /\ req[c].frame.id.epoch <= clock \div TTL
  /\ still[c] /\ Shared => req[c].frame.id.epoch = clock \div TTL

\* The frame a build has inserted is there as long as it is not expired.
Inserted(c) ==
  Shared /\ (still[c] => \E row \in cache["shared"].rows :
                           row.frame.id = req[c].frame.id /\ row.expires > clock)

\* What a finished request has: nothing, for a reason, or the walk through
\* its frame.
Outcome(c) ==
  \/ /\ req[c].frame = None /\ req[c].cursor = None
     /\ still[c] => req[c].error = "SERVICE_UNAVAILABLE"
  \/ /\ IsFrame(req[c].frame) /\ req[c].frame.id.case \in since[c]
     /\ Walked(req[c].frame.id, req[c].got, req[c].cursor)
     /\ req[c].error = "NONE" => WalkedOut(req[c].frame.id, req[c].got, req[c].cursor)

RequestOK(c) ==
  /\ IsRequest(req[c])
  /\ req[c].pc \notin {"idle", "done"} => req[c].replica \in Replicas
  /\ req[c].pc \in {"project", "recheck"} => DbOK(req[c].read) /\ (still[c] => req[c].read = db)
  /\ req[c].pc \in {"recheck", "put", "get"} => Projected(c)
  /\ req[c].pc = "recheck" => req[c].frame.id.case = req[c].read
  /\ req[c].pc \in {"put", "get"} => req[c].frame.id.case \in since[c]
  /\ req[c].pc = "get" => Inserted(c)
  /\ req[c].pc = "done" => Outcome(c)

\* Functions over the clients.
Tabled ==
  /\ req = [c \in Clients |-> req[c]]
  /\ since = [c \in Clients |-> since[c]]
  /\ still = [c \in Clients |-> still[c]]

FrameInv ==
  /\ DbOK(db) /\ clock \in Nat /\ KeysTyped /\ StoresOK /\ Tabled
  /\ \A c \in Clients : RequestOK(c)

LEMMA InitFrameInv == ASSUME FramesAssumption, Init PROVE FrameInv
  <1>1. DbOK(db)
    <2>1. db = [revision |-> 0, evidence |-> 0, calls |-> 0, ledger |-> 0, recovery |-> 0, other |-> 0,
                status |-> "OPEN", reports |-> {}, closure |-> {}]
      BY DEF Init
    <2>2. DbShape(db)
      BY <2>1 DEF DbShape
    <2>3. QED
      BY <2>1, <2>2 DEF DbOK
  <1>2. clock \in Nat /\ KeysTyped
    BY DEF Init, KeysTyped
  <1>3. StoresOK
    BY DEF Init, StoresOK, StoreOK, Empty
  <1>4. Tabled
    BY DEF Init, Tabled
  <1>5. ASSUME NEW c \in Clients PROVE RequestOK(c)
    <2>1. req[c] = NoRequest
      BY DEF Init
    <2>2. IsRequest(req[c]) /\ req[c].pc = "idle"
      BY <2>1 DEF IsRequest, NoRequest
    <2>3. QED
      BY <2>2 DEF RequestOK
  <1>6. QED
    BY <1>1, <1>2, <1>3, <1>4, <1>5 DEF FrameInv

(***************************************************************************)
(* One client's step: the others' requests are as they were.               *)
(***************************************************************************)
\* Frames that are not expired stay where they are.
LiveStay ==
  Shared => \A row \in cache["shared"].rows : row.expires > clock => row \in cache'["shared"].rows

Others(c) ==
  \A x \in Clients \ {c} : req'[x] = req[x] /\ since'[x] = since[x] /\ still'[x] = still[x]

LEMMA OneClient ==
  ASSUME FrameInv, NEW c \in Clients, UNCHANGED <<db, clock, keys>>,
         Tabled', Others(c), StoresOK', LiveStay, RequestOK(c)'
  PROVE  FrameInv'
  <1>1. ASSUME NEW x \in Clients \ {c}
        PROVE  RequestOK(x)'
    <2>1. RequestOK(x) /\ req'[x] = req[x] /\ since'[x] = since[x] /\ still'[x] = still[x]
      BY DEF FrameInv, Others
    <2>2. Projected(x) => Projected(x)'
      BY <2>1 DEF Projected
    <2>3. Inserted(x) => Inserted(x)'
      BY <2>1 DEF Inserted, LiveStay
    <2>4. Outcome(x) => Outcome(x)'
      BY <2>1 DEF Outcome
    <2>5. QED
      BY <2>1, <2>2, <2>3, <2>4 DEF RequestOK
  <1>2. QED
    BY <1>1 DEF FrameInv, KeysTyped

(* A step that leaves the stores alone.                                    *)
LEMMA StoresAlone ==
  ASSUME FrameInv, UNCHANGED <<cache, clock>>
  PROVE  StoresOK' /\ LiveStay
  BY DEF FrameInv, StoresOK, StoreOK, LiveStay

LEMMA GetFrameKeeps ==
  ASSUME FrameInv, NEW c \in Clients, NEW r \in Replicas, get_frame(c, r)
  PROVE  FrameInv'
  <1>1. PICK n : n = req[c].count + 1
    OBVIOUS
  <1>2. req'[c] = [NoRequest EXCEPT !.pc = "read", !.replica = r, !.count = n]
    BY <1>1 DEF get_frame, FrameInv, Tabled
  <1>3. req'[c] = [pc |-> "read", replica |-> r, tries |-> 0, read |-> None, frame |-> None,
                   got |-> <<>>, cursor |-> None, error |-> "NONE", count |-> n, until |-> 0]
    BY <1>2 DEF NoRequest
  <1>4. Tabled' /\ Others(c)
    BY DEF get_frame, Forget, FrameInv, Tabled, Others
  <1>5. RequestOK(c)'
    BY <1>3 DEF RequestOK, IsRequest
  <1>6. UNCHANGED <<db, clock, keys, cache>>
    BY DEF get_frame
  <1>7. QED
    BY <1>4, <1>5, <1>6, StoresAlone, OneClient

LEMMA ReadKeeps ==
  ASSUME FrameInv, NEW c \in Clients, _read(c)
  PROVE  FrameInv'
  <1>1. /\ req[c].pc = "read" /\ UNCHANGED <<db, clock, keys, cache, since, still>>
        /\ req'[c] = [req[c] EXCEPT !.pc = "project", !.read = db]
    BY DEF _read, FrameInv, Tabled
  <1>2. IsRequest(req'[c]) /\ req'[c].pc = "project" /\ req'[c].read = db
        /\ req'[c].replica = req[c].replica
    <2>1. IsRequest(req[c])
      BY DEF FrameInv, RequestOK
    <2>2. QED
      BY <1>1, <2>1 DEF IsRequest
  <1>3. Tabled' /\ Others(c)
    BY DEF _read, FrameInv, Tabled, Others
  <1>4. RequestOK(c)'
    BY <1>1, <1>2 DEF RequestOK, FrameInv
  <1>5. QED
    BY <1>1, <1>3, <1>4, StoresAlone, OneClient

(* Time in epochs.                                                         *)
LEMMA Epochs ==
  ASSUME FramesAssumption, NEW t \in Nat, NEW u \in Nat
  PROVE  /\ t \div TTL \in Nat
         /\ t <= u => t \div TTL <= u \div TTL
         /\ t + TTL <= u => t \div TTL < u \div TTL
  <1>1. TTL \in Nat \ {0}
    BY DEF FramesAssumption
  <1>2. QED
    BY <1>1

LEMMA FirstPage ==
  ASSUME FramesAssumption, NEW g, NEW id, id = g.id, DbOK(id.case), id.epoch \in Nat,
         NEW key \in Nat, NEW start \in Nat, start = 0, NEW p, p = _page(g, start, key),
         NEW f, f = [id |-> id, first |-> p]
  PROVE  IsFrame(f) /\ f.id = id /\ SignedWith(f.first.cursor, key)
  <1>1. PICK n \in Nat : n = id.case.evidence
    BY DEF DbOK, DbShape
  <1>2. PICK none : none = Between(n, 0, 0)
    OBVIOUS
  <1>3. none = <<>>
    BY <1>2 DEF Between
  <1>4. /\ Walked(id, none \o p.items, p.cursor) /\ WalkedOut(id, none \o p.items, p.cursor)
        /\ SignedWith(p.cursor, key) /\ p.items \in Seq(Int)
    <2>1. start <= id.case.evidence
      BY <1>1
    <2>2. none = Between(id.case.evidence, 0, start)
      BY <1>1, <1>2
    <2>3. QED
      BY <2>1, <2>2, PageContinues
  <1>5. none \o p.items = p.items
    BY <1>3, <1>4
  <1>6. QED
    BY <1>4, <1>5 DEF IsFrame

(* A projection always succeeds, and signs with the replica's key.         *)
LEMMA ProjectStep ==
  ASSUME FramesAssumption, FrameInv, NEW c \in Clients, _project(c)
  PROVE  /\ req[c].pc = "project" /\ DbOK(req[c].read) /\ (still[c] => req[c].read = db)
         /\ req[c].replica \in Replicas /\ UNCHANGED <<db, clock, keys, rolled, cache, still>>
         /\ Tabled' /\ Others(c) /\ since'[c] = {db}
         /\ IsRequest(req'[c]) /\ req'[c].pc = "recheck" /\ req'[c].replica = req[c].replica
         /\ req'[c].read = req[c].read /\ req'[c].error = req[c].error
         /\ IsFrame(req'[c].frame) /\ req'[c].frame.id = frame_id(req[c].read)
         /\ SignedWith(req'[c].frame.first.cursor, keys[req[c].replica].current)
  <1> DEFINE d == req[c].read
             id == frame_id(d)
             key == keys[req[c].replica].current
             f == [id |-> id, first |-> _page([id |-> id], 0, key)]
  <1>1. /\ req[c].pc = "project" /\ DbOK(d) /\ (still[c] => d = db) /\ req[c].replica \in Replicas
        /\ IsRequest(req[c])
    BY DEF _project, FrameInv, RequestOK
  <1>2. /\ UNCHANGED <<db, clock, keys, rolled, cache, still>>
        /\ req' = [req EXCEPT ![c].pc = "recheck", ![c].frame = f]
        /\ since' = [since EXCEPT ![c] = {db}]
    BY <1>1, CaseIsBound DEF _project
  <1>3. key \in Nat
    BY <1>1 DEF FrameInv, KeysTyped
  <1>4. id.case = d /\ id.epoch \in Nat
    BY Epochs DEF frame_id, FrameInv, FramesAssumption
  <1>5. IsFrame(f) /\ f.id = id /\ SignedWith(f.first.cursor, key)
    <2>1. PICK i, k, g : i = id /\ k = key /\ g = [id |-> id]
      OBVIOUS
    <2>2. PICK start \in Nat, p \in {_page(g, 0, k)} : start = 0
      OBVIOUS
    <2>3. PICK h : h = [id |-> i, first |-> p]
      OBVIOUS
    <2>4. i = g.id
      BY <2>1
    <2>5. IsFrame(h) /\ h.id = i /\ SignedWith(h.first.cursor, k)
      BY <1>1, <1>3, <1>4, <2>1, <2>2, <2>3, <2>4, FirstPage
    <2>6. h = f
      BY <2>1, <2>2, <2>3
    <2>7. QED
      BY <2>1, <2>5, <2>6
  <1> HIDE DEF f, id, key
  <1>6. req'[c] = [req[c] EXCEPT !.pc = "recheck", !.frame = f]
    BY <1>2 DEF FrameInv, Tabled
  <1>7. /\ IsRequest(req'[c]) /\ req'[c].pc = "recheck" /\ req'[c].frame = f
        /\ req'[c].replica = req[c].replica /\ req'[c].read = d /\ req'[c].error = req[c].error
    BY <1>1, <1>6 DEF IsRequest
  <1>8. Tabled' /\ Others(c) /\ since'[c] = {db}
    BY <1>2 DEF FrameInv, Tabled, Others
  <1>9. QED
    BY <1>1, <1>2, <1>5, <1>7, <1>8 DEF id, key

LEMMA ProjectKeeps ==
  ASSUME FramesAssumption, FrameInv, NEW c \in Clients, _project(c)
  PROVE  FrameInv'
  <1>1. PICK id, d : id = frame_id(d) /\ d = req[c].read
    OBVIOUS
  <1>2. /\ id.case = d /\ id.epoch \in Nat /\ id.epoch <= clock \div TTL
        /\ Shared => id.epoch = clock \div TTL
    BY <1>1, Epochs DEF frame_id, FrameInv, FramesAssumption
  <1>3. Projected(c)'
    BY <1>1, <1>2, ProjectStep DEF Projected
  <1>4. RequestOK(c)'
    BY <1>1, <1>2, <1>3, ProjectStep DEF RequestOK
  <1>5. QED
    BY <1>4, ProjectStep, StoresAlone, OneClient

LEMMA RecheckKeeps ==
  ASSUME FrameInv, NEW c \in Clients, recheck(c)
  PROVE  FrameInv'
  <1>1. /\ req[c].pc = "recheck" /\ RequestOK(c) /\ IsRequest(req[c])
        /\ UNCHANGED <<db, clock, keys, cache, still>>
    BY DEF recheck, FrameInv, RequestOK
  <1>2. Tabled' /\ Others(c)
    BY DEF recheck, Go, Fail, Forget, FrameInv, Tabled, Others
  <1>3. CASE req[c].read = db
    <2>1. req'[c] = [req[c] EXCEPT !.pc = "put"] /\ since' = since
      BY <1>3 DEF recheck, Go, FrameInv, Tabled
    <2>2. /\ IsRequest(req'[c]) /\ req'[c].pc = "put" /\ req'[c].frame = req[c].frame
          /\ req'[c].replica = req[c].replica
      BY <1>1, <2>1 DEF IsRequest
    <2>3. Projected(c)'
      BY <1>1, <2>1, <2>2 DEF RequestOK, Projected
    <2>4. req[c].frame.id.case \in since[c]
      BY <1>1, <1>3 DEF RequestOK, Projected
    <2>5. RequestOK(c)'
      BY <1>1, <2>1, <2>2, <2>3, <2>4 DEF RequestOK
    <2>6. QED
      BY <1>1, <1>2, <2>5, StoresAlone, OneClient
  <1>4. CASE req[c].read # db
    <2>1. ~still[c]
      BY <1>1, <1>4 DEF RequestOK
    <2>2. CASE req[c].tries + 1 = MaxTries
      <3>1. req'[c] = [req[c] EXCEPT !.pc = "done", !.error = "FRAME_STALE", !.read = None,
                                     !.frame = None, !.cursor = None]
        BY <1>4, <2>2 DEF recheck, Fail, FrameInv, Tabled
      <3>2. IsRequest(req'[c]) /\ req'[c].pc = "done" /\ req'[c].frame = None /\ req'[c].cursor = None
        BY <1>1, <3>1 DEF IsRequest
      <3>3. RequestOK(c)'
        BY <1>1, <2>1, <3>2 DEF RequestOK, Outcome
      <3>4. QED
        BY <1>1, <1>2, <3>3, StoresAlone, OneClient
    <2>3. CASE req[c].tries + 1 # MaxTries
      <3>1. PICK t : t = req[c].tries + 1
        OBVIOUS
      <3>2. req'[c] = [req[c] EXCEPT !.pc = "read", !.tries = t, !.frame = None]
        BY <1>4, <2>3, <3>1 DEF recheck, FrameInv, Tabled
      <3>3. IsRequest(req'[c]) /\ req'[c].pc = "read" /\ req'[c].replica = req[c].replica
        BY <1>1, <3>2 DEF IsRequest
      <3>4. RequestOK(c)'
        BY <1>1, <3>3 DEF RequestOK
      <3>5. QED
        BY <1>1, <1>2, <3>4, StoresAlone, OneClient
    <2>4. QED
      BY <2>2, <2>3
  <1>5. QED
    BY <1>3, <1>4

(***************************************************************************)
(* The stores.                                                             *)
(***************************************************************************)
LEMMA PruneKeepsStore ==
  ASSUME NEW store, StoreOK(store, clock)
  PROVE  /\ StoreOK(_prune(store), clock)
         /\ _prune(store).rows = {row \in store.rows : Live(row)}
  <1>1. PICK rows : rows = {row \in store.rows : Live(row)}
    OBVIOUS
  <1>2. _prune(store) = [store EXCEPT !.rows = rows]
    BY <1>1 DEF _prune
  <1>3. store = [rows |-> store.rows, inserted |-> store.inserted]
    BY DEF StoreOK
  <1>4. _prune(store) = [rows |-> rows, inserted |-> store.inserted]
    BY <1>2, <1>3
  <1>5. PICK new : new = _prune(store)
    OBVIOUS
  <1>6. new.rows = rows /\ new.inserted = store.inserted
    BY <1>4, <1>5
  <1>7. StoreOK(new, clock)
    BY <1>1, <1>4, <1>5, <1>6 DEF StoreOK
  <1>8. QED
    BY <1>1, <1>5, <1>6, <1>7

(* After an insertion the frame is there, its own or the first one of its  *)
(* name, whatever the cache dropped.                                       *)
LEMMA InsertKeepsStore ==
  ASSUME FramesAssumption, clock \in Nat, NEW store, StoreOK(store, clock),
         NEW f, IsFrame(f), f.id.epoch <= clock \div TTL, NEW new, new = Insert(store, f)
  PROVE  /\ StoreOK(new, clock) /\ Stored(new, f.id) # {}
         /\ \A row \in new.rows \ store.rows : row.frame = f /\ row.expires = clock + TTL
         /\ Shared => store.rows \subseteq new.rows
  <1>1. CASE Stored(store, f.id) # {}
    <2>1. new = store
      BY <1>1 DEF Insert
    <2>2. QED
      BY <1>1, <2>1
  <1>2. CASE Stored(store, f.id) = {}
    <2>1. PICK order \in Nat : order = IF Shared THEN 0 ELSE store.inserted + 1
      BY DEF StoreOK
    <2>2. PICK e \in Nat : e = clock + TTL
      BY DEF FramesAssumption
    <2>3. PICK row : row = [frame |-> f, expires |-> e, order |-> order]
      OBVIOUS
    <2>4. PICK rows : rows = store.rows \cup {row}
      OBVIOUS
    <2>5. new = [rows |-> IF Shared THEN rows ELSE Newest(rows), inserted |-> order]
      BY <1>2, <2>1, <2>2, <2>3, <2>4, Zenon DEF Insert
    <2>6. new.rows = (IF Shared THEN rows ELSE Newest(rows)) /\ new.inserted = order
      BY <2>5
    <2>7. RowOK(row, clock) /\ row.order = order /\ row.frame = f /\ row.expires = e
      BY <2>2, <2>3 DEF RowOK
    <2>8. ~Shared => \A x \in store.rows : x.order < order
      BY <2>1 DEF StoreOK, RowOK
    <2>9. row \in new.rows
      <3>1. CASE Shared
        BY <2>4, <2>6, <3>1
      <3>2. CASE ~Shared
        <4>1. {x \in rows : x.order > row.order} = {}
          BY <2>1, <2>4, <2>7, <2>8, <3>2 DEF StoreOK, RowOK
        <4>2. Cardinality({}) = 0
          BY FS_EmptySet
        <4>3. Cardinality({x \in rows : x.order > row.order}) < MaxFrames
          <5>1. 0 < MaxFrames
            BY DEF FramesAssumption
          <5>2. QED
            BY <4>1, <4>2, <5>1, Zenon
        <4>4. QED
          BY <2>4, <2>6, <3>2, <4>3 DEF Newest
      <3>3. QED
        BY <3>1, <3>2
    <2>10. new.rows \subseteq rows /\ (Shared => new.rows = rows)
      BY <2>6 DEF Newest
    <2>11. \A x \in new.rows : RowOK(x, clock) /\ x.order <= new.inserted
      <3>1. TAKE x \in new.rows
      <3>2. CASE x = row
        BY <2>1, <2>6, <2>7, <3>2
      <3>3. CASE x \in store.rows
        <4>1. /\ RowOK(x, clock) /\ x.order \in Nat /\ x.order <= store.inserted
              /\ store.inserted \in Nat /\ (Shared => store.inserted = 0)
          BY <3>3 DEF StoreOK, RowOK
        <4>2. QED
          BY <2>1, <2>6, <4>1
      <3>4. QED
        BY <2>4, <2>10, <3>2, <3>3
    <2>12. StoreOK(new, clock)
      BY <2>1, <2>5, <2>6, <2>11 DEF StoreOK
    <2>13. QED
      BY <2>2, <2>4, <2>7, <2>9, <2>10, <2>12 DEF Stored
  <1>3. QED
    BY <1>1, <1>2

(* The answer of a build: a stored frame of the name that was asked for.   *)
LEMMA AnswerStep ==
  ASSUME FrameInv, NEW c \in Clients, NEW row, Answer(c, row), UNCHANGED <<since, still>>
  PROVE  /\ Tabled' /\ Others(c)
         /\ IsRequest(req'[c]) /\ req'[c].pc = "done" /\ req'[c].frame = row.frame
         /\ req'[c].got = row.frame.first.items /\ req'[c].cursor = row.frame.first.cursor
         /\ req'[c].until = row.expires /\ req'[c].error = req[c].error
  <1>1. IsRequest(req[c])
    BY DEF FrameInv, RequestOK
  <1>2. PICK f, items, cursor, e : /\ f = row.frame /\ items = row.frame.first.items
                                   /\ cursor = row.frame.first.cursor /\ e = row.expires
    OBVIOUS
  <1>3. req'[c] = [req[c] EXCEPT !.pc = "done", !.frame = f, !.read = None, !.got = items,
                                 !.cursor = cursor, !.until = e]
    BY <1>2 DEF Answer, FrameInv, Tabled
  <1>4. Tabled' /\ Others(c)
    BY DEF Answer, FrameInv, Tabled, Others
  <1>5. /\ IsRequest(req'[c]) /\ req'[c].pc = "done" /\ req'[c].frame = f
        /\ req'[c].got = items /\ req'[c].cursor = cursor /\ req'[c].until = e
        /\ req'[c].error = req[c].error
    BY <1>1, <1>3 DEF IsRequest
  <1>6. QED
    BY <1>2, <1>4, <1>5

LEMMA AnswerKeeps ==
  ASSUME FrameInv, NEW c \in Clients, req[c].pc \in {"put", "get"}, NEW row, RowOK(row, clock),
         row.frame.id = req[c].frame.id, Answer(c, row), UNCHANGED <<db, clock, keys, since, still>>,
         StoresOK', LiveStay
  PROVE  FrameInv'
  <1>1. req[c].frame.id.case \in since[c]
    BY DEF FrameInv, RequestOK
  <1>2. PICK f : f = row.frame
    OBVIOUS
  <1>3. IsFrame(f) /\ f.id.case \in since'[c]
    BY <1>1, <1>2 DEF RowOK
  <1>4. Outcome(c)'
    BY <1>2, <1>3, AnswerStep DEF Outcome, IsFrame
  <1>5. RequestOK(c)'
    BY <1>4, AnswerStep DEF RequestOK
  <1>6. QED
    BY <1>5, AnswerStep, OneClient

(* The store a step changes keeps its shape, and so do the others.         *)
LEMMA OneStore ==
  ASSUME FrameInv, NEW s \in Stores, NEW store, StoreOK(store, clock),
         cache' = [cache EXCEPT ![s] = store], clock' = clock
  PROVE  StoresOK' /\ cache'[s] = store
  BY DEF FrameInv, StoresOK

\* The store `s' becomes `new': it has the frame of the build, its own rows
\* and at most the row the build inserts.
Inserts(c, s, new) ==
  /\ s \in Stores /\ (Shared => s = "shared") /\ cache' = [cache EXCEPT ![s] = new]
  /\ StoreOK(new, clock) /\ Stored(new, req[c].frame.id) # {}
  /\ Shared => cache[s].rows \subseteq new.rows
  /\ \A row \in new.rows \ cache[s].rows : row.frame = req[c].frame /\ row.expires = clock + TTL

LEMMA PutStep ==
  ASSUME FramesAssumption, FrameInv, NEW c \in Clients, put(c)
  PROVE  /\ req[c].pc = "put" /\ RequestOK(c) /\ IsRequest(req[c]) /\ Projected(c)
         /\ req[c].replica \in Replicas /\ UNCHANGED <<db, clock, keys, rolled, since, still>>
         /\ \E s, new :
              /\ Inserts(c, s, new)
              /\ ~Shared => \E row \in Stored(new, req[c].frame.id) : Answer(c, row)
         /\ Shared => Go(c, "get")
  <1>1. PICK s : s = StoreOf(req[c].replica)
    OBVIOUS
  <1>2. /\ req[c].pc = "put" /\ RequestOK(c) /\ IsRequest(req[c]) /\ Projected(c)
        /\ req[c].replica \in Replicas
        /\ UNCHANGED <<db, clock, keys, rolled, since, still>>
    BY DEF put, FrameInv, RequestOK
  <1>3. s \in Stores /\ (Shared => s = "shared") /\ clock \in Nat /\ StoreOK(cache[s], clock)
    BY <1>1, <1>2 DEF StoreOf, Stores, FrameInv, StoresOK
  <1>4. PICK f : f = req[c].frame
    OBVIOUS
  <1>5. PICK old : old = IF Shared THEN cache[s] ELSE _prune(cache[s])
    OBVIOUS
  <1>6. StoreOK(old, clock) /\ old.rows \subseteq cache[s].rows /\ (Shared => old = cache[s])
    BY <1>3, <1>5, PruneKeepsStore
  <1>7. PICK new : new = Insert(old, f)
    OBVIOUS
  <1>8. /\ StoreOK(new, clock) /\ Stored(new, f.id) # {}
        /\ \A row \in new.rows \ old.rows : row.frame = f /\ row.expires = clock + TTL
        /\ Shared => old.rows \subseteq new.rows
    <2>1. IsFrame(f) /\ f.id.epoch <= clock \div TTL
      BY <1>2, <1>4 DEF Projected
    <2>2. QED
      BY <1>3, <1>6, <1>7, <2>1, InsertKeepsStore
  <1>9. cache' = [cache EXCEPT ![s] = new] /\ (Shared => Go(c, "get"))
    BY <1>1, <1>4, <1>5, <1>7 DEF put
  <1>10. Inserts(c, s, new)
    BY <1>3, <1>4, <1>6, <1>8, <1>9 DEF Inserts
  <1>11. ~Shared => \E row \in Stored(new, f.id) : Answer(c, row)
    BY <1>1, <1>4, <1>5, <1>7, <1>8 DEF put
  <1>12. QED
    BY <1>2, <1>4, <1>9, <1>10, <1>11

LEMMA PutKeeps ==
  ASSUME FramesAssumption, FrameInv, NEW c \in Clients, put(c)
  PROVE  FrameInv'
  <1>1. PICK s, new : /\ Inserts(c, s, new)
                      /\ ~Shared => \E row \in Stored(new, req[c].frame.id) : Answer(c, row)
    BY PutStep
  <1>2. /\ req[c].pc = "put" /\ RequestOK(c) /\ IsRequest(req[c]) /\ Projected(c)
        /\ req[c].replica \in Replicas /\ UNCHANGED <<db, clock, keys, since, still>>
    BY PutStep
  <1>3. (Shared => s = "shared") /\ clock \in Nat
    BY <1>1 DEF Inserts, FrameInv
  <1>4. PICK f : f = req[c].frame
    OBVIOUS
  <1>5. /\ StoresOK' /\ cache'[s] = new /\ StoreOK(new, clock) /\ Stored(new, f.id) # {}
    BY <1>1, <1>2, <1>4, OneStore DEF Inserts
  <1>6. LiveStay
    BY <1>1, <1>3, <1>5 DEF LiveStay, Inserts
  <1>7. CASE ~Shared
    <2>1. PICK row \in Stored(new, f.id) : Answer(c, row)
      BY <1>1, <1>4, <1>7
    <2>2. RowOK(row, clock) /\ row.frame.id = f.id
      BY <1>5, <2>1 DEF Stored, StoreOK
    <2>3. QED
      BY <1>2, <1>4, <1>5, <1>6, <2>1, <2>2, AnswerKeeps
  <1>8. CASE Shared
    <2>1. req'[c] = [req[c] EXCEPT !.pc = "get"] /\ Tabled' /\ Others(c)
      BY <1>2, <1>8, PutStep DEF Go, FrameInv, Tabled, Others
    <2>2. /\ IsRequest(req'[c]) /\ req'[c].pc = "get" /\ req'[c].frame = f
          /\ req'[c].replica = req[c].replica
      BY <1>2, <1>4, <2>1 DEF IsRequest
    <2>3. PICK row \in new.rows : row.frame.id = f.id
      BY <1>5 DEF Stored
    <2>4. still[c] => row.expires > clock
      <3>1. PICK t \in Nat : t <= clock /\ row.expires = t + TTL /\ row.frame.id.epoch <= t \div TTL
        BY <1>5 DEF StoreOK, RowOK
      <3>2. still[c] => f.id.epoch = clock \div TTL
        BY <1>2, <1>4, <1>8 DEF Projected
      <3>3. t \div TTL \in Nat /\ clock \div TTL \in Nat /\ TTL \in Nat
            /\ (t + TTL <= clock => t \div TTL < clock \div TTL)
        BY <1>3, Epochs DEF FramesAssumption
      <3>4. QED
        BY <1>3, <2>3, <3>1, <3>2, <3>3
    <2>5. Inserted(c)'
      BY <1>2, <1>3, <1>5, <1>8, <2>2, <2>3, <2>4 DEF Inserted
    <2>6. Projected(c)'
      BY <1>2, <1>4, <2>2 DEF Projected
    <2>7. RequestOK(c)'
      BY <1>2, <1>4, <2>2, <2>5, <2>6 DEF RequestOK
    <2>8. QED
      BY <1>2, <1>5, <1>6, <2>1, <2>7, OneClient
  <1>9. QED
    BY <1>7, <1>8

LEMMA GetKeeps ==
  ASSUME FrameInv, NEW c \in Clients, get(c)
  PROVE  FrameInv'
  <1>1. PICK rows : rows = {row \in Stored(cache["shared"], req[c].frame.id) : Live(row)}
    OBVIOUS
  <1>2. /\ req[c].pc = "get" /\ RequestOK(c) /\ IsRequest(req[c]) /\ Inserted(c)
        /\ UNCHANGED <<db, clock, keys, cache, since, still>>
    BY DEF get, FrameInv, RequestOK
  <1>3. StoresOK' /\ LiveStay
    BY <1>2, StoresAlone
  <1>4. CASE rows = {}
    <2>1. req'[c] = [req[c] EXCEPT !.pc = "done", !.error = "FRAME_EXPIRED", !.read = None,
                                   !.frame = None, !.cursor = None]
      BY <1>1, <1>4 DEF get, Fail, FrameInv, Tabled
    <2>2. Tabled' /\ Others(c)
      BY <1>1, <1>2, <1>4 DEF get, Fail, FrameInv, Tabled, Others
    <2>3. IsRequest(req'[c]) /\ req'[c].pc = "done" /\ req'[c].frame = None /\ req'[c].cursor = None
      BY <1>2, <2>1 DEF IsRequest
    <2>4. ~still[c]
      BY <1>1, <1>2, <1>4 DEF Inserted, Stored, Live
    <2>5. RequestOK(c)'
      BY <1>2, <2>3, <2>4 DEF RequestOK, Outcome
    <2>6. QED
      BY <1>2, <1>3, <2>2, <2>5, OneClient
  <1>5. CASE rows # {}
    <2>1. PICK row \in rows : Answer(c, row)
      BY <1>1, <1>5 DEF get
    <2>2. RowOK(row, clock) /\ row.frame.id = req[c].frame.id
      BY <1>1, <1>2, <2>1 DEF Stored, FrameInv, StoresOK, StoreOK, Stores, Inserted
    <2>3. QED
      BY <1>2, <1>3, <2>1, <2>2, AnswerKeeps
  <1>6. QED
    BY <1>4, <1>5

LEMMA PageKeeps ==
  ASSUME FramesAssumption, FrameInv, NEW c \in Clients, NEW r \in Replicas, page(c, r)
  PROVE  FrameInv'
  <1>1. PICK cursor : cursor = req[c].cursor
    OBVIOUS
  <1>2. PICK rows : rows = _cached(r, cursor.frame)
    OBVIOUS
  <1>3. /\ req[c].pc = "done" /\ cursor # None /\ RequestOK(c) /\ IsRequest(req[c]) /\ Outcome(c)
        /\ UNCHANGED <<db, clock, keys, since, still>>
        /\ cache' = IF Shared THEN cache ELSE [cache EXCEPT ![r] = _prune(@)]
    BY <1>1 DEF page, FrameInv, RequestOK
  <1>4. PICK f, got, id : f = req[c].frame /\ got = req[c].got /\ id = f.id
    OBVIOUS
  <1>5. IsFrame(f) /\ id.case \in since[c] /\ Walked(id, got, cursor) /\ DbOK(id.case)
    BY <1>1, <1>3, <1>4 DEF Outcome, IsFrame
  <1>6. StoresOK' /\ LiveStay
    <2>1. CASE Shared
      BY <1>3, <2>1, StoresAlone
    <2>2. CASE ~Shared
      <3>1. r \in Stores /\ StoreOK(cache[r], clock)
        BY <2>2 DEF Stores, FrameInv, StoresOK
      <3>2. PICK new : new = _prune(cache[r])
        OBVIOUS
      <3>3. StoreOK(new, clock) /\ cache' = [cache EXCEPT ![r] = new]
        BY <1>3, <2>2, <3>1, <3>2, PruneKeepsStore
      <3>4. QED
        BY <1>3, <2>2, <3>1, <3>3, OneStore DEF LiveStay
    <2>3. QED
      BY <2>1, <2>2
  <1>7. ASSUME NEW error, error # "CONTEXT_ELIGIBILITY_ERROR", error # "NONE", Refuse(c, error)
        PROVE  FrameInv'
    <2>1. /\ req'[c] = [req[c] EXCEPT !.error = error, !.cursor = None] /\ Tabled' /\ Others(c)
      BY <1>3, <1>7 DEF Refuse, FrameInv, Tabled, Others
    <2>2. /\ IsRequest(req'[c]) /\ req'[c].pc = "done" /\ req'[c].frame = f /\ req'[c].got = got
          /\ req'[c].cursor = None /\ req'[c].error = error
      BY <1>3, <1>4, <1>7, <2>1 DEF IsRequest
    <2>3. Walked(id, got, None)
      BY <1>5 DEF Walked
    <2>4. Outcome(c)'
      BY <1>3, <1>4, <1>5, <1>7, <2>2, <2>3 DEF Outcome
    <2>5. RequestOK(c)'
      BY <2>2, <2>4 DEF RequestOK
    <2>6. QED
      BY <1>3, <1>6, <2>1, <2>5, OneClient
  <1>8. CASE rows = {} \/ ~CursorGood(r, cursor)
    <2>1. PICK error \in {"FRAME_EXPIRED", "INVALID_CURSOR"} : Refuse(c, error)
      BY <1>1, <1>2, <1>8 DEF page
    <2>2. QED
      BY <1>7, <2>1
  <1>9. CASE rows # {} /\ CursorGood(r, cursor)
    <2>1. PICK key : key = keys[r].current
      OBVIOUS
    <2>2. PICK row, next :
            /\ row \in rows
            /\ next = _page(row.frame, cursor.offset, key)
            /\ req' = [req EXCEPT ![c].got = got \o next.items, ![c].cursor = next.cursor]
      BY <1>1, <1>2, <1>4, <1>9, <2>1 DEF page
    <2>3. key \in Nat
      BY <2>1 DEF FrameInv, KeysTyped
    <2>4. PICK g : g = row.frame
      OBVIOUS
    <2>5. id = g.id
      BY <1>2, <1>3, <1>5, <2>2, <2>4 DEF _cached, Stored, Walked
    <2>6. PICK k \in Nat : k = Len(got)
      BY <1>5 DEF Walked, DbOK, DbShape
    <2>7. k <= id.case.evidence /\ got = Between(id.case.evidence, 0, k) /\ next = _page(g, k, key)
      <3>1. cursor.offset = k
        BY <1>3, <1>5, <2>6 DEF Walked
      <3>2. QED
        BY <1>5, <2>2, <2>4, <2>6, <3>1 DEF Walked, DbOK, DbShape
    <2>8. Walked(id, got \o next.items, next.cursor) /\ WalkedOut(id, got \o next.items, next.cursor)
      BY <1>5, <2>3, <2>5, <2>7, PageContinues
    <2>9. PICK all, cur : all = got \o next.items /\ cur = next.cursor
      OBVIOUS
    <2>10. req'[c] = [req[c] EXCEPT !.got = all, !.cursor = cur] /\ Tabled' /\ Others(c)
      BY <1>3, <2>2, <2>9 DEF FrameInv, Tabled, Others
    <2>11. /\ IsRequest(req'[c]) /\ req'[c].pc = "done" /\ req'[c].frame = f /\ req'[c].got = all
           /\ req'[c].cursor = cur
      <3>1. req'[c] = [req[c] EXCEPT !.got = all, !.cursor = cur] /\ IsRequest(req[c]) /\ req[c].pc = "done"
        BY <1>3, <2>10
      <3>2. /\ IsRequest(req'[c]) /\ req'[c].pc = "done" /\ req'[c].frame = req[c].frame
            /\ req'[c].got = all /\ req'[c].cursor = cur
        BY <3>1 DEF IsRequest
      <3>3. QED
        BY <1>4, <3>2
    <2>12. Outcome(c)'
      BY <1>3, <1>4, <1>5, <2>8, <2>9, <2>11 DEF Outcome
    <2>13. RequestOK(c)'
      BY <2>11, <2>12 DEF RequestOK
    <2>14. QED
      BY <1>3, <1>6, <2>10, <2>13, OneClient
  <1>10. QED
    BY <1>8, <1>9

LEMMA CleanupKeeps ==
  ASSUME FrameInv, prune
  PROVE  FrameInv'
  <1>1. Shared /\ UNCHANGED <<db, clock, keys, req, since, still>>
        /\ cache' = [cache EXCEPT !["shared"] = _prune(@)]
    BY DEF prune
  <1>2. "shared" \in Stores /\ StoreOK(cache["shared"], clock)
    BY <1>1 DEF Stores, FrameInv, StoresOK
  <1>3. PICK new : new = _prune(cache["shared"])
    OBVIOUS
  <1>4. /\ StoreOK(new, clock) /\ new.rows = {row \in cache["shared"].rows : Live(row)}
        /\ cache' = [cache EXCEPT !["shared"] = new]
    BY <1>1, <1>2, <1>3, PruneKeepsStore
  <1>5. StoresOK' /\ cache'["shared"] = new
    BY <1>1, <1>2, <1>4, OneStore
  <1>6. LiveStay
    BY <1>1, <1>4, <1>5 DEF LiveStay, Live
  <1>7. ASSUME NEW x \in Clients
        PROVE  RequestOK(x)'
    <2>1. RequestOK(x)
      BY DEF FrameInv
    <2>2. Inserted(x) => Inserted(x)'
      BY <1>1, <1>6 DEF Inserted, LiveStay
    <2>3. (Projected(x) => Projected(x)') /\ (Outcome(x) => Outcome(x)')
      BY <1>1 DEF Projected, Outcome
    <2>4. QED
      BY <1>1, <2>1, <2>2, <2>3 DEF RequestOK
  <1>8. QED
    BY <1>1, <1>5, <1>7 DEF FrameInv, KeysTyped, Tabled

(***************************************************************************)
(* The rest of the system.                                                 *)
(***************************************************************************)
LEMMA MovedKeeps ==
  ASSUME FrameInv, NEW d, DbOK(d), Moved(d)
  PROVE  FrameInv'
  <1>1. /\ db' = d /\ UNCHANGED <<clock, keys, cache, req>> /\ still' = [c \in Clients |-> FALSE]
        /\ \A c \in Clients : since'[c] = IF req[c].pc \in {"recheck", "put", "get"}
                                          THEN since[c] \cup {d} ELSE since[c]
    BY DEF Moved
  <1>2. Tabled'
    BY DEF Moved, FrameInv, Tabled
  <1>3. ASSUME NEW x \in Clients
        PROVE  RequestOK(x)'
    <2>1. RequestOK(x) /\ ~still'[x] /\ req'[x] = req[x] /\ since[x] \subseteq since'[x]
      BY <1>1 DEF FrameInv
    <2>2. req[x].pc \in {"recheck", "put", "get"} => Projected(x)'
      BY <1>1, <2>1 DEF RequestOK, Projected
    <2>3. Inserted(x) => Inserted(x)'
      BY <1>1, <2>1 DEF Inserted
    <2>4. Outcome(x) => Outcome(x)'
      BY <1>1, <2>1 DEF Outcome
    <2>5. QED
      BY <2>1, <2>2, <2>3, <2>4 DEF RequestOK
  <1>4. StoresOK'
    BY <1>1, StoresAlone
  <1>5. QED
    BY <1>1, <1>2, <1>3, <1>4 DEF FrameInv, KeysTyped

LEMMA TickKeeps ==
  ASSUME FramesAssumption, FrameInv, Tick
  PROVE  FrameInv'
  <1>1. /\ UNCHANGED <<db, keys, cache, req, since>> /\ still' = [c \in Clients |-> FALSE]
        /\ clock' = clock + 1 /\ clock \in Nat
    BY DEF Tick, FrameInv
  <1>2. clock' \in Nat /\ clock <= clock'
    BY <1>1
  <1>3. PICK now \in Nat : now = clock'
    BY <1>2
  <1>4. clock \div TTL \in Nat /\ now \div TTL \in Nat /\ clock \div TTL <= now \div TTL
    BY <1>1, <1>2, <1>3, Epochs
  <1>5. StoresOK'
    <2>1. ASSUME NEW row, RowOK(row, clock)
          PROVE  RowOK(row, now)
      BY <1>1, <1>2, <1>3, <2>1 DEF RowOK
    <2>2. ASSUME NEW s \in Stores
          PROVE  StoreOK(cache[s], now)
      BY <2>1 DEF FrameInv, StoresOK, StoreOK
    <2>3. QED
      BY <1>1, <1>3, <2>2 DEF FrameInv, StoresOK
  <1>6. ASSUME NEW x \in Clients
        PROVE  RequestOK(x)'
    <2>1. RequestOK(x) /\ ~still'[x] /\ req'[x] = req[x] /\ since'[x] = since[x]
      BY <1>1 DEF FrameInv
    <2>2. Projected(x) => Projected(x)'
      <3>1. ASSUME Projected(x)
            PROVE  req[x].frame.id.epoch <= now \div TTL
        BY <1>4, <3>1 DEF Projected, IsFrame
      <3>2. QED
        BY <1>1, <1>3, <2>1, <3>1 DEF Projected
    <2>3. Inserted(x) => Inserted(x)'
      BY <1>1, <2>1 DEF Inserted
    <2>4. Outcome(x) => Outcome(x)'
      BY <2>1 DEF Outcome
    <2>5. QED
      BY <1>1, <2>1, <2>2, <2>3, <2>4 DEF RequestOK
  <1>7. Tabled'
    BY <1>1 DEF FrameInv, Tabled
  <1>8. QED
    BY <1>1, <1>2, <1>5, <1>6, <1>7 DEF FrameInv, KeysTyped

\* The keys after a replica's restart.
NextKeys(r) == [keys EXCEPT ![r] = [current |-> keys[r].current + 1, previous |-> keys[r].current]]

\* A request the restart of its replica ends.
Lost(c, r) == req[c].replica = r /\ req[c].pc \notin {"idle", "done"}

LEMMA Restart ==
  ASSUME NEW r \in Replicas, roll_key(r)
  PROVE  /\ keys' = NextKeys(r)
         /\ UNCHANGED <<db, clock, since, still>>
         /\ cache' = IF Shared THEN cache ELSE [cache EXCEPT ![r] = Empty]
         /\ req' = [c \in Clients |-> IF Lost(c, r)
                                      THEN [NoRequest EXCEPT !.pc = "done", !.count = req[c].count,
                                                             !.error = "SERVICE_UNAVAILABLE"]
                                      ELSE req[c]]
  BY DEF roll_key, NextKeys, Lost

LEMMA RollKeeps ==
  ASSUME FrameInv, NEW r \in Replicas, roll_key(r)
  PROVE  FrameInv'
  <1>1. UNCHANGED <<db, clock, since, still>> /\ keys' = NextKeys(r)
    BY Restart
  <1>2. KeysTyped'
    <2>1. PICK n \in Nat : n = keys[r].current + 1
      BY DEF FrameInv, KeysTyped
    <2>2. PICK k : k = [current |-> n, previous |-> keys[r].current]
      OBVIOUS
    <2>3. keys' = [keys EXCEPT ![r] = k] /\ k.current \in Nat
      BY <1>1, <2>1, <2>2 DEF NextKeys
    <2>4. QED
      BY <2>3 DEF FrameInv, KeysTyped
  <1>3. StoresOK' /\ LiveStay
    <2>1. CASE Shared
      <3>1. cache' = cache
        BY <2>1, Restart
      <3>2. QED
        BY <1>1, <3>1, StoresAlone
    <2>2. CASE ~Shared
      <3>1. cache' = [cache EXCEPT ![r] = Empty] /\ r \in Stores
        BY <2>2, Restart DEF Stores
      <3>2. StoreOK(Empty, clock)
        BY DEF StoreOK, Empty
      <3>3. QED
        BY <1>1, <2>2, <3>1, <3>2, OneStore DEF LiveStay
    <2>3. QED
      BY <2>1, <2>2
  <1>4. Tabled'
    BY <1>1, Restart DEF FrameInv, Tabled
  <1>5. ASSUME NEW x \in Clients
        PROVE  RequestOK(x)'
    <2>1. CASE Lost(x, r)
      <3>1. PICK n : n = req[x].count
        OBVIOUS
      <3>2. req'[x] = [NoRequest EXCEPT !.pc = "done", !.count = n, !.error = "SERVICE_UNAVAILABLE"]
        BY <2>1, <3>1, Restart
      <3>3. req'[x] = [pc |-> "done", replica |-> "NONE", tries |-> 0, read |-> None, frame |-> None,
                       got |-> <<>>, cursor |-> None, error |-> "SERVICE_UNAVAILABLE", count |-> n,
                       until |-> 0]
        BY <3>2 DEF NoRequest
      <3>4. /\ IsRequest(req'[x]) /\ req'[x].pc = "done" /\ req'[x].frame = None
            /\ req'[x].cursor = None /\ req'[x].error = "SERVICE_UNAVAILABLE"
        BY <3>3 DEF IsRequest
      <3>5. QED
        BY <3>4 DEF RequestOK, Outcome
    <2>2. CASE ~Lost(x, r)
      <3>1. RequestOK(x) /\ req'[x] = req[x]
        BY <2>2, Restart DEF FrameInv
      <3>2. Inserted(x) => Inserted(x)'
        BY <1>1, <1>3, <3>1 DEF Inserted, LiveStay
      <3>3. (Projected(x) => Projected(x)') /\ (Outcome(x) => Outcome(x)')
        BY <1>1, <3>1 DEF Projected, Outcome
      <3>4. QED
        BY <1>1, <3>1, <3>2, <3>3 DEF RequestOK
    <2>3. QED
      BY <2>1, <2>2
  <1>6. QED
    BY <1>1, <1>2, <1>3, <1>4, <1>5 DEF FrameInv

LEMMA StutterKeepsFrames ==
  ASSUME FrameInv, UNCHANGED vars
  PROVE  FrameInv'
  <1>1. UNCHANGED <<db, clock, keys, cache, req, since, still>>
    BY DEF vars
  <1>2. \A x \in Clients : RequestOK(x)'
    BY <1>1 DEF FrameInv, RequestOK, Projected, Inserted, Outcome
  <1>3. StoresOK'
    BY <1>1, StoresAlone
  <1>4. QED
    BY <1>1, <1>2, <1>3 DEF FrameInv, KeysTyped, Tabled

LEMMA NextFrameInv ==
  ASSUME FramesAssumption, FrameInv, [Next]_vars
  PROVE  FrameInv'
  <1>1. ASSUME NEW c \in Clients, Build(c)
        PROVE  FrameInv'
    BY <1>1, ReadKeeps, ProjectKeeps, RecheckKeeps, PutKeeps, GetKeeps DEF Build
  <1>2. ASSUME NEW c \in Clients, NEW r \in Replicas, get_frame(c, r) \/ page(c, r)
        PROVE  FrameInv'
    BY <1>2, GetFrameKeeps, PageKeeps
  <1>3. CASE prune
    BY <1>3, CleanupKeeps
  <1>4. ASSUME NEW p \in Parts, Write(p)
        PROVE  FrameInv'
    <2>1. DbOK(db')
      BY <1>4, WriteKeepsCase DEF FrameInv
    <2>2. PICK d : d = db' /\ Moved(d)
      BY <1>4 DEF Write, Moved
    <2>3. QED
      BY <2>1, <2>2, MovedKeeps
  <1>5. ASSUME NEW v \in {"PASS", "FAIL"}, record(v)
        PROVE  FrameInv'
    <2>1. DbOK(db')
      BY <1>5, RecordKeepsCase DEF FrameInv
    <2>2. PICK d : d = db' /\ Moved(d)
      BY <1>5 DEF record, Moved
    <2>3. QED
      BY <2>1, <2>2, MovedKeeps
  <1>6. ASSUME NEW r \in db.reports, close(r)
        PROVE  FrameInv'
    <2>1. DbOK(db')
      BY <1>6, CloseKeepsCase DEF FrameInv
    <2>2. PICK d : d = db' /\ Moved(d)
      BY <1>6 DEF close, Moved
    <2>3. QED
      BY <2>1, <2>2, MovedKeeps
  <1>7. CASE Tick
    BY <1>7, TickKeeps
  <1>8. ASSUME NEW r \in Replicas, roll_key(r)
        PROVE  FrameInv'
    BY <1>8, RollKeeps
  <1>9. CASE Finished \/ UNCHANGED vars
    BY <1>9, StutterKeepsFrames DEF Finished
  <1>10. QED
    BY <1>1, <1>2, <1>3, <1>4, <1>5, <1>6, <1>7, <1>8, <1>9 DEF Next

LEMMA FrameInvAlways == Spec => []FrameInv
  <1>1. Init => FrameInv
    BY FramesAssumption, InitFrameInv
  <1>2. FrameInv /\ [Next]_vars => FrameInv'
    BY FramesAssumption, NextFrameInv
  <1>3. QED
    BY <1>1, <1>2, PTL DEF Spec

(* A finished walk is the whole section, an unfinished one a prefix.       *)
LEMMA WalkIsPrefix ==
  ASSUME NEW id, DbOK(id.case), NEW got, NEW cursor, Walked(id, got, cursor), NEW items,
         items = Items(id.case)
  PROVE  IsPrefix(got, items) /\ (Len(got) = id.case.evidence => got = items)
  <1>1. PICK n \in Nat : n = id.case.evidence
    BY DEF DbOK, DbShape
  <1>2. PICK k \in Nat : k = Len(got) /\ k <= n
    BY <1>1 DEF Walked
  <1>3. got = [i \in 1..k |-> n + 1 - i] /\ items = [i \in 1..n |-> n + 1 - i]
    BY <1>1, <1>2 DEF Walked, Between, Items
  <1>4. Len(items) = n /\ items \in Seq(Int) /\ got \in Seq(Int) /\ Len(got) = k
    BY <1>2, <1>3
  <1>5. SubSeq(got, 1, k) = [i \in 1..k |-> n + 1 - i]
    BY <1>3, <1>4
  <1>6. SubSeq(items, 1, k) = [i \in 1..k |-> n + 1 - i]
    BY <1>2, <1>3, <1>4
  <1>7. QED
    BY <1>1, <1>2, <1>3, <1>4, <1>5, <1>6 DEF IsPrefix

LEMMA FramesAreTrue == ASSUME FrameInv PROVE ShownFrameIsTrue
  <1>1. ASSUME NEW c \in Clients, Answered(c)
        PROVE  /\ IsFrame(req[c].frame) /\ req[c].frame.id.case \in since[c]
               /\ Walked(req[c].frame.id, req[c].got, req[c].cursor)
               /\ req[c].error = "NONE" => WalkedOut(req[c].frame.id, req[c].got, req[c].cursor)
    BY <1>1 DEF Answered, FrameInv, RequestOK, Outcome
  <1>2. DOMAIN req = Clients
    BY DEF FrameInv, Tabled
  <1>3. FrameWasCurrent
    BY <1>1, <1>2 DEF FrameWasCurrent
  <1>4. PagesAreOneFrame
    <2>1. ASSUME NEW c \in Clients, Answered(c), NEW items, items = Items(req[c].frame.id.case)
          PROVE  /\ IsPrefix(req[c].got, items)
                 /\ req[c].cursor = None /\ req[c].error = "NONE" => req[c].got = items
      <3>1. PICK id, got, cursor : id = req[c].frame.id /\ got = req[c].got /\ cursor = req[c].cursor
        OBVIOUS
      <3>2. /\ Walked(id, got, cursor) /\ DbOK(id.case) /\ items = Items(id.case)
            /\ req[c].error = "NONE" => WalkedOut(id, got, cursor)
        BY <1>1, <2>1, <3>1 DEF IsFrame
      <3>3. IsPrefix(got, items) /\ (Len(got) = id.case.evidence => got = items)
        BY <3>2, WalkIsPrefix
      <3>4. QED
        BY <3>1, <3>2, <3>3 DEF WalkedOut
    <2>2. QED
      BY <1>2, <2>1 DEF PagesAreOneFrame
  <1>5. ClosedShowsItsReport
    <2>1. ASSUME NEW c \in Clients, Answered(c), NEW d, d = req[c].frame.id.case,
                 d.status = "CLOSED_VERIFIED"
          PROVE  /\ CurrentReports(d) = d.closure
                 /\ \A r \in d.closure : r.verdict = "PASS" /\ r.read.evidence = d.evidence
      <3>1. DbOK(d)
        BY <1>1, <2>1 DEF IsFrame
      <3>2. QED
        BY <2>1, <3>1, CaseIsBound
    <2>2. QED
      BY <1>2, <2>1 DEF ClosedShowsItsReport
  <1>6. QED
    BY <1>3, <1>4, <1>5 DEF ShownFrameIsTrue

(* What a reader is shown (build, page, _project) is one moment of the     *)
(* Case that held after the projection was complete, its pages are those   *)
(* of this one frame, none twice and none left out, and a closed Case      *)
(* shows the report that closed it as its one current evaluation: for      *)
(* every number of replicas, clients and frames, with the shared store     *)
(* and with the service's own.                                             *)
THEOREM FramesShowTheCase == Spec => []ShownFrameIsTrue
  <1>1. FrameInv => ShownFrameIsTrue
    BY FramesAreTrue
  <1>2. QED
    BY <1>1, FrameInvAlways, PTL

LEMMA QuietBuilds == ASSUME FrameInv PROVE QuietBuildSucceeds
  <1>1. ASSUME NEW c \in Clients
        PROVE  /\ still[c] /\ req[c].pc = "done"
                  => req[c].frame # None \/ req[c].error = "SERVICE_UNAVAILABLE"
               /\ req[c].error # "CONTEXT_ELIGIBILITY_ERROR"
    <2>1. RequestOK(c) /\ req[c].error # "CONTEXT_ELIGIBILITY_ERROR"
      BY DEF FrameInv, RequestOK, IsRequest
    <2>2. req[c].pc = "done" /\ req[c].frame = None /\ still[c] => req[c].error = "SERVICE_UNAVAILABLE"
      BY <2>1, FrameIsSome DEF RequestOK, Outcome
    <2>3. QED
      BY <2>1, <2>2
  <1>2. DOMAIN req = Clients
    BY DEF FrameInv, Tabled
  <1>3. QED
    BY <1>1, <1>2 DEF QuietBuildSucceeds

(* When neither the Case nor the clock moves during a build, the build     *)
(* succeeds (SQLFrameCache.put and get, build's own cache): an expired     *)
(* frame of the same content has another epoch and never stands in its     *)
(* way, the capacity of the cache never drops the frame just inserted,     *)
(* and a closed Case is never found at odds with its closure.              *)
THEOREM QuietBuildsSucceed == Spec => []QuietBuildSucceeds
  <1>1. FrameInv => QuietBuildSucceeds
    BY QuietBuilds
  <1>2. QED
    BY <1>1, FrameInvAlways, PTL

(***************************************************************************)
(* The rotation of the cursor key.                                         *)
(***************************************************************************)
\* The newest key is n; every replica has it or the one before.
KeysAt(n) ==
  /\ \A r \in Replicas : keys[r].current \in {n - 1, n} /\ keys[r].previous = keys[r].current - 1
  /\ Replicas # {} => \E r \in Replicas : keys[r].current = n

AtRest(n) == \A r \in Replicas : keys[r].current = n

\* What is signed with key k and expires at e: signed with the key before
\* the newest, it was stored before the last replica gave that key up;
\* signed with an older one, it has expired.
Aged(n, k, e) ==
  /\ k <= n /\ e <= clock + TTL
  /\ k < n - 1 => e <= clock
  /\ k < n /\ AtRest(n) => e <= rolled + TTL

RowAged(n, row) ==
  row.frame.first.cursor # None => Aged(n, row.frame.first.cursor.key, row.expires)

RowsAged(n) == \A s \in Stores : \A row \in cache[s].rows : RowAged(n, row)

RequestAged(n, c) ==
  /\ req[c].pc \in {"recheck", "put", "get"} =>
       SignedWith(req[c].frame.first.cursor, keys[req[c].replica].current)
  /\ req[c].pc = "done" /\ req[c].cursor # None =>
       /\ req[c].until \in Nat
       /\ Aged(n, req[c].cursor.key, req[c].until)

KeyInvAt(n) == KeysAt(n) /\ RowsAged(n) /\ \A c \in Clients : RequestAged(n, c)

KeyInv == rolled \in Int /\ \E n \in Nat \ {0} : KeyInvAt(n)

LEMMA InitKeyInv == ASSUME FramesAssumption, Init PROVE KeyInv
  <1>1. rolled \in Int
    BY DEF Init, FramesAssumption
  <1>2. KeysAt(1)
    BY DEF Init, KeysAt
  <1>3. RowsAged(1)
    BY DEF Init, RowsAged, Empty
  <1>4. \A c \in Clients : RequestAged(1, c)
    BY DEF Init, RequestAged, NoRequest
  <1>5. QED
    BY <1>1, <1>2, <1>3, <1>4 DEF KeyInv, KeyInvAt

(* A step of one client.                                                   *)
LEMMA OneClientAges ==
  ASSUME NEW n \in Nat \ {0}, KeyInvAt(n), NEW c \in Clients, UNCHANGED <<clock, keys, rolled>>,
         Others(c), RowsAged(n)', RequestAged(n, c)'
  PROVE  KeyInvAt(n)'
  <1>1. \A x \in Clients \ {c} : RequestAged(n, x)'
    BY DEF KeyInvAt, Others, RequestAged, Aged, AtRest
  <1>2. KeysAt(n)'
    BY DEF KeyInvAt, KeysAt
  <1>3. QED
    BY <1>1, <1>2 DEF KeyInvAt

(* Stores that lost rows at most.                                          *)
LEMMA FewerRows ==
  ASSUME NEW n \in Nat \ {0}, KeyInvAt(n), UNCHANGED <<clock, keys, rolled>>,
         \A s \in Stores : cache'[s].rows \subseteq cache[s].rows
  PROVE  RowsAged(n)'
  BY DEF KeyInvAt, RowsAged, RowAged, Aged, AtRest

LEMMA EarlyAges ==
  ASSUME FrameInv, NEW n \in Nat \ {0}, KeyInvAt(n), NEW c \in Clients, NEW r \in Replicas,
         get_frame(c, r) \/ _read(c) \/ recheck(c)
  PROVE  KeyInvAt(n)'
  <1>1. UNCHANGED <<clock, keys, rolled, cache>> /\ Others(c) /\ IsRequest(req[c])
    BY DEF get_frame, _read, recheck, Go, Fail, Forget, FrameInv, Tabled, Others, RequestOK
  <1>2. RowsAged(n)'
    BY <1>1, FewerRows
  <1>3. RequestAged(n, c)'
    <2>1. CASE get_frame(c, r)
      <3>1. PICK i : req'[c] = [NoRequest EXCEPT !.pc = "read", !.replica = r, !.count = i]
        BY <2>1 DEF get_frame, FrameInv, Tabled
      <3>2. req'[c].pc = "read"
        BY <3>1 DEF NoRequest
      <3>3. QED
        BY <3>2 DEF RequestAged
    <2>2. CASE _read(c)
      <3>1. req'[c] = [req[c] EXCEPT !.pc = "project", !.read = db]
        BY <2>2 DEF _read, FrameInv, Tabled
      <3>2. req'[c].pc = "project"
        BY <1>1, <3>1 DEF IsRequest
      <3>3. QED
        BY <3>2 DEF RequestAged
    <2>3. CASE recheck(c) /\ req[c].read = db
      <3>1. req'[c] = [req[c] EXCEPT !.pc = "put"]
        BY <2>3 DEF recheck, Go, FrameInv, Tabled
      <3>2. /\ req'[c].pc = "put" /\ req'[c].frame = req[c].frame /\ req'[c].replica = req[c].replica
            /\ req[c].pc = "recheck"
        BY <1>1, <2>3, <3>1 DEF IsRequest, recheck
      <3>3. QED
        BY <1>1, <3>2 DEF RequestAged, KeyInvAt
    <2>4. CASE recheck(c) /\ req[c].read # db /\ req[c].tries + 1 = MaxTries
      <3>1. req'[c] = [req[c] EXCEPT !.pc = "done", !.error = "FRAME_STALE", !.read = None,
                                     !.frame = None, !.cursor = None]
        BY <2>4 DEF recheck, Fail, FrameInv, Tabled
      <3>2. req'[c].pc = "done" /\ req'[c].cursor = None
        BY <1>1, <3>1 DEF IsRequest
      <3>3. QED
        BY <3>2 DEF RequestAged
    <2>5. CASE recheck(c) /\ req[c].read # db /\ req[c].tries + 1 # MaxTries
      <3>1. PICK t : req'[c] = [req[c] EXCEPT !.pc = "read", !.tries = t, !.frame = None]
        BY <2>5 DEF recheck, FrameInv, Tabled
      <3>2. req'[c].pc = "read"
        BY <1>1, <3>1 DEF IsRequest
      <3>3. QED
        BY <3>2 DEF RequestAged
    <2>6. QED
      BY <2>1, <2>2, <2>3, <2>4, <2>5
  <1>4. QED
    BY <1>1, <1>2, <1>3, OneClientAges

LEMMA ProjectAges ==
  ASSUME FramesAssumption, FrameInv, NEW n \in Nat \ {0}, KeyInvAt(n), NEW c \in Clients, _project(c)
  PROVE  KeyInvAt(n)'
  <1>1. RequestAged(n, c)'
    BY ProjectStep DEF RequestAged
  <1>2. UNCHANGED <<clock, keys, rolled, cache>> /\ Others(c)
    BY ProjectStep
  <1>3. RowsAged(n)'
    BY <1>2, FewerRows
  <1>4. QED
    BY <1>1, <1>2, <1>3, OneClientAges

(* An answer carries the age of its row.                                   *)
LEMMA AnswerAges ==
  ASSUME FramesAssumption, FrameInv, NEW n \in Nat \ {0}, KeyInvAt(n), NEW c \in Clients, NEW row,
         RowOK(row, clock), RowAged(n, row), Answer(c, row),
         UNCHANGED <<clock, keys, rolled, since, still>>, RowsAged(n)'
  PROVE  KeyInvAt(n)'
  <1>1. row.expires \in Nat
    BY DEF RowOK, FramesAssumption
  <1>2. /\ req'[c].pc = "done" /\ req'[c].cursor = row.frame.first.cursor
        /\ req'[c].until = row.expires /\ Others(c)
    BY AnswerStep
  <1>3. RequestAged(n, c)'
    BY <1>1, <1>2 DEF RequestAged, RowAged, Aged, AtRest
  <1>4. QED
    BY <1>2, <1>3, OneClientAges

LEMMA PutAges ==
  ASSUME FramesAssumption, FrameInv, NEW n \in Nat \ {0}, KeyInvAt(n), NEW c \in Clients, put(c)
  PROVE  KeyInvAt(n)'
  <1>1. PICK s, new : /\ Inserts(c, s, new)
                      /\ ~Shared => \E row \in Stored(new, req[c].frame.id) : Answer(c, row)
    BY PutStep
  <1>2. /\ req[c].pc = "put" /\ IsRequest(req[c]) /\ IsFrame(req[c].frame)
        /\ req[c].replica \in Replicas /\ UNCHANGED <<clock, keys, rolled, since, still>>
        /\ clock \in Nat /\ TTL \in Nat
    BY PutStep DEF Projected, FrameInv, FramesAssumption
  <1>3. PICK k \in Nat : k = keys[req[c].replica].current
    BY <1>2 DEF FrameInv, KeysTyped
  <1>4. k \in {n - 1, n} /\ SignedWith(req[c].frame.first.cursor, k) /\ (AtRest(n) => k = n)
    BY <1>2, <1>3 DEF KeyInvAt, KeysAt, RequestAged, AtRest
  <1>5. Aged(n, k, clock + TTL)
    BY <1>2, <1>4 DEF Aged
  <1>6. ASSUME NEW row \in new.rows
        PROVE  RowAged(n, row)
    <2>1. CASE row \in cache[s].rows
      BY <1>1, <2>1 DEF KeyInvAt, RowsAged, Inserts
    <2>2. CASE row \notin cache[s].rows
      <3>1. row.frame = req[c].frame /\ row.expires = clock + TTL
        BY <1>1, <1>6, <2>2 DEF Inserts
      <3>2. QED
        BY <1>4, <1>5, <3>1 DEF RowAged, SignedWith
    <2>3. QED
      BY <2>1, <2>2
  <1>7. RowsAged(n)'
    <2>1. cache'[s] = new /\ \A t \in Stores \ {s} : cache'[t] = cache[t]
      BY <1>1 DEF Inserts, FrameInv, StoresOK
    <2>2. \A t \in Stores : \A row \in cache'[t].rows : RowAged(n, row)
      BY <1>6, <2>1 DEF KeyInvAt, RowsAged
    <2>3. QED
      BY <1>2, <2>2 DEF RowsAged, RowAged, Aged, AtRest
  <1>8. CASE ~Shared
    <2>1. PICK row \in Stored(new, req[c].frame.id) : Answer(c, row)
      BY <1>1, <1>8
    <2>2. RowOK(row, clock) /\ RowAged(n, row)
      BY <1>1, <1>6, <2>1 DEF Stored, Inserts, StoreOK
    <2>3. QED
      BY <1>2, <1>7, <2>1, <2>2, AnswerAges
  <1>9. CASE Shared
    <2>1. req'[c] = [req[c] EXCEPT !.pc = "get"] /\ Others(c)
      BY <1>2, <1>9, PutStep DEF Go, FrameInv, Tabled, Others
    <2>2. req'[c].pc = "get" /\ req'[c].frame = req[c].frame /\ req'[c].replica = req[c].replica
      BY <1>2, <2>1 DEF IsRequest
    <2>3. RequestAged(n, c)'
      BY <1>2, <1>3, <1>4, <2>2 DEF RequestAged
    <2>4. QED
      BY <1>2, <1>7, <2>1, <2>3, OneClientAges
  <1>10. QED
    BY <1>8, <1>9

LEMMA GetAges ==
  ASSUME FramesAssumption, FrameInv, NEW n \in Nat \ {0}, KeyInvAt(n), NEW c \in Clients, get(c)
  PROVE  KeyInvAt(n)'
  <1>1. PICK rows : rows = {row \in Stored(cache["shared"], req[c].frame.id) : Live(row)}
    OBVIOUS
  <1>2. /\ IsRequest(req[c]) /\ Shared /\ UNCHANGED <<clock, keys, rolled, cache, since, still>>
    BY DEF get, FrameInv, RequestOK, Inserted
  <1>3. RowsAged(n)'
    BY <1>2, FewerRows
  <1>4. CASE rows = {}
    <2>1. req'[c] = [req[c] EXCEPT !.pc = "done", !.error = "FRAME_EXPIRED", !.read = None,
                                   !.frame = None, !.cursor = None]
      BY <1>1, <1>4 DEF get, Fail, FrameInv, Tabled
    <2>2. Others(c)
      BY <1>1, <1>2, <1>4 DEF get, Fail, FrameInv, Tabled, Others
    <2>3. req'[c].pc = "done" /\ req'[c].cursor = None
      BY <1>2, <2>1 DEF IsRequest
    <2>4. RequestAged(n, c)'
      BY <2>3 DEF RequestAged
    <2>5. QED
      BY <1>2, <1>3, <2>2, <2>4, OneClientAges
  <1>5. CASE rows # {}
    <2>1. PICK row \in rows : Answer(c, row)
      BY <1>1, <1>5 DEF get
    <2>2. RowOK(row, clock) /\ RowAged(n, row)
      BY <1>1, <1>2, <2>1 DEF Stored, FrameInv, StoresOK, StoreOK, Stores, KeyInvAt, RowsAged
    <2>3. QED
      BY <1>2, <1>3, <2>1, <2>2, AnswerAges
  <1>6. QED
    BY <1>4, <1>5

(* A page: the reader keeps its frame's lifetime, and its next cursor is   *)
(* signed with a key some replica has.                                     *)
LEMMA PageAges ==
  ASSUME FramesAssumption, FrameInv, NEW n \in Nat \ {0}, KeyInvAt(n), NEW c \in Clients,
         NEW r \in Replicas, page(c, r)
  PROVE  KeyInvAt(n)'
  <1>1. PICK cursor, rows, e :
          cursor = req[c].cursor /\ rows = _cached(r, cursor.frame) /\ e = req[c].until
    OBVIOUS
  <1>2. /\ req[c].pc = "done" /\ cursor # None /\ IsRequest(req[c])
        /\ UNCHANGED <<clock, keys, rolled, since, still>>
        /\ cache' = IF Shared THEN cache ELSE [cache EXCEPT ![r] = _prune(@)]
    BY <1>1 DEF page, FrameInv, RequestOK
  <1>3. RowsAged(n)'
    <2>1. \A s \in Stores : cache'[s].rows \subseteq cache[s].rows
      <3>1. CASE Shared
        BY <1>2, <3>1
      <3>2. CASE ~Shared
        <4>1. r \in Stores /\ StoreOK(cache[r], clock)
          BY <3>2 DEF Stores, FrameInv, StoresOK
        <4>2. _prune(cache[r]).rows \subseteq cache[r].rows
          BY <4>1, PruneKeepsStore
        <4>3. QED
          BY <1>2, <3>2, <4>1, <4>2 DEF FrameInv, StoresOK
      <3>3. QED
        BY <3>1, <3>2
    <2>2. QED
      BY <1>2, <2>1, FewerRows
  <1>4. e \in Nat /\ Aged(n, cursor.key, e)
    BY <1>1, <1>2 DEF KeyInvAt, RequestAged
  <1>5. Others(c)
    BY <1>2 DEF page, Refuse, FrameInv, Tabled, Others
  <1>6. CASE rows = {} \/ ~CursorGood(r, cursor)
    <2>1. PICK error : req'[c] = [req[c] EXCEPT !.error = error, !.cursor = None]
      BY <1>1, <1>6 DEF page, Refuse, FrameInv, Tabled
    <2>2. req'[c].pc = "done" /\ req'[c].cursor = None
      BY <1>2, <2>1 DEF IsRequest
    <2>3. QED
      BY <1>2, <1>3, <1>5, <2>2, OneClientAges DEF RequestAged
  <1>7. CASE rows # {} /\ CursorGood(r, cursor)
    <2>1. PICK key \in Nat : key = keys[r].current
      BY DEF FrameInv, KeysTyped
    <2>2. PICK row, next :
            /\ row \in rows
            /\ next = _page(row.frame, cursor.offset, key)
            /\ req' = [req EXCEPT ![c].got = req[c].got \o next.items, ![c].cursor = next.cursor]
      BY <1>1, <1>7, <2>1 DEF page
    <2>3. next.cursor # None => next.cursor.key = key
      BY <2>2 DEF _page
    <2>4. PICK all, cur : all = req[c].got \o next.items /\ cur = next.cursor
      OBVIOUS
    <2>5. req'[c] = [req[c] EXCEPT !.got = all, !.cursor = cur]
      BY <2>2, <2>4 DEF FrameInv, Tabled
    <2>6. req'[c].pc = "done" /\ req'[c].cursor = cur /\ req'[c].until = req[c].until
      BY <1>2, <2>5 DEF IsRequest
    <2>7. key \in {n - 1, n} /\ (AtRest(n) => key = n)
      BY <2>1 DEF KeyInvAt, KeysAt, AtRest
    <2>8. Aged(n, key, e)
      BY <1>4, <2>7 DEF Aged
    <2>9. RequestAged(n, c)'
      BY <1>1, <1>2, <1>4, <2>3, <2>4, <2>6, <2>8 DEF RequestAged, Aged, AtRest
    <2>10. QED
      BY <1>2, <1>3, <1>5, <2>9, OneClientAges
  <1>8. QED
    BY <1>6, <1>7

LEMMA CleanupAges ==
  ASSUME FrameInv, NEW n \in Nat \ {0}, KeyInvAt(n), prune
  PROVE  KeyInvAt(n)'
  <1>1. Shared /\ UNCHANGED <<clock, keys, rolled, req>>
        /\ cache' = [cache EXCEPT !["shared"] = _prune(@)]
    BY DEF prune
  <1>2. Stores = {"shared"} /\ StoreOK(cache["shared"], clock)
    BY <1>1 DEF Stores, FrameInv, StoresOK
  <1>3. _prune(cache["shared"]).rows \subseteq cache["shared"].rows
    BY <1>2, PruneKeepsStore
  <1>4. \A s \in Stores : cache'[s].rows \subseteq cache[s].rows
    BY <1>1, <1>2, <1>3 DEF FrameInv, StoresOK
  <1>5. RowsAged(n)'
    BY <1>1, <1>4, FewerRows
  <1>6. QED
    BY <1>1, <1>5 DEF KeyInvAt, KeysAt, RequestAged, Aged, AtRest

LEMMA ElsewhereAges ==
  ASSUME NEW n \in Nat \ {0}, KeyInvAt(n), UNCHANGED <<clock, keys, rolled, cache, req>>
  PROVE  KeyInvAt(n)'
  BY DEF KeyInvAt, KeysAt, RowsAged, RowAged, RequestAged, Aged, AtRest

LEMMA TickAges ==
  ASSUME FramesAssumption, FrameInv, NEW n \in Nat \ {0}, KeyInvAt(n), Tick
  PROVE  KeyInvAt(n)'
  <1>1. UNCHANGED <<keys, rolled, cache, req>> /\ clock' = clock + 1 /\ clock \in Nat /\ TTL \in Nat
    BY DEF Tick, FrameInv, FramesAssumption
  <1>2. ASSUME NEW k, NEW e \in Nat, Aged(n, k, e)
        PROVE  Aged(n, k, e)'
    BY <1>1, <1>2 DEF Aged, AtRest
  <1>3. ASSUME NEW s \in Stores, NEW row \in cache[s].rows
        PROVE  RowAged(n, row)'
    <2>1. row.expires \in Nat /\ RowAged(n, row)
      BY DEF FrameInv, StoresOK, StoreOK, RowOK, FramesAssumption, KeyInvAt, RowsAged
    <2>2. QED
      BY <1>2, <2>1 DEF RowAged
  <1>4. RowsAged(n)'
    BY <1>1, <1>3 DEF RowsAged
  <1>5. \A c \in Clients : RequestAged(n, c)'
    BY <1>1, <1>2 DEF KeyInvAt, RequestAged
  <1>6. QED
    BY <1>1, <1>4, <1>5 DEF KeyInvAt, KeysAt

(* A replica gets the next key: the rollout goes on, or the next one       *)
(* begins because one lifetime has passed since the last was complete.     *)
LEMMA RollAges ==
  ASSUME FramesAssumption, FrameInv, rolled \in Int, NEW n \in Nat \ {0}, KeyInvAt(n),
         NEW r \in Replicas, roll_key(r)
  PROVE  rolled' \in Int /\ \E m \in Nat \ {0} : KeyInvAt(m)'
  <1>1. clock \in Nat /\ TTL \in Nat /\ UNCHANGED clock
    BY Restart DEF FrameInv, FramesAssumption
  <1>2. PICK newest : newest = CHOOSE k \in {keys[x].current : x \in Replicas} :
                                 \A x \in Replicas : keys[x].current <= k
    OBVIOUS
  <1>3. newest = n
    <2>1. /\ \A x \in Replicas : keys[x].current \in {n - 1, n}
          /\ n \in {keys[x].current : x \in Replicas}
      BY DEF KeyInvAt, KeysAt
    <2>2. newest \in {keys[x].current : x \in Replicas} /\ \A x \in Replicas : keys[x].current <= newest
      BY <1>2, <2>1
    <2>3. QED
      BY <2>1, <2>2
  <1>4. PICK k \in Nat : k = keys[r].current
    BY DEF FrameInv, KeysTyped
  <1>5. keys' = [keys EXCEPT ![r] = [current |-> k + 1, previous |-> k]]
    BY <1>4, Restart DEF NextKeys
  <1>6. keys'[r].current = k + 1 /\ keys'[r].previous = k /\ \A x \in Replicas \ {r} : keys'[x] = keys[x]
    BY <1>5 DEF FrameInv, KeysTyped
  <1>7. rolled' = IF \A x, y \in Replicas : keys'[x].current = keys'[y].current THEN clock ELSE rolled
    BY DEF roll_key
  <1>8. \/ k = n - 1
        \/ k = n /\ AtRest(n) /\ clock >= rolled + TTL
    <2>1. IF \E x \in Replicas : keys[x].current < newest
          THEN keys[r].current < newest ELSE clock >= rolled + TTL
      BY <1>2, Zenon DEF roll_key
    <2>2. \A x \in Replicas : keys[x].current \in {n - 1, n}
      BY DEF KeyInvAt, KeysAt
    <2>3. CASE \E x \in Replicas : keys[x].current < n
      BY <1>3, <1>4, <2>1, <2>2, <2>3
    <2>4. CASE ~\E x \in Replicas : keys[x].current < n
      <3>1. clock >= rolled + TTL
        BY <1>3, <2>1, <2>4
      <3>2. AtRest(n)
        BY <2>2, <2>4 DEF AtRest
      <3>3. QED
        BY <1>4, <3>1, <3>2 DEF AtRest
    <2>5. QED
      BY <2>3, <2>4
  <1>9. PICK m \in Nat \ {0} : m = IF k = n THEN n + 1 ELSE n
    OBVIOUS
  <1>10. KeysAt(m)'
    BY <1>4, <1>6, <1>8, <1>9 DEF KeyInvAt, KeysAt, AtRest
  <1>11. AtRest(m)' => rolled' = clock
    BY <1>7 DEF AtRest
  <1>12. ASSUME NEW i \in Nat, NEW e \in Nat, Aged(n, i, e)
         PROVE  Aged(m, i, e)'
    <2>1. i <= m /\ e <= clock + TTL
      BY <1>9, <1>12 DEF Aged
    <2>2. i < m - 1 => e <= clock
      BY <1>1, <1>8, <1>9, <1>12 DEF Aged
    <2>3. AtRest(m)' => e <= rolled' + TTL
      BY <1>11, <2>1
    <2>4. QED
      BY <1>1, <2>1, <2>2, <2>3 DEF Aged
  <1>13. RowsAged(m)'
    <2>1. ASSUME NEW s \in Stores
          PROVE  cache'[s].rows \subseteq cache[s].rows
      <3>1. cache' = cache \/ cache' = [cache EXCEPT ![r] = Empty]
        BY Restart
      <3>2. cache'[s] = cache[s] \/ cache'[s] = Empty
        BY <3>1 DEF FrameInv, StoresOK
      <3>3. Empty.rows = {}
        BY DEF Empty
      <3>4. QED
        BY <3>2, <3>3
    <2>2. ASSUME NEW s \in Stores, NEW row \in cache[s].rows
          PROVE  RowAged(m, row)'
      <3>1. row.expires \in Nat /\ RowAged(n, row) /\ IsFrame(row.frame)
        BY DEF FrameInv, StoresOK, StoreOK, RowOK, FramesAssumption, KeyInvAt, RowsAged
      <3>2. row.frame.first.cursor # None => row.frame.first.cursor.key \in Nat
        BY <3>1 DEF IsFrame, Walked
      <3>3. QED
        BY <1>12, <3>1, <3>2 DEF RowAged
    <2>3. QED
      BY <2>1, <2>2 DEF RowsAged
  <1>14. ASSUME NEW c \in Clients
         PROVE  RequestAged(m, c)'
    <2>1. CASE Lost(c, r)
      <3>1. PICK i : req'[c] = [NoRequest EXCEPT !.pc = "done", !.count = i,
                                                 !.error = "SERVICE_UNAVAILABLE"]
        BY <2>1, Restart
      <3>2. req'[c].pc = "done" /\ req'[c].cursor = None
        BY <3>1 DEF NoRequest
      <3>3. QED
        BY <3>2 DEF RequestAged
    <2>2. CASE ~Lost(c, r)
      <3>1. req'[c] = req[c] /\ RequestOK(c) /\ RequestAged(n, c)
        BY <2>2, Restart DEF FrameInv, KeyInvAt
      <3>2. req[c].pc \in {"recheck", "put", "get"} => keys'[req[c].replica] = keys[req[c].replica]
        BY <1>6, <2>2, <3>1 DEF Lost, RequestOK
      <3>3. req[c].pc = "done" /\ req[c].cursor # None => req[c].cursor.key \in Nat
        BY <3>1 DEF RequestOK, Outcome, Walked
      <3>4. QED
        BY <1>12, <3>1, <3>2, <3>3 DEF RequestAged
    <2>3. QED
      BY <2>1, <2>2
  <1>15. QED
    BY <1>1, <1>7, <1>9, <1>10, <1>13, <1>14 DEF KeyInvAt

LEMMA NextKeyInv ==
  ASSUME FramesAssumption, FrameInv, KeyInv, [Next]_vars
  PROVE  KeyInv'
  <1>1. PICK n \in Nat \ {0} : KeyInvAt(n)
    BY DEF KeyInv
  <1>2. rolled \in Int
    BY DEF KeyInv
  <1>3. ASSUME KeyInvAt(n)', UNCHANGED rolled
        PROVE  KeyInv'
    BY <1>2, <1>3 DEF KeyInv
  <1>4. ASSUME NEW c \in Clients, NEW r \in Replicas, get_frame(c, r) \/ page(c, r)
        PROVE  KeyInv'
    BY <1>1, <1>3, <1>4, EarlyAges, PageAges DEF get_frame, page
  <1>5. ASSUME NEW c \in Clients, Build(c)
        PROVE  KeyInv'
    <2>1. PICK r \in Replicas : r = req[c].replica
      BY <1>5 DEF Build, _read, _project, recheck, put, get, FrameInv, RequestOK
    <2>2. KeyInvAt(n)'
      BY <1>1, <1>5, EarlyAges, ProjectAges, PutAges, GetAges DEF Build
    <2>3. UNCHANGED rolled
      BY <1>5 DEF Build, _read, _project, recheck, put, get
    <2>4. QED
      BY <1>3, <2>2, <2>3
  <1>6. CASE prune
    BY <1>1, <1>3, <1>6, CleanupAges DEF prune
  <1>7. ASSUME UNCHANGED <<clock, keys, rolled, cache, req>>
        PROVE  KeyInv'
    BY <1>1, <1>3, <1>7, ElsewhereAges
  <1>8. CASE Tick
    BY <1>1, <1>3, <1>8, TickAges DEF Tick
  <1>9. ASSUME NEW r \in Replicas, roll_key(r)
        PROVE  KeyInv'
    BY <1>1, <1>2, <1>9, RollAges DEF KeyInv
  <1>10. ASSUME \/ \E p \in Parts : Write(p)
                \/ \E v \in {"PASS", "FAIL"} : record(v)
                \/ \E r \in db.reports : close(r)
                \/ Finished \/ UNCHANGED vars
         PROVE  KeyInv'
    BY <1>7, <1>10 DEF Write, record, close, Moved, Finished, vars
  <1>11. QED
    BY <1>4, <1>5, <1>6, <1>8, <1>9, <1>10 DEF Next

LEMMA KeyInvAlways == Spec => []KeyInv
  <1>1. Init => KeyInv
    BY FramesAssumption, InitKeyInv
  <1>2. FrameInv /\ KeyInv /\ [Next]_vars => KeyInv'
    BY FramesAssumption, NextKeyInv
  <1>3. QED
    BY <1>1, <1>2, FrameInvAlways, PTL DEF Spec

(* A cursor is refused by a page only, and only because its key is none of *)
(* the replica's two.                                                      *)
Refused(c) == req'[c].error = "INVALID_CURSOR" /\ req[c].error # "INVALID_CURSOR"

LEMMA BuildRefusesNothing ==
  ASSUME FramesAssumption, FrameInv, NEW c \in Clients, Build(c)
  PROVE  ~Refused(c) /\ \A x \in Clients \ {c} : req'[x] = req[x]
  <1>1. IsRequest(req[c]) /\ req = [x \in Clients |-> req[x]]
    BY DEF FrameInv, RequestOK, Tabled
  <1>2. ASSUME NEW error, error # "INVALID_CURSOR", Fail(c, error)
        PROVE  ~Refused(c) /\ \A x \in Clients \ {c} : req'[x] = req[x]
    <2>1. /\ req'[c] = [req[c] EXCEPT !.pc = "done", !.error = error, !.read = None,
                                      !.frame = None, !.cursor = None]
          /\ \A x \in Clients \ {c} : req'[x] = req[x]
      BY <1>1, <1>2 DEF Fail
    <2>2. req'[c].error = error
      BY <1>1, <2>1 DEF IsRequest
    <2>3. QED
      BY <1>2, <2>1, <2>2 DEF Refused
  <1>3. ASSUME NEW pc, Go(c, pc)
        PROVE  ~Refused(c) /\ \A x \in Clients \ {c} : req'[x] = req[x]
    <2>1. /\ req'[c] = [req[c] EXCEPT !.pc = pc] /\ \A x \in Clients \ {c} : req'[x] = req[x]
      BY <1>1, <1>3 DEF Go
    <2>2. req'[c].error = req[c].error
      BY <1>1, <2>1 DEF IsRequest
    <2>3. QED
      BY <2>1, <2>2 DEF Refused
  <1>4. ASSUME NEW row, Answer(c, row), UNCHANGED <<since, still>>
        PROVE  ~Refused(c) /\ \A x \in Clients \ {c} : req'[x] = req[x]
    BY <1>4, AnswerStep DEF Refused, Others
  <1>5. CASE _read(c)
    <2>1. /\ req'[c] = [req[c] EXCEPT !.pc = "project", !.read = db]
          /\ \A x \in Clients \ {c} : req'[x] = req[x]
      BY <1>1, <1>5 DEF _read
    <2>2. req'[c].error = req[c].error
      BY <1>1, <2>1 DEF IsRequest
    <2>3. QED
      BY <2>1, <2>2 DEF Refused
  <1>6. CASE _project(c)
    BY <1>6, ProjectStep DEF Refused, Others
  <1>7. CASE recheck(c)
    <2>1. CASE req[c].read = db
      BY <1>3, <1>7, <2>1 DEF recheck
    <2>2. CASE req[c].read # db /\ req[c].tries + 1 = MaxTries
      BY <1>2, <1>7, <2>2 DEF recheck
    <2>3. CASE req[c].read # db /\ req[c].tries + 1 # MaxTries
      <3>1. PICK t : /\ req'[c] = [req[c] EXCEPT !.pc = "read", !.tries = t, !.frame = None]
                     /\ \A x \in Clients \ {c} : req'[x] = req[x]
        BY <1>1, <1>7, <2>3 DEF recheck
      <3>2. req'[c].error = req[c].error
        BY <1>1, <3>1 DEF IsRequest
      <3>3. QED
        BY <3>1, <3>2 DEF Refused
    <2>4. QED
      BY <2>1, <2>2, <2>3
  <1>8. CASE put(c)
    BY <1>3, <1>4, <1>8, PutStep
  <1>9. CASE get(c)
    <2>1. UNCHANGED <<since, still>> /\ (Fail(c, "FRAME_EXPIRED") \/ \E row : Answer(c, row))
      BY <1>9 DEF get
    <2>2. QED
      BY <1>2, <1>4, <2>1
  <1>10. QED
    BY <1>5, <1>6, <1>7, <1>8, <1>9 DEF Build

LEMMA RefusedByPage ==
  ASSUME FramesAssumption, FrameInv, [Next]_vars, NEW c \in Clients, Refused(c)
  PROVE  \E r \in Replicas :
           req[c].pc = "done" /\ req[c].cursor # None /\ ~CursorGood(r, req[c].cursor)
  <1>1. IsRequest(req[c]) /\ req = [x \in Clients |-> req[x]]
    BY DEF FrameInv, RequestOK, Tabled
  <1>2. req'[c] # req[c]
    BY DEF Refused
  <1>3. ASSUME NEW x \in Clients, Build(x)
        PROVE  FALSE
    BY <1>2, <1>3, BuildRefusesNothing
  <1>4. ASSUME NEW x \in Clients, NEW r \in Replicas, get_frame(x, r)
        PROVE  FALSE
    <2>1. x = c
      BY <1>1, <1>2, <1>4 DEF get_frame
    <2>2. PICK i : req'[c] = [NoRequest EXCEPT !.pc = "read", !.replica = r, !.count = i]
      BY <1>1, <1>4, <2>1 DEF get_frame
    <2>3. req'[c].error = "NONE"
      BY <2>2 DEF NoRequest
    <2>4. QED
      BY <2>3 DEF Refused
  <1>5. ASSUME NEW x \in Clients, NEW r \in Replicas, page(x, r)
        PROVE  req[c].pc = "done" /\ req[c].cursor # None /\ ~CursorGood(r, req[c].cursor)
    <2>1. x = c
      BY <1>1, <1>2, <1>5 DEF page, Refuse
    <2>2. PICK cursor, rows : cursor = req[c].cursor /\ rows = _cached(r, cursor.frame)
      OBVIOUS
    <2>3. req[c].pc = "done" /\ cursor # None
      BY <1>5, <2>1, <2>2 DEF page
    <2>4. ASSUME rows = {}
          PROVE  FALSE
      <3>1. req'[c] = [req[c] EXCEPT !.error = "FRAME_EXPIRED", !.cursor = None]
        BY <1>1, <1>5, <2>1, <2>2, <2>4 DEF page, Refuse
      <3>2. req'[c].error = "FRAME_EXPIRED"
        BY <1>1, <3>1 DEF IsRequest
      <3>3. QED
        BY <3>2 DEF Refused
    <2>5. ASSUME rows # {}, CursorGood(r, cursor)
          PROVE  FALSE
      <3>0. PICK next : req' = [req EXCEPT ![c].got = req[c].got \o next.items, ![c].cursor = next.cursor]
        BY <1>5, <2>1, <2>2, <2>5 DEF page
      <3>1. PICK all, cur : req'[c] = [req[c] EXCEPT !.got = all, !.cursor = cur]
        BY <1>1, <3>0
      <3>2. req'[c].error = req[c].error
        BY <1>1, <3>1 DEF IsRequest
      <3>3. QED
        BY <3>2 DEF Refused
    <2>6. QED
      BY <2>2, <2>3, <2>4, <2>5
  <1>6. ASSUME NEW r \in Replicas, roll_key(r)
        PROVE  FALSE
    <2>1. PICK i : req'[c] = [NoRequest EXCEPT !.pc = "done", !.count = i,
                                               !.error = "SERVICE_UNAVAILABLE"]
      BY <1>2, <1>6, Restart
    <2>2. req'[c].error = "SERVICE_UNAVAILABLE"
      BY <2>1 DEF NoRequest
    <2>3. QED
      BY <2>2 DEF Refused
  <1>7. ASSUME \/ prune \/ Tick \/ Finished \/ UNCHANGED vars
               \/ \E p \in Parts : Write(p)
               \/ \E v \in {"PASS", "FAIL"} : record(v)
               \/ \E r \in db.reports : close(r)
        PROVE  FALSE
    BY <1>2, <1>7 DEF prune, Tick, Finished, vars, Write, record, close, Moved
  <1>8. QED
    BY <1>3, <1>4, <1>5, <1>6, <1>7 DEF Next

RotationStep ==
  \A c \in DOMAIN req :
    req'[c].error = "INVALID_CURSOR" /\ req[c].error # "INVALID_CURSOR"
    => \/ req[c].until <= clock
       \/ \E r, s \in DOMAIN keys : keys[r].current # keys[s].current

LEMMA RefusedWhileRolling ==
  ASSUME FramesAssumption, FrameInv, KeyInv, [Next]_vars
  PROVE  RotationStep
  <1>1. DOMAIN req = Clients /\ DOMAIN keys = Replicas
    BY DEF FrameInv, Tabled, KeysTyped
  <1>2. SUFFICES ASSUME NEW c \in Clients, Refused(c),
                        \A r, s \in Replicas : keys[r].current = keys[s].current
                 PROVE  req[c].until <= clock
    BY <1>1 DEF RotationStep, Refused
  <1>3. PICK r \in Replicas : req[c].pc = "done" /\ req[c].cursor # None /\ ~CursorGood(r, req[c].cursor)
    BY <1>2, RefusedByPage
  <1>4. PICK n \in Nat \ {0} : KeyInvAt(n)
    BY DEF KeyInv
  <1>5. keys[r].current = n /\ keys[r].previous = n - 1
    BY <1>2, <1>4 DEF KeyInvAt, KeysAt
  <1>6. PICK k \in Nat : k = req[c].cursor.key
    BY <1>3 DEF FrameInv, RequestOK, Outcome, Walked
  <1>7. Aged(n, k, req[c].until)
    BY <1>3, <1>4, <1>6 DEF KeyInvAt, RequestAged
  <1>8. k # n /\ k # n - 1
    BY <1>3, <1>5, <1>6 DEF CursorGood
  <1>9. QED
    BY <1>7, <1>8 DEF Aged

(* A cursor is refused (page, _cursor) only while a new key is being       *)
(* rolled out or when the frame its reader was answered with has expired:  *)
(* waiting one lifetime after every replica has the key is long enough     *)
(* before the previous one is given up, whatever is built, stored anew or  *)
(* restarted meanwhile.                                                    *)
THEOREM CursorsSurvive == Spec => CursorsSurviveRotation
  <1>1. FrameInv /\ KeyInv /\ [Next]_vars => [RotationStep]_vars
    BY FramesAssumption, RefusedWhileRolling
  <1>2. CursorsSurviveRotation <=> [][RotationStep]_vars
    BY PTL DEF CursorsSurviveRotation, RotationStep
  <1>3. QED
    BY <1>1, <1>2, FrameInvAlways, KeyInvAlways, PTL DEF Spec
=============================================================================

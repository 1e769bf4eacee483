---------------------------- MODULE CaseLifeProofs ----------------------------
(***************************************************************************)
(* What the rows of CaseWork hold at all times, for every set of threads   *)
(* and every budget.                                                       *)
(*                                                                         *)
(* The invariant ties three tables together.  A row of the work table      *)
(* obeys the protocol of its claims (RowOK); at most one row is claimed    *)
(* and a resumed one leaves room for one more idle cycle (ClaimOK); and    *)
(* what a thread believes of its row is still so (ThreadOK), because rows  *)
(* are never overwritten: new work goes to a free slot, and every          *)
(* transaction that creates work found room for it.  Rows are also in the  *)
(* order of their creation (Timely), which is what timers rest on.         *)
(***************************************************************************)
EXTENDS CaseWorkProofs, FiniteSetTheorems

CaseType == [status : CaseStatus, rev : Nat, used : 0..MaxToolCalls]

QuotaType ==
  [resumes : 0..MaxResumes, verifications : 0..MaxVerifications, idle : 0..MaxNoProgress]

WorkRows ==
  [kind : WorkType, source : Sources, status : WorkStatus, expStatus : CaseStatus,
   expRev : Nat, created : Nat, rebased : Nat, signal : {"none", "needed", "given"},
   due : BOOLEAN, token : Nat, live : BOOLEAN, recTok : Nat, resTok : Nat,
   started : BOOLEAN]

CallRows == [state : CallState, observed : BOOLEAN, late : BOOLEAN]

EffectType == [status : EffectStatus, rev : Nat, exhausted : BOOLEAN]

ReportState == {"ABSENT", "PENDING", "COMPLETED", "CANCELED"}

ReportRows == [rev : Nat, verdict : Verdicts, state : ReportState]

Pcs == {"idle", "begin", "recover", "resume", "start", "first", "before", "turn", "act",
        "call", "apicall", "report", "finish", "handoff", "ack", "recheck"}

JobRows ==
  [pc : Pcs, w : Slots \cup {0}, tok : Nat, call : Nat, reads : SUBSET CallIds,
   snap : CaseType, blocked : BOOLEAN]

(* A work item is claimed, recovered, resumed and started in that order,   *)
(* and neither one that waits nor a recheck was ever resumed.              *)
RowOK(r, rev) ==
  /\ r.expRev <= rev
  /\ r.live => r.status = "CLAIMED"
  /\ r.recTok <= r.token /\ r.resTok <= r.recTok
  /\ r.started => r.resTok # 0
  /\ r.status = "ABSENT" => r.token = 0
  /\ r.status = "PENDING" \/ r.kind = "recheck" => r.resTok = 0

(* The Case row and the work table.                                        *)
Lawful(d) ==
  /\ d.case \in CaseType
  /\ d.works \in [Slots -> WorkRows]
  /\ \A w \in Slots : RowOK(d.works[w], d.case.rev)

(* At most one work item is claimed, and a resumed one leaves room for     *)
(* the idle cycle it may turn out to be.                                   *)
ClaimOK(ws, idle) ==
  /\ \A v, w \in Slots : ws[v].status = "CLAIMED" /\ ws[w].status = "CLAIMED" => v = w
  /\ \A w \in Slots : ws[w].status = "CLAIMED" /\ ws[w].resTok # 0 => idle < MaxNoProgress

(* What a thread at pc, working on w under claim tok, may rely on.         *)
PcOK(pc, w, tok, ws, rs) ==
  /\ tok = 0 => w = 0 \/ pc \in {"handoff", "ack"}
  /\ pc \in {"begin", "recover", "resume", "start", "report", "finish", "recheck"} => tok # 0
  /\ pc \in {"recover", "resume"} => tok <= ws[w].recTok /\ ws[w].kind # "recheck"
  /\ pc = "recheck" => ws[w].kind = "recheck"
  /\ tok # 0 /\ pc \in {"start", "first", "before", "turn", "act", "call", "report", "finish"}
       => ws[w].resTok # 0
  /\ pc \in {"finish", "handoff", "ack"} => w \in Slots /\ rs[w].state # "ABSENT"

ThreadOK(j, ws, rs) ==
  /\ j.tok # 0 => j.w \in Slots /\ j.tok <= ws[j.w].token
  /\ PcOK(j.pc, j.w, j.tok, ws, rs)

JobsOK(js, ws, rs) == js \in [Threads -> JobRows] /\ \A t \in Threads : ThreadOK(js[t], ws, rs)

LifeInv ==
  /\ Lawful(Db(case, works))
  /\ quota \in QuotaType /\ effect \in EffectType
  /\ calls \in [CallIds -> CallRows] /\ reports \in [Slots -> ReportRows]
  /\ ClaimOK(works, quota.idle)
  /\ JobsOK(job, works, reports)

-----------------------------------------------------------------------------
(* Free slots                                                              *)

HasRoom(ws, n) == Cardinality(Free(ws)) >= n

LEMMA SlotsFinite == IsFiniteSet(Slots) /\ Slots \subseteq Nat
  BY BudgetAssumption, FS_Interval DEF Slots

LEMMA FreeFinite ==
  ASSUME NEW ws
  PROVE  /\ IsFiniteSet(Free(ws)) /\ Cardinality(Free(ws)) \in Nat
         /\ Cardinality(Free(ws)) = 0 <=> Free(ws) = {}
  <1>1. Free(ws) \in SUBSET Slots
    BY DEF Free
  <1>2. QED
    BY <1>1, SlotsFinite, FS_Subset, FS_CardinalityType, FS_EmptySet

LEMMA LeastOf ==
  ASSUME NEW S \in SUBSET Nat, S # {}
  PROVE  \E x \in S : \A y \in S : x <= y
  <1>0. S \subseteq Nat /\ S # {}
    OBVIOUS
  <1>1. PICK x \in S : \A y \in S : ~(<<y, x>> \in OpToRel(<, Nat))
    BY <1>0, NatLessThanWellFounded, WFMin
  <1>2. ASSUME NEW y \in S PROVE x <= y
    <2>1. y < x => <<y, x>> \in OpToRel(<, Nat)
      BY DEF OpToRel
    <2>2. ~(y < x)
      BY <1>1, <2>1, Zenon
    <2>3. QED
      BY <2>2
  <1>3. QED
    BY <1>2

(* New work goes to the first free slot, if there is one.                  *)
LEMMA NextSlotIsFree ==
  ASSUME NEW ws, HasRoom(ws, 1)
  PROVE  NextSlot(ws) \in Free(ws) /\ \A v \in Free(ws) : NextSlot(ws) <= v
  <1>1. Free(ws) # {} /\ Free(ws) \in SUBSET Nat
    <2>1. Cardinality(Free(ws)) # 0
      BY FreeFinite DEF HasRoom
    <2>2. QED
      BY <2>1, FreeFinite, SlotsFinite DEF Free
  <1>2. QED
    BY <1>1, LeastOf DEF NextSlot

LEMMA FewerFree ==
  ASSUME NEW ws, NEW n \in Nat, HasRoom(ws, n + 1), NEW next, NEW k,
         Free(ws) \ {k} \subseteq Free(next)
  PROVE  HasRoom(next, n)
  <1>1. Cardinality(Free(ws) \ {k}) >= n /\ IsFiniteSet(Free(ws) \ {k})
    <2> DEFINE F == Free(ws)
    <2>1. IsFiniteSet(F) /\ Cardinality(F) \in Nat /\ Cardinality(F) >= n + 1
      BY FreeFinite DEF HasRoom
    <2> HIDE DEF F
    <2>2. /\ IsFiniteSet(F \ {k})
          /\ Cardinality(F \ {k}) = IF k \in F THEN Cardinality(F) - 1 ELSE Cardinality(F)
      BY <2>1, FS_RemoveElement
    <2>3. QED
      BY <2>1, <2>2 DEF F
  <1>2. Cardinality(Free(ws) \ {k}) <= Cardinality(Free(next))
    BY FreeFinite, FS_Subset
  <1>3. QED
    BY <1>1, <1>2, FreeFinite, FS_CardinalityType DEF HasRoom

LEMMA SameRoom ==
  ASSUME NEW ws, NEW n \in Nat, HasRoom(ws, n), NEW next, Free(ws) \subseteq Free(next)
  PROVE  HasRoom(next, n)
  BY FreeFinite, FS_Subset DEF HasRoom

LEMMA LessRoom ==
  ASSUME NEW ws, NEW n \in Nat, HasRoom(ws, n + 1)
  PROVE  HasRoom(ws, n)
  BY FreeFinite DEF HasRoom

-----------------------------------------------------------------------------
(* What a transaction does to the Case row and the work table              *)

(* The order of the rows tells their age: a timer expects a later revision *)
(* than every row before it, and a verification of a waiting Case is not   *)
(* due while a timer before it runs.                                       *)
Timer(r) == r.kind = "resume" /\ r.status # "ABSENT"

Running(r) == r.kind = "resume" /\ r.status = "PENDING" /\ ~r.due

Dated(r) == r.kind = "verify" /\ r.status # "ABSENT" /\ r.expStatus = "WAITING"

Timely(ws) ==
  /\ \A v, w \in Slots : v < w /\ ws[w].status # "ABSENT" => ws[v].status # "ABSENT"
  /\ \A v, w \in Slots : v < w /\ Timer(ws[w]) => ws[v].expRev < ws[w].expRev
  /\ \A v, w \in Slots : v < w /\ Running(ws[v]) /\ Dated(ws[w]) => ~ws[w].due
  /\ \A w \in Slots : ws[w].kind = "followup" /\ ws[w].status # "ABSENT" => ws[w].signal # "none"

(* Row s is as old as row r and no more due, and no timer runs anew in it. *)
SameAge(r, s) ==
  /\ s.status = "ABSENT" <=> r.status = "ABSENT"
  /\ s.kind = r.kind /\ s.expRev = r.expRev /\ s.expStatus = r.expStatus
  /\ s.due => r.due
  /\ Running(s) => Running(r)
  /\ s.signal = "none" => r.signal = "none"

LEMMA SameAges ==
  ASSUME NEW ws, NEW next, \A w \in Slots : SameAge(ws[w], next[w]), Timely(ws)
  PROVE  Timely(next)
  BY DEF Timely, SameAge, Timer, Dated

(* A row that is there stays, with its claims and its resumption.          *)
SameRow(r, s) ==
  /\ s.token = r.token /\ s.recTok = r.recTok /\ s.resTok = r.resTok
  /\ s.status = "CLAIMED" => r.status = "CLAIMED"
  /\ r.status # "ABSENT" => s.status # "ABSENT" /\ s.kind = r.kind

Grows(d, e) ==
  /\ Lawful(e)
  /\ d.case.rev <= e.case.rev /\ e.case.used = d.case.used
  /\ e.case = d.case \/ e.case.status = "ESCALATED"
  /\ \A w \in Slots : SameRow(d.works[w], e.works[w])
  /\ Timely(d.works) => Timely(e.works)

LEMMA GrowsItself ==
  ASSUME NEW d, Lawful(d)
  PROVE  Grows(d, d)
  BY DEF Grows, Lawful, SameRow, CaseType

LEMMA GrowsTransitive ==
  ASSUME NEW d, NEW e, NEW f, Lawful(d), Grows(d, e), Grows(e, f)
  PROVE  Grows(d, f)
  <1>1. d.case.rev <= f.case.rev /\ f.case.used = d.case.used
    BY DEF Grows, Lawful, CaseType
  <1>2. f.case = d.case \/ f.case.status = "ESCALATED"
    BY DEF Grows
  <1>3. \A w \in Slots : SameRow(d.works[w], f.works[w])
    BY DEF Grows, SameRow
  <1>4. QED
    BY <1>1, <1>2, <1>3 DEF Grows

LEMMA GrowsLawful ==
  ASSUME NEW d, NEW e, Grows(d, e)
  PROVE  Lawful(e)
  BY DEF Grows

(* The row of a new work item.                                             *)
NewRow(c, kind, source, status, signal, due) ==
  [kind |-> kind, source |-> source, status |-> status, expStatus |-> c.status,
   expRev |-> c.rev, created |-> c.rev, rebased |-> 0, signal |-> signal, due |-> due,
   token |-> 0, live |-> FALSE, recTok |-> 0, resTok |-> 0, started |-> FALSE]

LEMMA CreateIs ==
  ASSUME NEW c, NEW ws, NEW kind, NEW source, NEW due \in BOOLEAN
  PROVE  \/ create_work(c, ws, kind, source, due) = ws
         \/ \E status \in {"CANCELED", "PENDING"}, signal \in {"none", "needed"},
               ripe \in BOOLEAN :
              /\ ripe => ~WaitsForTimer(c, ws, kind)
              /\ kind = "followup" => signal = "needed"
              /\ create_work(c, ws, kind, source, due) =
                   [ws EXCEPT ![NextSlot(ws)] = NewRow(c, kind, source, status, signal, ripe)]
  <1> DEFINE status == IF c.status = "CLOSED_VERIFIED" THEN "CANCELED" ELSE "PENDING"
             signal == IF NeedsSignal(c, kind) THEN "needed" ELSE "none"
             ripe == due /\ ~WaitsForTimer(c, ws, kind)
  <1>1. status \in {"CANCELED", "PENDING"} /\ signal \in {"none", "needed"} /\ ripe \in BOOLEAN
    OBVIOUS
  <1>2. (ripe => ~WaitsForTimer(c, ws, kind)) /\ (kind = "followup" => signal = "needed")
    BY DEF NeedsSignal
  <1>3. create_work(c, ws, kind, source, due) \in
          {ws, [ws EXCEPT ![NextSlot(ws)] = NewRow(c, kind, source, status, signal, ripe)]}
    BY DEF create_work, NewRow
  <1> HIDE DEF status, signal, ripe
  <1>4. QED
    BY <1>1, <1>3, <1>2

LEMMA NewRowOK ==
  ASSUME NEW c \in CaseType, NEW kind \in WorkType, NEW source \in Sources,
         NEW status \in {"CANCELED", "PENDING"}, NEW signal \in {"none", "needed"},
         NEW ripe \in BOOLEAN
  PROVE  LET r == NewRow(c, kind, source, status, signal, ripe) IN
         /\ r \in WorkRows /\ RowOK(r, c.rev)
         /\ r.token = 0 /\ r.recTok = 0 /\ r.resTok = 0 /\ r.status \in {"CANCELED", "PENDING"}
         /\ r.kind = kind /\ r.source = source
  <1>1. c.status \in CaseStatus /\ c.rev \in Nat /\ status \in WorkStatus
    BY DEF CaseType, WorkStatus
  <1>2. NewRow(c, kind, source, status, signal, ripe) \in WorkRows
    BY <1>1 DEF NewRow, WorkRows
  <1>3. QED
    BY <1>1, <1>2 DEF NewRow, RowOK

(* A new row is the last one; a new timer belongs to a new revision.       *)
LEMMA CreateTimely ==
  ASSUME NEW c \in CaseType, NEW ws \in [Slots -> WorkRows], HasRoom(ws, 1), Timely(ws),
         NEW kind \in WorkType, NEW source \in Sources,
         kind = "resume" => \A w \in Slots : ws[w].expRev < c.rev,
         NEW status \in {"CANCELED", "PENDING"}, NEW signal \in {"none", "needed"},
         NEW ripe \in BOOLEAN, ripe => ~WaitsForTimer(c, ws, kind),
         kind = "followup" => signal = "needed"
  PROVE  Timely([ws EXCEPT ![NextSlot(ws)] = NewRow(c, kind, source, status, signal, ripe)])
  <1> DEFINE k == NextSlot(ws)
             r == NewRow(c, kind, source, status, signal, ripe)
             next == [ws EXCEPT ![k] = r]
  <1>1. k \in Slots /\ ws[k].status = "ABSENT"
    BY NextSlotIsFree DEF Free
  <1>2. \A v \in Slots : v < k => ws[v].status # "ABSENT"
    <2>1. \A v \in Slots : ws[v].status = "ABSENT" => k <= v
      BY NextSlotIsFree DEF Free
    <2> HIDE DEF k
    <2>2. QED
      BY <1>1, <2>1, SlotsFinite
  <1>3. \A v \in Slots : ws[v].status # "ABSENT" => ~(k < v)
    BY <1>1 DEF Timely
  <1>4. /\ r.kind = kind /\ r.status # "ABSENT" /\ r.expRev = c.rev /\ r.expStatus = c.status
        /\ r.signal = signal /\ r.due = ripe
    BY DEF NewRow
  <1>5. Dated(r) /\ (\E v \in Slots : Running(ws[v])) => ~r.due
    <2>1. (\E v \in Slots : Running(ws[v])) => RunningTimers(ws) # {}
      BY DEF Running, RunningTimers
    <2>2. QED
      BY <1>4, <2>1 DEF Dated, WaitsForTimer
  <1> HIDE DEF k, r
  <1>6. next \in [Slots -> {ws[w] : w \in Slots} \cup {r}]
        /\ \A w \in Slots : next[w] = IF w = k THEN r ELSE ws[w]
    BY <1>1
  <1> HIDE DEF next
  <1>7. ASSUME NEW v \in Slots, NEW w \in Slots, v < w
        PROVE  /\ next[w].status # "ABSENT" => next[v].status # "ABSENT"
               /\ Timer(next[w]) => next[v].expRev < next[w].expRev
               /\ Running(next[v]) /\ Dated(next[w]) => ~next[w].due
    <2>1. CASE w = k
      <3>1. next[w] = r /\ next[v] = ws[v]
        BY <1>6, <1>7, <2>1, SlotsFinite
      <3>2. ws[v].status # "ABSENT"
        BY <1>2, <1>7, <2>1
      <3>3. Timer(r) => ws[v].expRev < r.expRev
        BY <1>4 DEF Timer
      <3>4. QED
        BY <1>5, <3>1, <3>2, <3>3
    <2>2. CASE w # k /\ v = k
      <3>1. next[w] = ws[w] /\ ws[w].status = "ABSENT"
        BY <1>3, <1>6, <1>7, <2>2
      <3>2. QED
        BY <3>1 DEF Timer, Dated
    <2>3. CASE w # k /\ v # k
      BY <1>6, <1>7, <2>3 DEF Timely
    <2>4. QED
      BY <2>1, <2>2, <2>3
  <1>8. ASSUME NEW w \in Slots, next[w].kind = "followup", next[w].status # "ABSENT"
        PROVE  next[w].signal # "none"
    BY <1>4, <1>6, <1>8 DEF Timely
  <1>9. QED
    BY <1>7, <1>8 DEF Timely, next, k, r

LEMMA CreateGrows ==
  ASSUME NEW d, Lawful(d), NEW n \in Nat, HasRoom(d.works, n + 1),
         NEW kind \in WorkType, NEW source \in Sources, NEW due \in BOOLEAN,
         kind = "resume" => \A w \in Slots : d.works[w].expRev < d.case.rev
  PROVE  LET e == Db(d.case, create_work(d.case, d.works, kind, source, due)) IN
         Grows(d, e) /\ HasRoom(e.works, n)
  <1> DEFINE ws == create_work(d.case, d.works, kind, source, due)
             k == NextSlot(d.works)
  <1>1. CASE ws = d.works
    <2>1. Grows(d, Db(d.case, ws))
      BY <1>1, DbParts, GrowsItself DEF Grows, Lawful
    <2>2. QED
      BY <1>1, <2>1, DbParts, LessRoom
  <1>2. ASSUME NEW status \in {"CANCELED", "PENDING"}, NEW signal \in {"none", "needed"},
               NEW ripe \in BOOLEAN, ripe => ~WaitsForTimer(d.case, d.works, kind),
               kind = "followup" => signal = "needed",
               ws = [d.works EXCEPT ![k] = NewRow(d.case, kind, source, status, signal, ripe)]
        PROVE  Grows(d, Db(d.case, ws)) /\ HasRoom(ws, n)
    <2> DEFINE r == NewRow(d.case, kind, source, status, signal, ripe)
    <2>1. d.case \in CaseType /\ d.works \in [Slots -> WorkRows]
      BY DEF Lawful
    <2>2. /\ r \in WorkRows /\ RowOK(r, d.case.rev)
          /\ r.token = 0 /\ r.recTok = 0 /\ r.resTok = 0 /\ r.status \in {"CANCELED", "PENDING"}
      BY <2>1, NewRowOK
    <2>3. k \in Slots /\ d.works[k].status = "ABSENT"
      <3>1. HasRoom(d.works, 1)
        BY FreeFinite DEF HasRoom
      <3>2. QED
        BY <3>1, NextSlotIsFree DEF Free
    <2>4. Timely(d.works) => Timely(ws)
      <3>1. HasRoom(d.works, 1)
        BY FreeFinite DEF HasRoom
      <3> HIDE DEF ws
      <3>2. QED
        BY <1>2, <2>1, <3>1, CreateTimely, Zenon DEF r, k
    <2> HIDE DEF r, k, ws
    <2>5. ws \in [Slots -> WorkRows] /\ \A w \in Slots : ws[w] = IF w = k THEN r ELSE d.works[w]
      BY <1>2, <2>1, <2>2, <2>3 DEF r
    <2>6. \A w \in Slots : RowOK(ws[w], d.case.rev)
      BY <2>2, <2>5 DEF Lawful
    <2>7. d.works[k].token = 0 /\ d.works[k].recTok = 0 /\ d.works[k].resTok = 0
      BY <2>1, <2>3 DEF Lawful, RowOK, WorkRows
    <2>8. \A w \in Slots : SameRow(d.works[w], ws[w])
      BY <2>2, <2>3, <2>5, <2>7 DEF SameRow
    <2>9. Grows(d, Db(d.case, ws))
      BY <2>1, <2>5, <2>6, <2>8, <2>4, DbParts DEF Grows, Lawful, CaseType
    <2>10. Free(d.works) \ {k} \subseteq Free(ws)
      BY <2>5 DEF Free
    <2>11. QED
      BY <2>9, <2>10, FewerFree
  <1> HIDE DEF ws, k
  <1>3. Db(d.case, ws).works = ws
    BY DbParts
  <1>4. \/ ws = d.works
        \/ \E status \in {"CANCELED", "PENDING"}, signal \in {"none", "needed"}, ripe \in BOOLEAN :
             /\ ripe => ~WaitsForTimer(d.case, d.works, kind)
             /\ kind = "followup" => signal = "needed"
             /\ ws = [d.works EXCEPT ![k] = NewRow(d.case, kind, source, status, signal, ripe)]
    BY CreateIs DEF ws, k
  <1>5. QED
    BY <1>1, <1>2, <1>3, <1>4 DEF ws

(* One row of the table is written, and no slot is freed or used up.       *)
LEMMA PutGrows ==
  ASSUME NEW d, Lawful(d), NEW w \in Slots, NEW r \in WorkRows, RowOK(r, d.case.rev),
         SameRow(d.works[w], r), SameAge(d.works[w], r), d.works[w].status # "ABSENT"
  PROVE  LET e == Db(d.case, [d.works EXCEPT ![w] = r]) IN
         Grows(d, e) /\ Free(d.works) \subseteq Free(e.works)
  <1> DEFINE ws == [d.works EXCEPT ![w] = r]
  <1>1. ws \in [Slots -> WorkRows] /\ \A v \in Slots : ws[v] = IF v = w THEN r ELSE d.works[v]
    BY DEF Lawful
  <1> HIDE DEF ws
  <1>2. \A v \in Slots : RowOK(ws[v], d.case.rev)
    BY <1>1 DEF Lawful
  <1>3. \A v \in Slots : SameRow(d.works[v], ws[v])
    BY <1>1 DEF SameRow
  <1>4. Timely(d.works) => Timely(ws)
    <2>1. \A v \in Slots : SameAge(d.works[v], ws[v])
      BY <1>1 DEF SameAge
    <2>2. QED
      BY <2>1, SameAges
  <1>5. Grows(d, Db(d.case, ws))
    BY <1>1, <1>2, <1>3, <1>4, DbParts DEF Grows, Lawful, CaseType
  <1>6. Free(d.works) \subseteq Free(ws)
    BY <1>1 DEF Free
  <1>7. QED
    BY <1>5, <1>6, DbParts DEF ws

Final == {"COMPLETED", "CANCELED", "BLOCKED"}

LEMMA EndsGrows ==
  ASSUME NEW d, Lawful(d), NEW w \in Slots, d.works[w].status # "ABSENT", NEW s \in Final
  PROVE  LET e == Db(d.case, Ends(d.works, w, s)) IN
         Grows(d, e) /\ Free(d.works) \subseteq Free(e.works)
  <1> DEFINE row == d.works[w]
             r == [row EXCEPT !.status = s, !.live = FALSE]
  <1>1. row \in WorkRows /\ RowOK(row, d.case.rev)
    BY DEF Lawful
  <1>2. s \in WorkStatus /\ s # "ABSENT" /\ s # "CLAIMED" /\ s # "PENDING"
    BY DEF Final, WorkStatus
  <1>3. Ends(d.works, w, s) = [d.works EXCEPT ![w] = r]
    BY DEF Lawful, Ends
  <1> HIDE DEF row
  <1>4. /\ r \in WorkRows /\ r.status = s /\ r.live = FALSE /\ r.due = row.due
        /\ r.signal = row.signal /\ r.expStatus = row.expStatus
        /\ r.kind = row.kind /\ r.expRev = row.expRev /\ r.token = row.token
        /\ r.recTok = row.recTok /\ r.resTok = row.resTok /\ r.started = row.started
    BY <1>1, <1>2 DEF WorkRows
  <1> HIDE DEF r
  <1>5. RowOK(r, d.case.rev) /\ SameRow(row, r)
    BY <1>1, <1>2, <1>4 DEF RowOK, SameRow
  <1>6. row.status # "ABSENT" => SameAge(row, r)
    BY <1>2, <1>4 DEF SameAge, Running
  <1>7. QED
    BY <1>3, <1>4, <1>5, <1>6, PutGrows DEF row

LEMMA CancelGrows ==
  ASSUME NEW d, Lawful(d)
  PROVE  LET e == Db(d.case, cancel_terminal_work(d.works)) IN
         Grows(d, e) /\ Free(d.works) \subseteq Free(e.works)
  <1> DEFINE ws == cancel_terminal_work(d.works)
             canceled(r) == [r EXCEPT !.status = "CANCELED", !.live = FALSE]
  <1>1. ws = [w \in Slots |-> ws[w]]
    BY DEF cancel_terminal_work
  <1>2. ASSUME NEW w \in Slots
        PROVE  /\ ws[w] \in WorkRows /\ RowOK(ws[w], d.case.rev)
               /\ SameRow(d.works[w], ws[w]) /\ SameAge(d.works[w], ws[w])
    <2> DEFINE row == d.works[w]
    <2>1. row \in WorkRows /\ RowOK(row, d.case.rev)
      BY DEF Lawful
    <2>2. ws[w] = IF row.status \in {"PENDING", "CLAIMED", "BLOCKED"} THEN canceled(row) ELSE row
      BY DEF cancel_terminal_work, Open
    <2> HIDE DEF row, ws
    <2>3. LET r == canceled(row) IN
          /\ r \in WorkRows /\ r.status = "CANCELED" /\ r.live = FALSE /\ r.due = row.due
          /\ r.signal = row.signal /\ r.expStatus = row.expStatus
          /\ r.kind = row.kind /\ r.expRev = row.expRev /\ r.token = row.token
          /\ r.recTok = row.recTok /\ r.resTok = row.resTok /\ r.started = row.started
      BY <2>1 DEF WorkRows, WorkStatus
    <2> HIDE DEF canceled
    <2>4. CASE row.status \in {"PENDING", "CLAIMED", "BLOCKED"}
      BY <2>1, <2>2, <2>3, <2>4 DEF RowOK, SameRow, SameAge, Running, row
    <2>5. CASE row.status \notin {"PENDING", "CLAIMED", "BLOCKED"}
      BY <2>1, <2>2, <2>5 DEF SameRow, SameAge, row
    <2>6. QED
      BY <2>4, <2>5
  <1> HIDE DEF ws
  <1>3. ws \in [Slots -> WorkRows]
    BY <1>1, <1>2
  <1>4. Grows(d, Db(d.case, ws))
    BY <1>2, <1>3, SameAges, DbParts DEF Grows, Lawful, CaseType
  <1>5. Free(d.works) \subseteq Free(ws)
    BY <1>2 DEF Free, SameAge
  <1>6. QED
    BY <1>4, <1>5, DbParts DEF ws

LEMMA SourcesAre ==
  /\ \A w \in Slots \cup {0} : <<"work", w>> \in Sources /\ <<"report", w>> \in Sources
  /\ <<"effect", 0>> \in Sources /\ <<"effect", 1>> \in Sources
  /\ \A n \in Nat : <<"decision", n>> \in Sources
  BY SlotsFinite DEF Sources

LEMMA CaseSteps ==
  ASSUME NEW c \in CaseType, NEW s \in CaseStatus
  PROVE  /\ LET d == [c EXCEPT !.rev = @ + 1] IN
            d \in CaseType /\ d.status = c.status /\ d.rev = c.rev + 1 /\ d.used = c.used
         /\ LET d == [c EXCEPT !.status = s, !.rev = @ + 1] IN
            d \in CaseType /\ d.status = s /\ d.rev = c.rev + 1 /\ d.used = c.used
  <1>1. PICK n \in Nat : n = c.rev + 1
    BY DEF CaseType
  <1>2. LET d == [c EXCEPT !.rev = n] IN
        d \in CaseType /\ d.status = c.status /\ d.rev = n /\ d.used = c.used
    BY DEF CaseType
  <1>3. LET d == [c EXCEPT !.status = s, !.rev = n] IN
        d \in CaseType /\ d.status = s /\ d.rev = n /\ d.used = c.used
    BY DEF CaseType
  <1>4. QED
    BY <1>1, <1>2, <1>3

LEMMA EscalateGrows ==
  ASSUME NEW d, Lawful(d), NEW n \in Nat, HasRoom(d.works, n + 1), NEW source \in Sources
  PROVE  LET e == escalate_in(d, source) IN Grows(d, e) /\ HasRoom(e.works, n)
  <1> DEFINE c == [d.case EXCEPT !.status = "ESCALATED", !.rev = @ + 1]
             m == Db(c, d.works)
             ws == create_work(c, d.works, "followup", source, TRUE)
  <1>1. CASE d.case.status = "CLOSED_VERIFIED"
    BY <1>1, GrowsItself, LessRoom DEF escalate_in
  <1>2. CASE d.case.status # "CLOSED_VERIFIED"
    <2>1. escalate_in(d, source) = Db(c, ws)
      BY <1>2 DEF escalate_in
    <2>2. d.case \in CaseType /\ d.case.rev \in Nat
      BY DEF Lawful, CaseType
    <2>3. /\ c \in CaseType /\ c.status = "ESCALATED" /\ c.rev = d.case.rev + 1
          /\ c.used = d.case.used
      BY <2>2, CaseSteps DEF CaseStatus
    <2> HIDE DEF c
    <2>4. m.case = c /\ m.works = d.works
      BY DbParts
    <2>5. Lawful(m)
      <3>1. \A w \in Slots : RowOK(d.works[w], c.rev)
        BY <2>2, <2>3 DEF Lawful, RowOK, WorkRows
      <3>2. QED
        BY <2>3, <2>4, <3>1 DEF Lawful
    <2>6. Grows(d, m)
      BY <2>2, <2>3, <2>4, <2>5 DEF Grows, SameRow
    <2> HIDE DEF m
    <2>7. Grows(m, Db(m.case, create_work(m.case, m.works, "followup", source, TRUE)))
          /\ HasRoom(Db(m.case, create_work(m.case, m.works, "followup", source, TRUE)).works, n)
      BY <2>4, <2>5, CreateGrows DEF WorkType
    <2>8. QED
      BY <2>1, <2>4, <2>6, <2>7, GrowsTransitive
  <1>3. QED
    BY <1>1, <1>2

LEMMA OperatorGrows ==
  ASSUME NEW d, Lawful(d), NEW n \in Nat, HasRoom(d.works, n + 1), NEW w \in Slots
  PROVE  LET e == recovery_operator(d, w) IN Grows(d, e) /\ HasRoom(e.works, n)
  <1>1. recovery_operator(d, w) \in
          {d, escalate_in(d, <<"work", w>>),
           Db(d.case, create_work(d.case, d.works, "followup", <<"work", w>>, TRUE))}
    BY DEF recovery_operator
  <1>2. <<"work", w>> \in Sources /\ "followup" \in WorkType
    BY SourcesAre DEF WorkType
  <1>3. Grows(d, d) /\ HasRoom(d.works, n)
    BY GrowsItself, LessRoom
  <1>4. LET e == escalate_in(d, <<"work", w>>) IN Grows(d, e) /\ HasRoom(e.works, n)
    BY <1>2, EscalateGrows
  <1>5. LET e == Db(d.case, create_work(d.case, d.works, "followup", <<"work", w>>, TRUE))
        IN Grows(d, e) /\ HasRoom(e.works, n)
    BY <1>2, CreateGrows
  <1>6. QED
    BY <1>1, <1>3, <1>4, <1>5, Zenon

LEMMA SettledGrows ==
  ASSUME NEW d, Lawful(d), NEW n \in Nat, HasRoom(d.works, n + 1), NEW x
  PROVE  LET e == Db(d.case, settled_handoff(d.case, d.works, x)) IN
         Grows(d, e) /\ HasRoom(e.works, n)
  <1>1. <<"effect", 0>> \in Sources /\ {"verify", "followup"} \subseteq WorkType
    BY SourcesAre DEF WorkType
  <1> DEFINE kind == IF x.status = "APPLIED" THEN "verify" ELSE "followup"
  <1>2. kind \in WorkType /\ kind # "resume"
    BY <1>1
  <1> HIDE DEF kind
  <1>3. settled_handoff(d.case, d.works, x) = create_work(d.case, d.works, kind, <<"effect", 0>>, TRUE)
    BY DEF settled_handoff, kind
  <1>4. QED
    BY <1>1, <1>2, <1>3, CreateGrows

(* An effect that is neither settled nor given up needs no new work.       *)
LEMMA CheckGrows ==
  ASSUME NEW d, Lawful(d), NEW w \in Slots, d.works[w].status # "ABSENT", NEW n \in Nat,
         NEW x \in EffectType,
         IF x.status \in RECOVERABLE /\ ~x.exhausted
         THEN HasRoom(d.works, n) ELSE HasRoom(d.works, n + 1)
  PROVE  LET e == check_recovery_work(d, w, x) IN Grows(d, e) /\ HasRoom(e.works, n)
  <1> DEFINE blocked == Db(d.case, Ends(d.works, w, "BLOCKED"))
             ws == IF d.works[w].status = "COMPLETED" THEN d.works
                   ELSE Ends(d.works, w, "COMPLETED")
             done == Db(d.case, ws)
  <1>0. HasRoom(d.works, n)
    BY LessRoom
  <1>1. CASE d.case.status = "CLOSED_VERIFIED"
    <2>1. check_recovery_work(d, w, x) = Db(d.case, cancel_terminal_work(d.works))
      BY <1>1 DEF check_recovery_work
    <2>2. QED
      BY <1>0, <2>1, CancelGrows, SameRoom
  <1>2. CASE d.case.status # "CLOSED_VERIFIED" /\ x.status \notin RECOVERABLE
    <2>1. check_recovery_work(d, w, x) = Db(d.case, settled_handoff(d.case, ws, x))
      BY <1>2 DEF check_recovery_work
    <2>2. Grows(d, done) /\ HasRoom(done.works, n + 1)
      <3>1. CASE d.works[w].status = "COMPLETED"
        <4>1. ws = d.works /\ done.works = d.works /\ done.case = d.case
          BY <3>1, DbParts
        <4> HIDE DEF ws, done
        <4>2. QED
          BY <1>2, <4>1, GrowsItself DEF Grows, Lawful
      <3>2. CASE d.works[w].status # "COMPLETED"
        <4>1. ws = Ends(d.works, w, "COMPLETED") /\ "COMPLETED" \in Final
          BY <3>2 DEF Final
        <4> HIDE DEF ws
        <4>2. QED
          BY <1>2, <4>1, EndsGrows, SameRoom
      <3>3. QED
        BY <3>1, <3>2
    <2>3. done.case = d.case /\ done.works = ws
      BY DbParts
    <2> HIDE DEF done, ws
    <2>4. QED
      BY <2>1, <2>2, <2>3, SettledGrows, GrowsTransitive, GrowsLawful
  <1>3. CASE d.case.status # "CLOSED_VERIFIED" /\ x.status \in RECOVERABLE /\ x.exhausted
    <2>1. check_recovery_work(d, w, x) = recovery_operator(blocked, w)
      BY <1>3 DEF check_recovery_work
    <2>2. Grows(d, blocked) /\ HasRoom(blocked.works, n + 1)
      BY <1>3, EndsGrows, SameRoom DEF Final
    <2> HIDE DEF blocked
    <2>3. QED
      BY <2>1, <2>2, OperatorGrows, GrowsTransitive, GrowsLawful
  <1>4. CASE d.case.status # "CLOSED_VERIFIED" /\ x.status \in RECOVERABLE /\ ~x.exhausted
    BY <1>0, <1>4, GrowsItself DEF check_recovery_work
  <1>5. QED
    BY <1>1, <1>2, <1>3, <1>4

(* After create_work there is the work that was asked for.                 *)
LEMMA CreateHas ==
  ASSUME NEW d, Lawful(d), HasRoom(d.works, 1),
         NEW kind \in WorkType, NEW source \in Sources, NEW due \in BOOLEAN
  PROVE  LET ws == create_work(d.case, d.works, kind, source, due) IN
         \E w \in Slots : ws[w].status # "ABSENT" /\ ws[w].kind = kind /\ ws[w].source = source
  <1> DEFINE ws == create_work(d.case, d.works, kind, source, due)
             has(w) == /\ d.works[w].status # "ABSENT" /\ d.works[w].kind = kind
                       /\ d.works[w].source = source
             k == NextSlot(d.works)
  <1>1. CASE \E w \in Slots : has(w)
    <2>1. ws = d.works
      BY <1>1 DEF create_work
    <2>2. QED
      BY <1>1, <2>1
  <1>2. CASE ~\E w \in Slots : has(w)
    <2> DEFINE status == IF d.case.status = "CLOSED_VERIFIED" THEN "CANCELED" ELSE "PENDING"
               signal == IF NeedsSignal(d.case, kind) THEN "needed" ELSE "none"
               ripe == due /\ ~WaitsForTimer(d.case, d.works, kind)
               r == NewRow(d.case, kind, source, status, signal, ripe)
    <2>1. ws = IF \E w \in Slots : has(w) THEN d.works ELSE [d.works EXCEPT ![k] = r]
      BY Zenon DEF create_work, NewRow
    <2>2. status # "ABSENT" /\ r.status = status /\ r.kind = kind /\ r.source = source
      BY DEF NewRow
    <2>3. k \in Slots
      BY NextSlotIsFree DEF Free
    <2>4. d.works \in [Slots -> WorkRows]
      BY DEF Lawful
    <2> HIDE DEF r, k, ws
    <2>5. ws[k] = r
      BY <1>2, <2>1, <2>3, <2>4
    <2>6. QED
      BY <2>2, <2>3, <2>5 DEF ws
  <1>3. QED
    BY <1>1, <1>2

LEMMA EnsureGrows ==
  ASSUME NEW d, Lawful(d), NEW n \in Nat, NEW x \in EffectType,
         IF x.status \in RECOVERABLE /\ ~x.exhausted
         THEN HasRoom(d.works, n + 1) ELSE HasRoom(d.works, (n + 1) + 1)
  PROVE  LET e == ensure_recovery_work(d, x) IN Grows(d, e) /\ HasRoom(e.works, n)
  <1> DEFINE ws == create_work(d.case, d.works, "recheck", <<"effect", 0>>, FALSE)
             w == CHOOSE v \in Recheck(ws) : TRUE
             m == Db(d.case, ws)
  <1>0. n + 1 \in Nat /\ "recheck" \in WorkType /\ <<"effect", 0>> \in Sources
    BY SourcesAre DEF WorkType
  <1>1. HasRoom(d.works, n + 1) /\ HasRoom(d.works, n) /\ HasRoom(d.works, 1)
    BY <1>0, FreeFinite DEF HasRoom
  <1>2. Grows(d, m)
    BY <1>0, <1>1, CreateGrows
  <1>3. IF x.status \in RECOVERABLE /\ ~x.exhausted
        THEN HasRoom(m.works, n) ELSE HasRoom(m.works, n + 1)
    BY <1>0, <1>1, CreateGrows
  <1>4. w \in Slots /\ ws[w].status # "ABSENT"
    <2>1. PICK kind \in WorkType, source \in Sources, due \in BOOLEAN :
            kind = "recheck" /\ source = <<"effect", 0>> /\ due = FALSE
      BY <1>0
    <2>2. ws = create_work(d.case, d.works, kind, source, due)
      BY <2>1
    <2> HIDE DEF ws
    <2>3. \E v \in Slots : ws[v].status # "ABSENT" /\ ws[v].kind = kind
      BY <1>1, <2>2, CreateHas
    <2>4. QED
      BY <2>1, <2>3 DEF Recheck
  <1>5. m.case = d.case /\ m.works = ws
    BY DbParts
  <1>6. ensure_recovery_work(d, x) \in {d, check_recovery_work(m, w, x)}
    BY DEF ensure_recovery_work
  <1> HIDE DEF w, ws, m
  <1>7. LET e == check_recovery_work(m, w, x) IN Grows(m, e) /\ HasRoom(e.works, n)
    BY <1>2, <1>3, <1>4, <1>5, CheckGrows, GrowsLawful
  <1>8. LET e == check_recovery_work(m, w, x) IN Grows(d, e) /\ HasRoom(e.works, n)
    BY <1>2, <1>7, GrowsTransitive
  <1>9. QED
    BY <1>1, <1>6, <1>8, GrowsItself

LEMMA HandoffGrows ==
  ASSUME NEW d, Lawful(d), NEW n \in Nat, NEW x \in EffectType,
         IF x.status = "DISPATCHED" THEN HasRoom(d.works, (n + 1) + 1)
         ELSE HasRoom(d.works, n + 1)
  PROVE  LET e == effect_handoff(d, x) IN Grows(d, e) /\ HasRoom(e.works, n)
  <1>1. CASE x.status = "DISPATCHED"
    <2>1. HasRoom(d.works, (n + 1) + 1) /\ HasRoom(d.works, n + 1)
      BY <1>1, FreeFinite DEF HasRoom
    <2>2. QED
      BY <1>1, <2>1, EnsureGrows DEF effect_handoff
  <1>2. CASE x.status # "DISPATCHED"
    BY <1>2, SettledGrows DEF effect_handoff
  <1>3. QED
    BY <1>1, <1>2

LEMMA BlockGrows ==
  ASSUME Lawful(Db(case, works)), NEW w \in Slots, works[w].status # "ABSENT", Room(1)
  PROVE  Grows(Db(case, works), BlockAndEscalate(w))
  <1> DEFINE now == Db(case, works)
             d == Db(case, Ends(works, w, "BLOCKED"))
  <1>1. now.case = case /\ now.works = works
    BY DbParts
  <1>2. HasRoom(works, 0 + 1)
    BY DEF Room, HasRoom
  <1>3. Grows(now, d) /\ HasRoom(d.works, 0 + 1)
    BY <1>1, <1>2, EndsGrows, SameRoom DEF Final
  <1>4. <<"work", w>> \in Sources
    BY SourcesAre
  <1> HIDE DEF d
  <1>5. Grows(d, escalate_in(d, <<"work", w>>))
    BY <1>3, <1>4, EscalateGrows, GrowsLawful
  <1>6. QED
    BY <1>3, <1>5, GrowsTransitive DEF BlockAndEscalate, d

(* The routes of a report: one free slot for each and one for the effect.  *)
Asked(routes, route) == IF route \in routes THEN 1 ELSE 0

LEMMA RouteOneGrows ==
  ASSUME NEW d, Lawful(d), NEW routes, NEW route, NEW n \in Nat,
         HasRoom(d.works, n + Asked(routes, route)),
         NEW kind \in WorkType, kind # "resume", NEW w \in Slots
  PROVE  LET e == RouteOne(d, routes, route, kind, w) IN Grows(d, e) /\ HasRoom(e.works, n)
  <1>1. CASE route \notin routes
    BY <1>1, GrowsItself DEF RouteOne, Asked
  <1>2. CASE route \in routes
    <2>1. PICK due \in BOOLEAN : due = (kind = "followup")
      OBVIOUS
    <2>2. RouteOne(d, routes, route, kind, w) =
            Db(d.case, create_work(d.case, d.works, kind, <<"report", w>>, due))
      BY <1>2, <2>1 DEF RouteOne
    <2>3. <<"report", w>> \in Sources /\ HasRoom(d.works, n + 1)
      BY <1>2, SourcesAre DEF Asked
    <2>4. QED
      BY <2>2, <2>3, CreateGrows
  <1>3. QED
    BY <1>1, <1>2

LEMMA RouteEffectGrows ==
  ASSUME NEW d, Lawful(d), NEW n \in Nat, effect \in EffectType,
         HasRoom(d.works, n + (IF effect.status \in RECOVERABLE THEN 1 ELSE 0))
  PROVE  LET e == RouteEffect(d) IN Grows(d, e) /\ HasRoom(e.works, n)
  <1> DEFINE rows == Recheck(d.works)
             source == IF rows = {} THEN <<"effect", 1>> ELSE <<"work", CHOOSE w \in rows : TRUE>>
  <1>1. CASE effect.status \notin RECOVERABLE
    BY <1>1, GrowsItself DEF RouteEffect
  <1>2. CASE effect.status \in RECOVERABLE
    <2>1. HasRoom(d.works, n + 1)
      BY <1>2
    <2>2. source \in Sources /\ "followup" \in WorkType
      <3>1. rows # {} => (CHOOSE w \in rows : TRUE) \in Slots
        BY DEF Recheck
      <3>2. QED
        BY <3>1, SourcesAre DEF WorkType
    <2>3. RouteEffect(d) = IF ~effect.exhausted THEN ensure_recovery_work(d, effect)
                           ELSE IF d.case.status # "ESCALATED" THEN escalate_in(d, source)
                           ELSE Db(d.case, create_work(d.case, d.works, "followup", source, TRUE))
      BY <1>2 DEF RouteEffect
    <2> HIDE DEF source
    <2>4. ~effect.exhausted =>
            LET e == ensure_recovery_work(d, effect) IN Grows(d, e) /\ HasRoom(e.works, n)
      BY <1>2, <2>1, EnsureGrows
    <2>5. LET e == escalate_in(d, source) IN Grows(d, e) /\ HasRoom(e.works, n)
      BY <2>1, <2>2, EscalateGrows
    <2>6. LET e == Db(d.case, create_work(d.case, d.works, "followup", source, TRUE)) IN
          Grows(d, e) /\ HasRoom(e.works, n)
      BY <2>1, <2>2, CreateGrows
    <2>7. QED
      BY <2>3, <2>4, <2>5, <2>6
  <1>3. QED
    BY <1>1, <1>2

LEMMA RoutesCounted ==
  ASSUME NEW routes \in SUBSET Routes
  PROVE  Cardinality(routes) =
           Asked(routes, "early") + Asked(routes, "followup") + Asked(routes, "verify")
  <1> DEFINE e == routes \cap {"early"}
             f == routes \cap {"early", "followup"}
  <1>1. IsFiniteSet({}) /\ Cardinality({}) = 0
    BY FS_EmptySet
  <1>2. IsFiniteSet(e) /\ Cardinality(e) = Asked(routes, "early")
    <2>1. CASE "early" \in routes
      <3>1. e = {} \cup {"early"}
        BY <2>1
      <3>2. QED
        BY <1>1, <2>1, <3>1, FS_AddElement DEF Asked
    <2>2. CASE "early" \notin routes
      <3>1. e = {}
        BY <2>2
      <3>2. QED
        BY <1>1, <2>2, <3>1 DEF Asked
    <2>3. QED
      BY <2>1, <2>2
  <1>3. IsFiniteSet(f) /\ Cardinality(f) = Asked(routes, "early") + Asked(routes, "followup")
    <2>1. CASE "followup" \in routes
      <3>1. f = e \cup {"followup"} /\ "followup" \notin e
        BY <2>1
      <3>2. QED
        BY <1>2, <2>1, <3>1, FS_AddElement DEF Asked
    <2>2. CASE "followup" \notin routes
      <3>1. f = e
        BY <2>2
      <3>2. QED
        BY <1>2, <2>2, <3>1 DEF Asked
    <2>3. QED
      BY <2>1, <2>2
  <1>4. CASE "verify" \in routes
    <2>1. routes = f \cup {"verify"} /\ "verify" \notin f
      BY <1>4 DEF Routes
    <2> HIDE DEF f
    <2>2. Cardinality(routes) = Cardinality(f) + 1
      BY <1>3, <2>1, FS_AddElement
    <2>3. QED
      BY <1>3, <1>4, <2>2 DEF Asked
  <1>5. CASE "verify" \notin routes
    <2>1. routes = f
      BY <1>5 DEF Routes
    <2>2. QED
      BY <1>3, <1>5, <2>1 DEF Asked
  <1>6. QED
    BY <1>4, <1>5

LEMMA RouteAllGrows ==
  ASSUME Lawful(Db(case, works)), effect \in EffectType,
         NEW w \in Slots, NEW routes \in SUBSET Routes,
         Room(Cardinality(routes) + (IF effect.status \in RECOVERABLE THEN 1 ELSE 0))
  PROVE  Grows(Db(case, works), RouteAll(w, routes))
  <1> DEFINE d == Db(case, works)
             early == RouteOne(d, routes, "early", "followup", w)
             effects == RouteEffect(early)
             late == RouteOne(effects, routes, "followup", "followup", w)
             last == RouteOne(late, routes, "verify", "verify", w)
             a == Asked(routes, "early")
             x == IF effect.status \in RECOVERABLE THEN 1 ELSE 0
             f == Asked(routes, "followup")
             v == Asked(routes, "verify")
  <1>1. a \in Nat /\ x \in Nat /\ f \in Nat /\ v \in Nat
    BY DEF Asked
  <1>2. d.works = works
    BY DbParts
  <1>3. HasRoom(d.works, ((v + f) + x) + a)
    <2>1. HasRoom(works, (a + f + v) + x)
      BY RoutesCounted DEF Room, HasRoom
    <2>2. (a + f + v) + x = ((v + f) + x) + a
      BY <1>1
    <2>3. QED
      BY <1>2, <2>1, <2>2
  <1>4. "followup" \in WorkType /\ "verify" \in WorkType
    BY DEF WorkType
  <1>5. RouteAll(w, routes) = last
    BY DEF RouteAll
  <1> HIDE DEF d, x
  <1>6. Grows(d, early) /\ HasRoom(early.works, (v + f) + x)
    <2>1. (v + f) + x \in Nat
      BY <1>1
    <2>2. Lawful(d)
      BY DEF d
    <2>3. QED
      BY <1>3, <1>4, <2>1, <2>2, RouteOneGrows
  <1> HIDE DEF a, early
  <1>7. Grows(early, effects) /\ HasRoom(effects.works, v + f)
    <2>1. v + f \in Nat
      BY <1>1
    <2>2. QED
      BY <1>6, <2>1, RouteEffectGrows, GrowsLawful DEF x
  <1> HIDE DEF effects
  <1>8. Grows(effects, late) /\ HasRoom(late.works, v)
    BY <1>1, <1>4, <1>7, RouteOneGrows, GrowsLawful
  <1> HIDE DEF late, f
  <1>9. Grows(late, last)
    <2>1. HasRoom(late.works, 0 + v)
      BY <1>1, <1>8
    <2>2. QED
      BY <1>4, <1>8, <2>1, RouteOneGrows, GrowsLawful
  <1> HIDE DEF last, v
  <1>10. Grows(d, last)
    BY <1>6, <1>7, <1>8, <1>9, GrowsTransitive, GrowsLawful DEF d
  <1>11. QED
    BY <1>5, <1>10 DEF d

-----------------------------------------------------------------------------
(* Threads                                                                 *)

(* A work item keeps its identity, and its claims and resumption advance.  *)
Moves(r, s) ==
  r.status # "ABSENT" =>
    /\ s.kind = r.kind /\ r.token <= s.token /\ r.recTok <= s.recTok
    /\ r.resTok # 0 => s.resTok # 0

MovesAll(ws) == \A w \in Slots : Moves(works[w], ws[w])

ReportsStay(rs) == \A w \in Slots : reports[w].state # "ABSENT" => rs[w].state # "ABSENT"

LEMMA TypedNow ==
  ASSUME LifeInv
  PROVE  /\ case \in CaseType /\ case.rev \in Nat /\ works \in [Slots -> WorkRows]
         /\ \A w \in Slots : works[w] \in WorkRows /\ RowOK(works[w], case.rev)
         /\ job \in [Threads -> JobRows]
         /\ \A t \in Threads : job[t] \in JobRows /\ ThreadOK(job[t], works, reports)
         /\ Lawful(Db(case, works)) /\ Db(case, works).case = case /\ Db(case, works).works = works
  BY DbParts DEF LifeInv, Lawful, JobsOK, CaseType

LEMMA GrowsMoves ==
  ASSUME LifeInv, NEW d, Grows(Db(case, works), d)
  PROVE  MovesAll(d.works)
  <1>1. \A w \in Slots : SameRow(works[w], d.works[w]) /\ d.works[w] \in WorkRows
    BY DbParts DEF Grows, Lawful
  <1>2. \A w \in Slots : works[w] \in WorkRows
    BY TypedNow
  <1>3. QED
    BY <1>1, <1>2 DEF MovesAll, Moves, SameRow, WorkRows

LEMMA MovesItself ==
  ASSUME LifeInv
  PROVE  MovesAll(works) /\ ReportsStay(reports)
  BY TypedNow DEF MovesAll, Moves, ReportsStay, WorkRows

(* What a thread relies on stays so whatever the other threads do.         *)
LEMMA ThreadStays ==
  ASSUME LifeInv, NEW t \in Threads, NEW ws \in [Slots -> WorkRows], MovesAll(ws),
         NEW rs, ReportsStay(rs)
  PROVE  ThreadOK(job[t], ws, rs)
  <1> DEFINE j == job[t]
  <1>1. /\ j.tok \in Nat /\ j.w \in Slots \cup {0} /\ j.pc \in Pcs
        /\ ThreadOK(j, works, reports)
    BY TypedNow DEF JobRows
  <1> HIDE DEF j
  <1>2. CASE j.tok # 0
    <2>1. j.w \in Slots /\ j.tok <= works[j.w].token
      BY <1>1, <1>2 DEF ThreadOK
    <2>2. PICK w \in Slots : w = j.w
      BY <2>1
    <2>3. works[w] \in WorkRows /\ RowOK(works[w], case.rev) /\ ws[w] \in WorkRows
      BY TypedNow
    <2>4. works[w].status # "ABSENT"
      BY <1>1, <1>2, <2>1, <2>2, <2>3 DEF RowOK, WorkRows
    <2>5. /\ ws[w].kind = works[w].kind /\ works[w].token <= ws[w].token
          /\ works[w].recTok <= ws[w].recTok
          /\ works[w].resTok # 0 => ws[w].resTok # 0
      BY <2>4 DEF MovesAll, Moves
    <2>6. j.tok <= ws[w].token
      BY <1>1, <2>1, <2>2, <2>3, <2>5 DEF WorkRows
    <2>7. j.tok <= works[w].recTok => j.tok <= ws[w].recTok
      BY <1>1, <2>3, <2>5 DEF WorkRows
    <2>8. reports[w].state # "ABSENT" => rs[w].state # "ABSENT"
      BY DEF ReportsStay
    <2>9. PcOK(j.pc, w, j.tok, works, reports) => PcOK(j.pc, w, j.tok, ws, rs)
      BY <1>2, <2>5, <2>7, <2>8 DEF PcOK
    <2>10. QED
      BY <1>1, <1>2, <2>2, <2>6, <2>9 DEF ThreadOK, j
  <1>3. CASE j.tok = 0
    BY <1>1, <1>3 DEF ThreadOK, PcOK, ReportsStay, j
  <1>4. QED
    BY <1>2, <1>3

LEMMA SameJobs ==
  ASSUME LifeInv, NEW ws \in [Slots -> WorkRows], MovesAll(ws), NEW rs, ReportsStay(rs)
  PROVE  JobsOK(job, ws, rs)
  BY TypedNow, ThreadStays DEF JobsOK

(* One thread gets another record.                                         *)
LEMMA PutJob ==
  ASSUME LifeInv, NEW ws \in [Slots -> WorkRows], MovesAll(ws), NEW rs, ReportsStay(rs),
         NEW t \in Threads, NEW j \in JobRows, ThreadOK(j, ws, rs)
  PROVE  JobsOK([job EXCEPT ![t] = j], ws, rs)
  <1> DEFINE js == [job EXCEPT ![t] = j]
  <1>1. js \in [Threads -> JobRows] /\ \A u \in Threads : js[u] = IF u = t THEN j ELSE job[u]
    BY TypedNow
  <1> HIDE DEF js
  <1>2. QED
    BY <1>1, ThreadStays DEF JobsOK, js

LEMMA IdleOK == Idle \in JobRows /\ Idle.pc = "idle" /\ Idle.w = 0 /\ Idle.tok = 0
  <1>1. [status |-> "NEW", rev |-> 0, used |-> 0] \in CaseType
    BY BudgetAssumption DEF CaseType, CaseStatus
  <1>2. QED
    BY <1>1 DEF Idle, JobRows, Pcs

LEMMA LeaveJobs ==
  ASSUME LifeInv, NEW ws \in [Slots -> WorkRows], MovesAll(ws), NEW rs, ReportsStay(rs),
         NEW t \in Threads
  PROVE  JobsOK([job EXCEPT ![t] = Idle], ws, rs)
  <1>1. ThreadOK(Idle, ws, rs)
    BY IdleOK DEF ThreadOK, PcOK
  <1>2. QED
    BY <1>1, IdleOK, PutJob

(* A thread goes on with its claim.                                        *)
LEMMA GoesOn ==
  ASSUME LifeInv, NEW ws \in [Slots -> WorkRows], MovesAll(ws), NEW rs, ReportsStay(rs),
         NEW t \in Threads, NEW j \in JobRows, j.w = job[t].w, j.tok = job[t].tok,
         PcOK(j.pc, j.w, j.tok, ws, rs)
  PROVE  JobsOK([job EXCEPT ![t] = j], ws, rs)
  <1>1. ThreadOK(job[t], ws, rs)
    BY ThreadStays
  <1>2. ThreadOK(j, ws, rs)
    BY <1>1 DEF ThreadOK
  <1>3. QED
    BY <1>2, PutJob

LEMMA GotoJobs ==
  ASSUME LifeInv, NEW ws \in [Slots -> WorkRows], MovesAll(ws), NEW rs, ReportsStay(rs),
         NEW t \in Threads, NEW pc \in Pcs, PcOK(pc, job[t].w, job[t].tok, ws, rs)
  PROVE  JobsOK([job EXCEPT ![t].pc = pc], ws, rs)
  <1> DEFINE j == [job[t] EXCEPT !.pc = pc]
  <1>1. job[t] \in JobRows /\ job \in [Threads -> JobRows]
    BY TypedNow
  <1>2. j \in JobRows /\ j.pc = pc /\ j.w = job[t].w /\ j.tok = job[t].tok
    BY <1>1 DEF JobRows
  <1>3. [job EXCEPT ![t].pc = pc] = [job EXCEPT ![t] = j]
    BY <1>1
  <1> HIDE DEF j
  <1>4. QED
    BY <1>2, <1>3, GoesOn

-----------------------------------------------------------------------------
(* Steps that leave the Case row, the work table and the quota alone       *)

LEMMA QuietKeeps ==
  ASSUME LifeInv, UNCHANGED <<case, works, quota>>, effect' \in EffectType,
         calls' \in [CallIds -> CallRows], reports' \in [Slots -> ReportRows],
         JobsOK(job', works, reports')
  PROVE  LifeInv'
  BY DEF LifeInv

LEMMA NowTyped ==
  ASSUME LifeInv
  PROVE  /\ works \in [Slots -> WorkRows] /\ MovesAll(works) /\ ReportsStay(reports)
         /\ calls \in [CallIds -> CallRows] /\ reports \in [Slots -> ReportRows]
         /\ quota \in QuotaType /\ effect \in EffectType
  BY TypedNow, MovesItself DEF LifeInv

(* The run of a thread ends: under a claim it was resumed.                 *)
LEMMA AfterRunJobs ==
  ASSUME LifeInv, NEW t \in Threads, job[t].pc \in {"turn", "act", "call"}, AfterRun(t),
         NEW ws \in [Slots -> WorkRows], MovesAll(ws)
  PROVE  JobsOK(job', ws, reports)
  <1>0. ReportsStay(reports)
    BY NowTyped
  <1>1. CASE ~(Leased(t) /\ Current(t))
    BY <1>0, <1>1, LeaveJobs DEF AfterRun, Leave
  <1>2. CASE Leased(t) /\ Current(t)
    <2> DEFINE j == [Idle EXCEPT !.pc = "report", !.w = job[t].w, !.tok = job[t].tok]
    <2>1. ThreadOK(job[t], ws, reports) /\ job[t] \in JobRows
      BY <1>0, ThreadStays, TypedNow
    <2>2. PcOK("report", job[t].w, job[t].tok, ws, reports)
      BY <1>2, <2>1 DEF Leased, ThreadOK, PcOK
    <2>3. j \in JobRows /\ j.pc = "report" /\ j.w = job[t].w /\ j.tok = job[t].tok
      BY <2>1, IdleOK DEF JobRows, Pcs
    <2>4. job' = [job EXCEPT ![t] = j]
      BY <1>2 DEF AfterRun
    <2> HIDE DEF j
    <2>5. QED
      BY <1>0, <2>2, <2>3, <2>4, GoesOn
  <1>3. QED
    BY <1>1, <1>2

LeaveStep(t) ==
  GivesUp(t) \/ LeaseLost(t) \/ OutOfRoom(t) \/ HandoffRaises(t) \/ ack(t) \/ Crash(t)

LEMMA LeaveStepKeeps ==
  ASSUME LifeInv, NEW t \in Threads, LeaveStep(t)
  PROVE  LifeInv'
  <1>1. /\ UNCHANGED <<case, works, quota, effect, calls>> /\ job' = [job EXCEPT ![t] = Idle]
        /\ \/ reports' = reports
           \/ \E s \in {"CANCELED", "COMPLETED"} : reports' = [reports EXCEPT ![job[t].w].state = s]
    BY DEF LeaveStep, GivesUp, LeaseLost, OutOfRoom, HandoffRaises, ack, Crash, Leave
  <1>2. reports' \in [Slots -> ReportRows] /\ ReportsStay(reports')
    <2>1. CASE reports' = reports
      BY <2>1, NowTyped
    <2>2. ASSUME NEW s \in {"CANCELED", "COMPLETED"},
                 reports' = [reports EXCEPT ![job[t].w].state = s]
          PROVE  reports' \in [Slots -> ReportRows] /\ ReportsStay(reports')
      <3>1. \A r \in ReportRows : /\ [r EXCEPT !.state = s] \in ReportRows
                                  /\ [r EXCEPT !.state = s].state = s
        BY DEF ReportRows, ReportState
      <3>2. \A w \in Slots :
              reports'[w] = IF w = job[t].w THEN [reports[w] EXCEPT !.state = s] ELSE reports[w]
        BY <2>2, NowTyped
      <3>3. QED
        BY <2>2, <3>1, <3>2, NowTyped DEF ReportsStay
    <2>3. QED
      BY <1>1, <2>1, <2>2
  <1>3. JobsOK(job', works, reports')
    BY <1>1, <1>2, NowTyped, LeaveJobs
  <1>4. QED
    BY <1>1, <1>2, <1>3, NowTyped, QuietKeeps

RunningStep(t) == Inspect(t) \/ Turn(t) \/ RunStops(t) \/ ReserveRaises(t)

LEMMA RunningStepKeeps ==
  ASSUME LifeInv, NEW t \in Threads, RunningStep(t)
  PROVE  LifeInv'
  <1>1. UNCHANGED <<case, works, quota, effect, calls, reports>>
    BY DEF RunningStep, Inspect, Turn, RunStops, ReserveRaises
  <1>2. job[t] \in JobRows /\ ThreadOK(job[t], works, reports) /\ job \in [Threads -> JobRows]
    BY TypedNow
  <1>3. CASE Inspect(t)
    <2>1. PICK b \in BOOLEAN : job' = [job EXCEPT ![t].pc = "resume", ![t].blocked = b]
      BY <1>3 DEF Inspect
    <2> DEFINE j == [job[t] EXCEPT !.pc = "resume", !.blocked = b]
    <2>2. job' = [job EXCEPT ![t] = j]
      BY <1>2, <2>1
    <2>3. j \in JobRows /\ j.pc = "resume" /\ j.w = job[t].w /\ j.tok = job[t].tok
      BY <1>2 DEF JobRows, Pcs
    <2> HIDE DEF j
    <2>4. PcOK("resume", job[t].w, job[t].tok, works, reports)
      BY <1>2, <1>3 DEF Inspect, ThreadOK, PcOK
    <2>5. JobsOK(job', works, reports)
      BY <2>2, <2>3, <2>4, NowTyped, GoesOn
    <2>6. QED
      BY <1>1, <2>5, NowTyped, QuietKeeps
  <1>4. CASE Turn(t)
    <2> DEFINE j == [job[t] EXCEPT !.pc = "act", !.snap = case]
    <2>1. job' = [job EXCEPT ![t] = j]
      BY <1>2, <1>4 DEF Turn
    <2>2. j \in JobRows /\ j.pc = "act" /\ j.w = job[t].w /\ j.tok = job[t].tok
      BY <1>2, TypedNow DEF JobRows, Pcs
    <2> HIDE DEF j
    <2>3. PcOK("act", job[t].w, job[t].tok, works, reports)
      BY <1>2, <1>4 DEF Turn, ThreadOK, PcOK
    <2>4. JobsOK(job', works, reports)
      BY <2>1, <2>2, <2>3, NowTyped, GoesOn
    <2>5. QED
      BY <1>1, <2>4, NowTyped, QuietKeeps
  <1>5. CASE RunStops(t) \/ ReserveRaises(t)
    <2>1. Leave(t) \/ (AfterRun(t) /\ job[t].pc \in {"turn", "act", "call"})
      BY <1>5 DEF RunStops, ReserveRaises
    <2>2. JobsOK(job', works, reports)
      BY <2>1, NowTyped, AfterRunJobs, LeaveJobs DEF Leave
    <2>3. QED
      BY <1>1, <2>2, NowTyped, QuietKeeps
  <1>6. QED
    BY <1>3, <1>4, <1>5 DEF RunningStep

PickUpStep(t) ==
  \/ DirectRun(t)
  \/ \E u \in Workers : Redeliver(t, u)
  \/ \E w \in Slots : poll_unhanded_reports(t, w)

LEMMA PickUpKeeps ==
  ASSUME LifeInv, NEW t \in Threads, PickUpStep(t)
  PROVE  LifeInv'
  <1>1. UNCHANGED <<case, works, quota, effect, calls, reports>>
    BY DEF PickUpStep, DirectRun, Redeliver, poll_unhanded_reports
  <1>2. SUFFICES JobsOK(job', works, reports)
    BY <1>1, NowTyped, QuietKeeps
  <1>3. CASE DirectRun(t)
    <2> DEFINE j == [Idle EXCEPT !.pc = "before", !.reads = pending_calls]
    <2>1. j \in JobRows /\ j.pc = "before" /\ j.w = 0 /\ j.tok = 0
      BY IdleOK DEF JobRows, Pcs, pending_calls
    <2>2. job' = [job EXCEPT ![t] = j]
      BY <1>3 DEF DirectRun
    <2> HIDE DEF j
    <2>3. ThreadOK(j, works, reports)
      BY <2>1 DEF ThreadOK, PcOK
    <2>4. QED
      BY <2>1, <2>2, <2>3, NowTyped, PutJob
  <1>4. ASSUME NEW u \in Workers, Redeliver(t, u)
        PROVE  JobsOK(job', works, reports)
    <2>1. job[u] \in JobRows /\ ThreadOK(job[u], works, reports)
      BY TypedNow DEF Threads
    <2> DEFINE j == [Idle EXCEPT !.pc = "begin", !.w = job[u].w, !.tok = job[u].tok]
    <2>2. j \in JobRows /\ j.pc = "begin" /\ j.w = job[u].w /\ j.tok = job[u].tok
      BY <2>1, IdleOK DEF JobRows, Pcs
    <2>3. job' = [job EXCEPT ![t] = j] /\ job[u].tok # 0
      BY <1>4 DEF Redeliver
    <2> HIDE DEF j
    <2>4. ThreadOK(j, works, reports)
      BY <2>1, <2>2, <2>3 DEF ThreadOK, PcOK
    <2>5. QED
      BY <2>2, <2>3, <2>4, NowTyped, PutJob
  <1>5. ASSUME NEW w \in Slots, poll_unhanded_reports(t, w)
        PROVE  JobsOK(job', works, reports)
    <2> DEFINE j == [Idle EXCEPT !.pc = "handoff", !.w = w]
    <2>1. j \in JobRows /\ j.pc = "handoff" /\ j.w = w /\ j.tok = 0
      BY IdleOK DEF JobRows, Pcs
    <2>2. job' = [job EXCEPT ![t] = j] /\ reports[w].state = "PENDING"
      BY <1>5 DEF poll_unhanded_reports
    <2> HIDE DEF j
    <2>3. ThreadOK(j, works, reports)
      BY <2>1, <2>2 DEF ThreadOK, PcOK
    <2>4. QED
      BY <2>1, <2>2, <2>3, NowTyped, PutJob
  <1>6. QED
    BY <1>3, <1>4, <1>5 DEF PickUpStep

LEMMA recordKeeps ==
  ASSUME LifeInv, NEW t \in Threads, NEW verdict \in Verdicts, record(t, verdict)
  PROVE  LifeInv'
  <1> DEFINE w == job[t].w
             r == [rev |-> case.rev, verdict |-> verdict, state |-> "PENDING"]
  <1>1. /\ UNCHANGED <<case, works, quota, effect, calls>> /\ job[t].pc = "report"
        /\ reports' = [reports EXCEPT ![w] = r] /\ job' = [job EXCEPT ![t].pc = "finish"]
    BY DEF record, Goto
  <1>2. ThreadOK(job[t], works, reports) /\ job[t] \in JobRows
    BY TypedNow
  <1>3. job[t].tok # 0 /\ w \in Slots /\ works[w].resTok # 0
    BY <1>1, <1>2 DEF ThreadOK, PcOK
  <1>4. r \in ReportRows /\ r.state = "PENDING"
    BY TypedNow DEF ReportRows, ReportState
  <1> HIDE DEF r, w
  <1>5. /\ reports' \in [Slots -> ReportRows]
        /\ \A v \in Slots : reports'[v] = IF v = w THEN r ELSE reports[v]
    BY <1>1, <1>3, <1>4, NowTyped
  <1>6. ReportsStay(reports')
    BY <1>4, <1>5 DEF ReportsStay
  <1>7. PcOK("finish", job[t].w, job[t].tok, works, reports')
    BY <1>3, <1>4, <1>5 DEF PcOK, w
  <1>8. JobsOK(job', works, reports')
    BY <1>1, <1>6, <1>7, NowTyped, GotoJobs DEF Pcs
  <1>9. QED
    BY <1>1, <1>5, <1>8, NowTyped, QuietKeeps

(* Calls                                                                   *)
LEMMA CallMoves ==
  ASSUME LifeInv, NEW c, NEW s \in CallState, NEW b \in BOOLEAN
  PROVE  /\ [calls EXCEPT ![c].state = s] \in [CallIds -> CallRows]
         /\ [calls EXCEPT ![c].state = s, ![c].late = b] \in [CallIds -> CallRows]
         /\ [calls EXCEPT ![c].observed = b] \in [CallIds -> CallRows]
  <1>1. calls \in [CallIds -> CallRows]
    BY NowTyped
  <1>2. \A r \in CallRows : /\ [r EXCEPT !.state = s] \in CallRows
                            /\ [r EXCEPT !.state = s, !.late = b] \in CallRows
                            /\ [r EXCEPT !.observed = b] \in CallRows
    BY DEF CallRows
  <1>3. CASE c \in CallIds
    BY <1>1, <1>2, <1>3
  <1>4. CASE c \notin CallIds
    BY <1>1, <1>4
  <1>5. QED
    BY <1>3, <1>4

(* Publication outside a claim notes whether the Case was paused.          *)
LEMMA PublishTyped ==
  ASSUME LifeInv, NEW c, Publish(c, Paused) \/ Publish(c, FALSE)
  PROVE  calls' \in [CallIds -> CallRows]
  <1> DEFINE paused == Paused
  <1>1. paused \in BOOLEAN /\ FALSE \in BOOLEAN /\ "OBSERVED" \in CallState
    BY DEF Paused, CallState
  <1>2. \/ calls' = [calls EXCEPT ![c].state = "OBSERVED", ![c].late = paused]
        \/ calls' = [calls EXCEPT ![c].state = "OBSERVED", ![c].late = FALSE]
    BY Zenon DEF Publish
  <1> HIDE DEF paused
  <1>3. \A b \in BOOLEAN :
          [calls EXCEPT ![c].state = "OBSERVED", ![c].late = b] \in [CallIds -> CallRows]
    BY <1>1, CallMoves
  <1>4. QED
    BY <1>1, <1>2, <1>3, Zenon

LEMMA mark_errorKeeps ==
  ASSUME LifeInv, NEW t \in Threads, mark_error(t)
  PROVE  LifeInv'
  <1> DEFINE c == job[t].call
             s == IF calls[c].state = "DISPATCHED" THEN "ERROR" ELSE calls[c].state
  <1>1. UNCHANGED <<case, works, quota, effect, reports>>
    BY DEF mark_error
  <1>2. calls' \in [CallIds -> CallRows]
    <2>1. calls' = [calls EXCEPT ![c].state = s]
      BY DEF mark_error
    <2>2. CASE c \in CallIds
      <3>1. s \in CallState
        BY <2>2, NowTyped DEF CallRows, CallState
      <3> HIDE DEF s
      <3>2. QED
        BY <2>1, <3>1, CallMoves
    <2>3. CASE c \notin CallIds
      BY <2>1, <2>3, NowTyped
    <2>4. QED
      BY <2>2, <2>3
  <1>3. Leave(t) \/ (AfterRun(t) /\ job[t].pc \in {"turn", "act", "call"})
    BY DEF mark_error, OnTheWire
  <1>4. JobsOK(job', works, reports)
    BY <1>3, NowTyped, AfterRunJobs, LeaveJobs DEF Leave
  <1>5. QED
    BY <1>1, <1>2, <1>4, NowTyped, QuietKeeps

LEMMA OutsideKeeps ==
  ASSUME LifeInv, EffectExhausted \/ \E c \in CallIds : ObservationStored(c)
  PROVE  LifeInv'
  <1>1. JobsOK(job, works, reports) /\ calls \in [CallIds -> CallRows]
    BY NowTyped, SameJobs
  <1>2. CASE EffectExhausted
    <2>1. effect' \in EffectType
      BY <1>2, NowTyped DEF EffectExhausted, EffectType
    <2>2. QED
      BY <1>1, <1>2, <2>1, NowTyped, QuietKeeps DEF EffectExhausted
  <1>3. ASSUME NEW c \in CallIds, ObservationStored(c) PROVE LifeInv'
    <2>1. calls' \in [CallIds -> CallRows]
      BY <1>3, CallMoves DEF ObservationStored, CallState
    <2>2. QED
      BY <1>1, <1>3, <2>1, NowTyped, QuietKeeps DEF ObservationStored
  <1>4. QED
    BY <1>2, <1>3

-----------------------------------------------------------------------------
(* Steps that move the Case row and leave the work table alone             *)

LEMMA LaterLawful ==
  ASSUME LifeInv, NEW c \in CaseType, case.rev <= c.rev
  PROVE  Lawful(Db(c, works))
  <1>1. \A w \in Slots : RowOK(works[w], c.rev)
    <2>1. \A w \in Slots : RowOK(works[w], case.rev) /\ works[w].expRev \in Nat
      BY TypedNow DEF WorkRows
    <2>2. case.rev \in Nat /\ c.rev \in Nat
      BY TypedNow DEF CaseType
    <2>3. QED
      BY <2>1, <2>2 DEF RowOK
  <1>2. QED
    BY <1>1, TypedNow, DbParts DEF Lawful

LEMMA CaseKeeps ==
  ASSUME LifeInv, UNCHANGED <<works, quota, reports>>, case' \in CaseType,
         case.rev <= case'.rev, effect' \in EffectType, calls' \in [CallIds -> CallRows],
         JobsOK(job', works, reports)
  PROVE  LifeInv'
  <1>1. Lawful(Db(case', works))
    BY LaterLawful
  <1>2. QED
    BY <1>1 DEF LifeInv

LEMMA NextRevision ==
  ASSUME LifeInv
  PROVE  /\ [case EXCEPT !.rev = @ + 1] \in CaseType
         /\ case.rev <= [case EXCEPT !.rev = @ + 1].rev
         /\ [case EXCEPT !.rev = @ + 1].status = case.status
         /\ [case EXCEPT !.rev = @ + 1].rev = case.rev + 1
         /\ case.rev <= case.rev
  <1>1. "NEW" \in CaseStatus /\ case \in CaseType /\ case.rev \in Nat
    BY TypedNow DEF CaseStatus
  <1> DEFINE c == [case EXCEPT !.rev = @ + 1]
  <1>2. c \in CaseType /\ c.status = case.status /\ c.rev = case.rev + 1
    BY <1>1, CaseSteps
  <1> HIDE DEF c
  <1>3. QED
    BY <1>1, <1>2 DEF c

LEMMA NextStatus ==
  ASSUME LifeInv, NEW s \in CaseStatus
  PROVE  LET c == [case EXCEPT !.status = s, !.rev = @ + 1] IN
         c \in CaseType /\ case.rev <= c.rev /\ c.rev = case.rev + 1 /\ c.status = s
  <1> DEFINE c == [case EXCEPT !.status = s, !.rev = @ + 1]
  <1>1. case \in CaseType /\ case.rev \in Nat
    BY TypedNow
  <1>2. c \in CaseType /\ c.status = s /\ c.rev = case.rev + 1
    BY <1>1, CaseSteps
  <1> HIDE DEF c
  <1>3. QED
    BY <1>1, <1>2 DEF c

LEMMA ReadsJob ==
  ASSUME LifeInv, NEW t \in Threads, NEW c, NEW ws \in [Slots -> WorkRows], MovesAll(ws)
  PROVE  JobsOK([job EXCEPT ![t].reads = @ \ {c}], ws, reports)
  <1> DEFINE j == [job[t] EXCEPT !.reads = @ \ {c}]
  <1>1. job[t] \in JobRows /\ job \in [Threads -> JobRows]
    BY TypedNow
  <1>2. j \in JobRows /\ j.pc = job[t].pc /\ j.w = job[t].w /\ j.tok = job[t].tok
    BY <1>1 DEF JobRows
  <1>3. [job EXCEPT ![t].reads = @ \ {c}] = [job EXCEPT ![t] = j]
    BY <1>1
  <1>4. ThreadOK(job[t], ws, reports)
    BY NowTyped, ThreadStays
  <1> HIDE DEF j
  <1>5. QED
    BY <1>2, <1>3, <1>4, NowTyped, GoesOn DEF ThreadOK

LEMMA before_investigationKeeps ==
  ASSUME LifeInv, NEW t \in Threads, before_investigation(t)
  PROVE  LifeInv'
  <1>1. UNCHANGED <<works, quota, reports, effect>> /\ job[t].pc = "before"
    BY DEF before_investigation
  <1>2. case' \in CaseType /\ case.rev <= case'.rev /\ calls' \in [CallIds -> CallRows]
    <2>1. \/ UNCHANGED <<case, calls>>
          \/ Publish(FirstRead(t), Paused) /\ case' = [case EXCEPT !.rev = @ + 1]
      BY DEF before_investigation
    <2>2. CASE UNCHANGED <<case, calls>>
      BY <2>2, NextRevision, TypedNow, NowTyped
    <2>3. CASE Publish(FirstRead(t), Paused) /\ case' = [case EXCEPT !.rev = @ + 1]
      <3>1. calls' \in [CallIds -> CallRows]
        BY <2>3, PublishTyped, Zenon
      <3>2. QED
        BY <2>3, <3>1, NextRevision
    <2>4. QED
      BY <2>1, <2>2, <2>3
  <1>3. JobsOK(job', works, reports)
    <2>1. \/ job' = [job EXCEPT ![t].pc = "turn"]
          \/ job' = [job EXCEPT ![t] = Idle]
          \/ job' = [job EXCEPT ![t].reads = @ \ {FirstRead(t)}]
      BY DEF before_investigation, Goto, Leave
    <2>2. PcOK("turn", job[t].w, job[t].tok, works, reports) /\ "turn" \in Pcs
      BY <1>1, TypedNow DEF ThreadOK, PcOK, Pcs
    <2>3. JobsOK([job EXCEPT ![t].pc = "turn"], works, reports)
      BY <2>2, NowTyped, GotoJobs
    <2>4. JobsOK([job EXCEPT ![t] = Idle], works, reports)
      BY NowTyped, LeaveJobs
    <2>5. JobsOK([job EXCEPT ![t].reads = @ \ {FirstRead(t)}], works, reports)
      BY NowTyped, ReadsJob
    <2>6. QED
      BY <2>1, <2>3, <2>4, <2>5
  <1>4. QED
    BY <1>1, <1>2, <1>3, NowTyped, CaseKeeps

LEMMA record_callKeeps ==
  ASSUME LifeInv, NEW t \in Threads, record_call(t)
  PROVE  LifeInv'
  <1>1. UNCHANGED <<works, quota, reports, effect>>
    BY DEF record_call
  <1>2. case' \in CaseType /\ case.rev <= case'.rev /\ calls' \in [CallIds -> CallRows]
    <2>1. Publish(job[t].call, Paused) /\ case' = [case EXCEPT !.rev = @ + 1]
      BY DEF record_call
    <2>2. calls' \in [CallIds -> CallRows]
      BY <2>1, PublishTyped, Zenon
    <2>3. QED
      BY <2>1, <2>2, NextRevision
  <1>3. JobsOK(job', works, reports)
    <2>1. \/ job[t].pc = "call" /\ job' = [job EXCEPT ![t].pc = "turn"]
          \/ job' = [job EXCEPT ![t] = Idle]
      BY DEF record_call, Goto, Leave
    <2>2. job[t].pc = "call" => PcOK("turn", job[t].w, job[t].tok, works, reports)
      BY TypedNow DEF ThreadOK, PcOK
    <2>3. job[t].pc = "call" => JobsOK([job EXCEPT ![t].pc = "turn"], works, reports)
      BY <2>2, NowTyped, GotoJobs DEF Pcs
    <2>4. JobsOK([job EXCEPT ![t] = Idle], works, reports)
      BY NowTyped, LeaveJobs
    <2>5. QED
      BY <2>1, <2>3, <2>4
  <1>4. QED
    BY <1>1, <1>2, <1>3, NowTyped, CaseKeeps

LEMMA ReservationTyped ==
  ASSUME LifeInv, CanReserve, Reservation
  PROVE  /\ case' \in CaseType /\ case.rev <= case'.rev /\ calls' \in [CallIds -> CallRows]
         /\ case.used + 1 \in Nat
  <1>1. case.rev \in Nat /\ case.used \in 0..MaxToolCalls
    BY TypedNow DEF CaseType
  <1>2. case.rev + 1 \in Nat /\ case.used + 1 \in 0..MaxToolCalls /\ case.rev <= case.rev + 1
        /\ case.used + 1 \in Nat
    BY <1>1, BudgetAssumption DEF CanReserve
  <1>3. case' \in CaseType /\ case'.rev = case.rev + 1
    BY <1>2 DEF Reservation, CaseType, CaseStatus
  <1>4. calls' \in [CallIds -> CallRows]
    BY CallMoves DEF Reservation, CallState
  <1>5. QED
    BY <1>2, <1>3, <1>4

LEMMA ReserveKeeps ==
  ASSUME LifeInv, NEW t \in Threads, reserve_call(t) \/ execute(t)
  PROVE  LifeInv'
  <1>1. UNCHANGED <<works, quota, reports, effect>> /\ CanReserve /\ Reservation
    BY DEF reserve_call, execute
  <1>2. /\ case' \in CaseType /\ case.rev <= case'.rev /\ calls' \in [CallIds -> CallRows]
        /\ case.used + 1 \in Nat
    BY <1>1, ReservationTyped
  <1>3. PICK n \in Nat : n = case.used + 1
    BY <1>2
  <1>4. CASE reserve_call(t)
    <2> DEFINE j == [job[t] EXCEPT !.pc = "call", !.call = n]
    <2>1. job[t] \in JobRows /\ job \in [Threads -> JobRows]
      BY TypedNow
    <2>2. job' = [job EXCEPT ![t] = j]
      BY <1>3, <1>4, <2>1 DEF reserve_call
    <2>3. j \in JobRows /\ j.pc = "call" /\ j.w = job[t].w /\ j.tok = job[t].tok
      BY <2>1 DEF JobRows, Pcs
    <2> HIDE DEF j
    <2>4. PcOK("call", job[t].w, job[t].tok, works, reports)
      BY <1>4, TypedNow DEF ThreadOK, PcOK, reserve_call
    <2>5. JobsOK(job', works, reports)
      BY <2>2, <2>3, <2>4, NowTyped, GoesOn
    <2>6. QED
      BY <1>1, <1>2, <2>5, NowTyped, CaseKeeps
  <1>5. CASE execute(t)
    <2> DEFINE j == [Idle EXCEPT !.pc = "apicall", !.call = n]
    <2>1. job' = [job EXCEPT ![t] = j]
      BY <1>3, <1>5 DEF execute
    <2>2. j \in JobRows /\ j.pc = "apicall" /\ j.w = 0 /\ j.tok = 0
      BY IdleOK DEF JobRows, Pcs
    <2> HIDE DEF j
    <2>3. ThreadOK(j, works, reports)
      BY <2>2 DEF ThreadOK, PcOK
    <2>4. JobsOK(job', works, reports)
      BY <2>1, <2>2, <2>3, NowTyped, PutJob
    <2>5. QED
      BY <1>1, <1>2, <2>4, NowTyped, CaseKeeps
  <1>6. QED
    BY <1>4, <1>5

LEMMA EffectPreparedKeeps ==
  ASSUME LifeInv, EffectPrepared
  PROVE  LifeInv'
  <1>1. PICK n \in Nat : n = case.rev + 1
    BY TypedNow
  <1>2. /\ UNCHANGED <<works, quota, calls, reports, job>>
        /\ case' = [case EXCEPT !.rev = @ + 1]
        /\ effect' = [effect EXCEPT !.status = "PREPARED", !.rev = n]
    BY <1>1 DEF EffectPrepared
  <1>3. effect' \in EffectType
    BY <1>2, NowTyped DEF EffectType, EffectStatus
  <1>4. JobsOK(job', works, reports)
    BY <1>2, NowTyped, SameJobs
  <1>5. QED
    BY <1>2, <1>3, <1>4, NextRevision, NowTyped, CaseKeeps

-----------------------------------------------------------------------------
(* Steps that write one row of the work table                              *)

LEMMA PutRow ==
  ASSUME LifeInv, NEW c \in CaseType, case.rev <= c.rev, NEW w \in Slots, NEW r \in WorkRows,
         RowOK(r, c.rev), Moves(works[w], r)
  PROVE  LET ws == [works EXCEPT ![w] = r] IN
         /\ Lawful(Db(c, ws)) /\ ws \in [Slots -> WorkRows] /\ MovesAll(ws)
         /\ \A v \in Slots : ws[v] = IF v = w THEN r ELSE works[v]
  <1> DEFINE ws == [works EXCEPT ![w] = r]
  <1>1. ws \in [Slots -> WorkRows] /\ \A v \in Slots : ws[v] = IF v = w THEN r ELSE works[v]
    BY TypedNow
  <1> HIDE DEF ws
  <1>2. MovesAll(ws)
    BY <1>1, MovesItself DEF MovesAll
  <1>3. \A v \in Slots : RowOK(works[v], c.rev)
    BY LaterLawful, DbParts DEF Lawful
  <1>4. \A v \in Slots : RowOK(ws[v], c.rev)
    BY <1>1, <1>3
  <1>5. Db(c, ws).case = c /\ Db(c, ws).works = ws
    BY DbParts
  <1>6. Lawful(Db(c, ws))
    BY <1>1, <1>4, <1>5 DEF Lawful
  <1>7. QED
    BY <1>1, <1>2, <1>6 DEF ws

(* The step claims nothing and resumes nothing.                            *)
LEMMA ClaimStays ==
  ASSUME LifeInv, NEW ws,
         \A v \in Slots : ws[v].status = "CLAIMED" =>
           works[v].status = "CLAIMED" /\ (ws[v].resTok # 0 => works[v].resTok # 0)
  PROVE  ClaimOK(ws, quota.idle)
  BY DEF LifeInv, ClaimOK

LEMMA OwnedIs ==
  ASSUME LifeInv, NEW t \in Threads, Owned(t)
  PROVE  /\ job[t].w \in Slots /\ works[job[t].w].status = "CLAIMED"
         /\ works[job[t].w].token = job[t].tok /\ Mine(t) = works[job[t].w]
         /\ works[job[t].w] \in WorkRows /\ RowOK(works[job[t].w], case.rev)
         /\ job[t].tok \in Nat
  BY TypedNow DEF Owned, Mine, JobRows

LEMMA RowStepKeeps ==
  ASSUME LifeInv, NEW w \in Slots, submit_signal(w) \/ DueArrives(w) \/ LeaseExpires(w)
  PROVE  LifeInv'
  <1> DEFINE row == works[w]
             signalled == [row EXCEPT !.signal = "given"]
             ripe == [row EXCEPT !.due = TRUE]
             expired == [row EXCEPT !.live = FALSE]
  <1>1. UNCHANGED <<case, quota, calls, effect, reports, job>>
    BY DEF submit_signal, DueArrives, LeaseExpires
  <1>2. PICK r \in {signalled, ripe, expired} : works' = [works EXCEPT ![w] = r]
    BY TypedNow DEF submit_signal, DueArrives, LeaseExpires
  <1>3. row \in WorkRows /\ RowOK(row, case.rev)
    BY TypedNow
  <1> HIDE DEF row
  <1>4. /\ r \in WorkRows /\ r.kind = row.kind /\ r.status = row.status /\ r.expRev = row.expRev
        /\ r.live \in {row.live, FALSE}
        /\ r.token = row.token /\ r.recTok = row.recTok /\ r.resTok = row.resTok
        /\ r.started = row.started
    BY <1>2, <1>3 DEF WorkRows
  <1> HIDE DEF signalled, ripe, expired
  <1>5. RowOK(r, case.rev)
    BY <1>3, <1>4 DEF RowOK
  <1>6. Moves(row, r)
    BY <1>3, <1>4 DEF Moves, WorkRows
  <1>7. case \in CaseType /\ case.rev <= case.rev
    BY TypedNow
  <1>8. /\ Lawful(Db(case, works')) /\ works' \in [Slots -> WorkRows] /\ MovesAll(works')
        /\ \A v \in Slots : works'[v] = IF v = w THEN r ELSE works[v]
    BY <1>2, <1>4, <1>5, <1>6, <1>7, PutRow DEF row
  <1>9. ClaimOK(works', quota.idle)
    BY <1>4, <1>8, ClaimStays DEF row
  <1>10. JobsOK(job, works', reports)
    BY <1>8, NowTyped, SameJobs
  <1>11. QED
    BY <1>1, <1>8, <1>9, <1>10 DEF LifeInv

LEMMA claimKeeps ==
  ASSUME LifeInv, NEW t \in Threads, NEW w \in Slots, claim(t, w)
  PROVE  LifeInv'
  <1> DEFINE row == works[w]
  <1>1. row \in WorkRows /\ RowOK(row, case.rev) /\ case \in CaseType /\ case.rev <= case.rev
    BY TypedNow
  <1>2. PICK n \in Nat : n = row.token + 1
    BY <1>1 DEF WorkRows
  <1> DEFINE r == [row EXCEPT !.status = "CLAIMED", !.live = TRUE, !.token = n]
             j == [Idle EXCEPT !.pc = "begin", !.w = w, !.tok = n]
  <1>3. /\ UNCHANGED <<case, quota, calls, effect, reports>>
        /\ works' = [works EXCEPT ![w] = r] /\ job' = [job EXCEPT ![t] = j]
        /\ Claimed \subseteq {w} /\ row.status \in {"PENDING", "CLAIMED"}
    BY <1>2, TypedNow DEF claim, NoOtherClaim, Eligible
  <1> HIDE DEF row
  <1>4. /\ r \in WorkRows /\ r.kind = row.kind /\ r.status = "CLAIMED" /\ r.expRev = row.expRev
        /\ r.token = n /\ r.recTok = row.recTok /\ r.resTok = row.resTok
        /\ r.started = row.started
    BY <1>1 DEF WorkRows, WorkStatus
  <1>5. j \in JobRows /\ j.pc = "begin" /\ j.w = w /\ j.tok = n
    BY IdleOK DEF JobRows, Pcs
  <1> HIDE DEF r, j
  <1>6. RowOK(r, case.rev) /\ Moves(row, r) /\ n # 0
    <2>1. row.token \in Nat /\ row.recTok \in Nat /\ row.resTok \in Nat
      BY <1>1 DEF WorkRows
    <2>2. QED
      BY <1>1, <1>2, <1>4, <2>1 DEF RowOK, Moves
  <1>7. /\ Lawful(Db(case, works')) /\ works' \in [Slots -> WorkRows] /\ MovesAll(works')
        /\ \A v \in Slots : works'[v] = IF v = w THEN r ELSE works[v]
    BY <1>1, <1>3, <1>4, <1>6, PutRow DEF row
  <1>8. ClaimOK(works', quota.idle)
    <2>1. \A v \in Slots : works'[v].status = "CLAIMED" => v = w
      BY <1>3, <1>7 DEF Claimed
    <2>2. row.resTok # 0 => row.status = "CLAIMED"
      BY <1>1, <1>3 DEF RowOK
    <2>3. row.resTok # 0 => quota.idle < MaxNoProgress
      BY <2>2 DEF LifeInv, ClaimOK, row
    <2>4. QED
      BY <1>4, <1>7, <2>1, <2>3 DEF ClaimOK
  <1>9. ThreadOK(j, works', reports)
    BY <1>4, <1>5, <1>6, <1>7 DEF ThreadOK, PcOK
  <1>10. JobsOK(job', works', reports)
    BY <1>3, <1>5, <1>7, <1>9, NowTyped, PutJob
  <1>11. QED
    BY <1>3, <1>7, <1>8, <1>10 DEF LifeInv

(* A claimed row that stays claimed is written by the thread that owns it. *)
LEMMA OwnRowKeeps ==
  ASSUME LifeInv, UNCHANGED <<effect, reports>>, calls' \in [CallIds -> CallRows],
         NEW t \in Threads, Owned(t), NEW r \in WorkRows,
         works' = [works EXCEPT ![job[t].w] = r],
         case' \in CaseType, case.rev <= case'.rev, RowOK(r, case'.rev),
         Moves(works[job[t].w], r), r.status = "CLAIMED",
         r.resTok # 0 => quota'.idle < MaxNoProgress, quota' \in QuotaType,
         JobsOK(job', works', reports)
  PROVE  LifeInv'
  <1> DEFINE w == job[t].w
  <1>1. w \in Slots /\ works[w].status = "CLAIMED"
    BY OwnedIs
  <1> HIDE DEF w
  <1>2. /\ Lawful(Db(case', works'))
        /\ \A v \in Slots : works'[v] = IF v = w THEN r ELSE works[v]
    BY <1>1, PutRow DEF w
  <1>3. \A v \in Slots : works[v].status = "CLAIMED" => v = w
    BY <1>1 DEF LifeInv, ClaimOK
  <1>4. ClaimOK(works', quota'.idle)
    BY <1>2, <1>3 DEF ClaimOK
  <1>5. QED
    BY <1>2, <1>4 DEF LifeInv

LEMMA RecoveryBeginsKeeps ==
  ASSUME LifeInv, NEW t \in Threads, Begin(t) \/ RecheckBegins(t)
  PROVE  LifeInv'
  <1> DEFINE w == job[t].w
             row == works[w]
             r == [row EXCEPT !.recTok = job[t].tok]
  <1>1. /\ UNCHANGED <<case, quota, calls, effect, reports>> /\ Owned(t)
        /\ works' = [works EXCEPT ![w].recTok = job[t].tok] /\ job[t].pc = "begin"
    BY DEF Begin, RecheckBegins, Current
  <1>2. w \in Slots /\ row.status = "CLAIMED" /\ row.token = job[t].tok /\ Mine(t) = row
        /\ row \in WorkRows /\ RowOK(row, case.rev) /\ job[t].tok \in Nat
    BY <1>1, OwnedIs
  <1>3. works' = [works EXCEPT ![w] = r]
    BY <1>1, <1>2, TypedNow
  <1>4. job \in [Threads -> JobRows] /\ job[t] \in JobRows
    BY TypedNow
  <1>5. PICK pc \in {"recover", "recheck"}, reads \in SUBSET CallIds :
          /\ job' = [job EXCEPT ![t] = [job[t] EXCEPT !.pc = pc, !.reads = reads]]
          /\ pc = "recheck" <=> row.kind = "recheck"
    <2>1. CASE Begin(t)
      <3>1. /\ pending_calls \in SUBSET CallIds /\ row.kind # "recheck"
            /\ job' = [job EXCEPT ![t] = [job[t] EXCEPT !.pc = "recover", !.reads = pending_calls]]
        BY <1>2, <1>4, <2>1 DEF Begin, ForRecheck, pending_calls
      <3>2. QED
        BY <3>1
    <2>2. CASE RecheckBegins(t)
      <3>1. job' = [job EXCEPT ![t].pc = "recheck"] /\ row.kind = "recheck"
        BY <1>2, <2>2 DEF RecheckBegins, Goto, ForRecheck
      <3>2. [job[t] EXCEPT !.pc = "recheck"] = [job[t] EXCEPT !.pc = "recheck", !.reads = job[t].reads]
        BY <1>4 DEF JobRows
      <3>3. job' = [job EXCEPT ![t] = [job[t] EXCEPT !.pc = "recheck", !.reads = job[t].reads]]
        BY <1>4, <3>1, <3>2
      <3>4. job[t].reads \in SUBSET CallIds
        BY <1>4 DEF JobRows
      <3>5. QED
        BY <3>1, <3>3, <3>4
    <2>3. QED
      BY <2>1, <2>2
  <1> DEFINE j == [job[t] EXCEPT !.pc = pc, !.reads = reads]
  <1> HIDE DEF row
  <1>6. j \in JobRows /\ j.pc = pc /\ j.w = job[t].w /\ j.tok = job[t].tok
    BY <1>4 DEF JobRows, Pcs
  <1>7. /\ r \in WorkRows /\ r.kind = row.kind /\ r.status = row.status /\ r.expRev = row.expRev
        /\ r.live = row.live /\ r.token = row.token /\ r.recTok = job[t].tok
        /\ r.resTok = row.resTok /\ r.started = row.started
    BY <1>2 DEF WorkRows
  <1> HIDE DEF r, j, w
  <1>8. RowOK(r, case.rev) /\ Moves(row, r)
    <2>1. row.token \in Nat /\ row.recTok \in Nat /\ row.resTok \in Nat
      BY <1>2 DEF WorkRows
    <2>2. QED
      BY <1>2, <1>7, <2>1 DEF RowOK, Moves
  <1>9. case' \in CaseType /\ case.rev <= case'.rev /\ case \in CaseType /\ case.rev <= case.rev
    BY <1>1, TypedNow
  <1>10. works' \in [Slots -> WorkRows] /\ MovesAll(works') /\ works'[w] = r
    BY <1>2, <1>3, <1>7, <1>8, <1>9, PutRow DEF row
  <1>11. PcOK(pc, w, job[t].tok, works', reports)
    <2>1. job[t].tok # 0 /\ job[t].tok <= r.recTok
      BY <1>1, <1>2, <1>7, TypedNow DEF ThreadOK, PcOK
    <2>2. QED
      BY <1>5, <1>7, <1>10, <2>1 DEF PcOK
  <1>12. JobsOK(job', works', reports)
    BY <1>5, <1>6, <1>10, <1>11, NowTyped, GoesOn DEF w, j
  <1>13. r.resTok # 0 => quota'.idle < MaxNoProgress
    BY <1>1, <1>2, <1>7 DEF LifeInv, ClaimOK, row
  <1>14. RowOK(r, case'.rev) /\ quota' \in QuotaType /\ calls' \in [CallIds -> CallRows]
    BY <1>1, <1>8, NowTyped
  <1>15. QED
    BY <1>1, <1>2, <1>3, <1>7, <1>8, <1>9, <1>12, <1>13, <1>14, OwnRowKeeps DEF w, row

LEMMA start_onceKeeps ==
  ASSUME LifeInv, NEW t \in Threads, start_once(t)
  PROVE  LifeInv'
  <1> DEFINE w == job[t].w
             row == works[w]
             r == [row EXCEPT !.started = TRUE]
             pc == IF Verifies(t) THEN "first" ELSE "before"
             reads == IF Verifies(t) THEN {} ELSE pending_calls
             j == [job[t] EXCEPT !.pc = pc, !.reads = reads]
  <1>1. /\ UNCHANGED <<case, quota, calls, effect, reports>> /\ Owned(t)
        /\ works' = [works EXCEPT ![w].started = TRUE] /\ Mine(t).resTok # 0
        /\ job' = [job EXCEPT ![t].pc = pc, ![t].reads = reads] /\ job[t].pc = "start"
    BY DEF start_once, Current
  <1>2. w \in Slots /\ row.status = "CLAIMED" /\ Mine(t) = row
        /\ row \in WorkRows /\ RowOK(row, case.rev) /\ row.resTok # 0
    BY <1>1, OwnedIs
  <1>3. works' = [works EXCEPT ![w] = r]
    BY <1>1, <1>2, TypedNow
  <1>4. pc \in Pcs /\ reads \in SUBSET CallIds /\ pc \in {"first", "before"}
    BY DEF Pcs, pending_calls
  <1> HIDE DEF pc, reads, row
  <1>5. job' = [job EXCEPT ![t] = j]
    BY <1>1, TypedNow
  <1>6. j \in JobRows /\ j.pc = pc /\ j.w = job[t].w /\ j.tok = job[t].tok
    BY <1>4, TypedNow DEF JobRows
  <1>7. /\ r \in WorkRows /\ r.kind = row.kind /\ r.status = row.status /\ r.expRev = row.expRev
        /\ r.live = row.live /\ r.token = row.token /\ r.recTok = row.recTok
        /\ r.resTok = row.resTok /\ r.started = TRUE
    BY <1>2 DEF WorkRows
  <1> HIDE DEF r, j, w
  <1>8. RowOK(r, case.rev) /\ Moves(row, r)
    BY <1>2, <1>7 DEF RowOK, Moves, WorkRows
  <1>0. case' \in CaseType /\ case.rev <= case'.rev /\ case \in CaseType /\ case.rev <= case.rev
    BY <1>1, TypedNow
  <1>9. works' \in [Slots -> WorkRows] /\ MovesAll(works') /\ works'[w] = r
    BY <1>2, <1>3, <1>7, <1>8, <1>0, PutRow DEF row
  <1>10. PcOK(pc, w, job[t].tok, works', reports)
    <2>1. job[t].tok # 0
      BY <1>1, TypedNow DEF ThreadOK, PcOK
    <2>2. QED
      BY <1>2, <1>4, <1>7, <1>9, <2>1 DEF PcOK
  <1>11. JobsOK(job', works', reports)
    BY <1>5, <1>6, <1>9, <1>10, NowTyped, GoesOn DEF w
  <1>12. r.resTok # 0 => quota'.idle < MaxNoProgress
    BY <1>1, <1>2 DEF LifeInv, ClaimOK, row
  <1>13. RowOK(r, case'.rev) /\ quota' \in QuotaType /\ calls' \in [CallIds -> CallRows]
    BY <1>1, <1>8, NowTyped
  <1>14. QED
    BY <1>1, <1>2, <1>3, <1>7, <1>8, <1>0, <1>11, <1>12, <1>13, OwnRowKeeps DEF w, row

LEMMA recover_if_ownedKeeps ==
  ASSUME LifeInv, NEW t \in Threads, recover_if_owned(t)
  PROVE  LifeInv'
  <1> DEFINE c == FirstRead(t)
             w == job[t].w
             row == works[w]
  <1>1. /\ UNCHANGED <<quota, effect, reports>> /\ Owned(t)
        /\ job' = [job EXCEPT ![t].reads = @ \ {c}]
    BY DEF recover_if_owned, Current
  <1>2. CASE UNCHANGED <<case, works, calls>>
    <2>1. JobsOK(job', works, reports)
      BY <1>1, NowTyped, ReadsJob
    <2>2. QED
      BY <1>1, <1>2, <2>1, NowTyped, QuietKeeps
  <1>3. CASE ~UNCHANGED <<case, works, calls>>
    <2>1. /\ Publish(c, FALSE) /\ case' = [case EXCEPT !.rev = @ + 1]
          /\ works' = [works EXCEPT ![w].expRev = case.rev + 1, ![w].rebased = @ + 1]
      BY <1>3 DEF recover_if_owned
    <2>2. w \in Slots /\ row.status = "CLAIMED" /\ row \in WorkRows /\ RowOK(row, case.rev)
      BY <1>1, OwnedIs
    <2>3. PICK n \in Nat, m \in Nat : n = case.rev + 1 /\ m = row.rebased + 1
      BY <2>2, TypedNow DEF WorkRows
    <2>4. case' \in CaseType /\ case.rev <= case'.rev /\ case'.rev = n
      BY <2>1, <2>3, NextRevision
    <2> DEFINE r == [row EXCEPT !.expRev = n, !.rebased = m]
    <2>5. works' = [works EXCEPT ![w] = r]
      BY <2>1, <2>2, <2>3, TypedNow
    <2> HIDE DEF row
    <2>6. /\ r \in WorkRows /\ r.kind = row.kind /\ r.status = row.status /\ r.expRev = n
          /\ r.live = row.live /\ r.token = row.token /\ r.recTok = row.recTok
          /\ r.resTok = row.resTok /\ r.started = row.started
      BY <2>2 DEF WorkRows
    <2> HIDE DEF r, w
    <2>7. RowOK(r, case'.rev) /\ Moves(row, r)
      BY <2>2, <2>4, <2>6 DEF RowOK, Moves, WorkRows
    <2>8. works' \in [Slots -> WorkRows] /\ MovesAll(works')
      BY <2>2, <2>4, <2>5, <2>6, <2>7, PutRow DEF row
    <2>9. JobsOK(job', works', reports)
      BY <1>1, <2>8, ReadsJob
    <2>10. calls' \in [CallIds -> CallRows]
      BY <2>1, PublishTyped, Zenon
    <2>11. r.resTok # 0 => quota'.idle < MaxNoProgress
      BY <1>1, <2>2, <2>6 DEF LifeInv, ClaimOK, row
    <2>12. quota' \in QuotaType
      BY <1>1, NowTyped
    <2>13. QED
      BY <1>1, <2>2, <2>4, <2>5, <2>6, <2>7, <2>9, <2>10, <2>11, <2>12, OwnRowKeeps DEF w, row
  <1>4. QED
    BY <1>2, <1>3

LEMMA ResumeCommitsKeeps ==
  ASSUME LifeInv, NEW t \in Threads, NEW progress \in BOOLEAN, ResumeCommits(t, progress)
  PROVE  LifeInv'
  <1> DEFINE w == job[t].w
             row == works[w]
             tok == job[t].tok
             idle == IdleAfterRecovery(progress)
             verifies == Verifies(t)
  <1>1. /\ UNCHANGED <<calls, effect, reports>> /\ Owned(t) /\ job[t].pc = "resume"
        /\ case' = [case EXCEPT !.status = "INVESTIGATING", !.rev = @ + 1]
        /\ works' = [works EXCEPT ![w].resTok = tok]
        /\ job' = [job EXCEPT ![t].pc = "start"]
    BY DEF ResumeCommits, Current, Goto
  <1>2. /\ w \in Slots /\ row.status = "CLAIMED" /\ row \in WorkRows /\ RowOK(row, case.rev)
        /\ row.token = tok /\ tok \in Nat
    BY <1>1, OwnedIs
  <1>3. tok # 0 /\ tok <= row.recTok /\ row.kind # "recheck"
    BY <1>1, TypedNow DEF ThreadOK, PcOK
  <1>4. case' \in CaseType /\ case.rev <= case'.rev /\ case'.rev \in Nat
    <2>1. "INVESTIGATING" \in CaseStatus
      BY DEF CaseStatus
    <2>2. case' \in CaseType /\ case.rev <= case'.rev
      BY <1>1, <2>1, NextStatus
    <2>3. QED
      BY <2>2 DEF CaseType
  <1>5. quota' \in QuotaType /\ quota'.idle < MaxNoProgress
    <2>1. /\ quota.resumes \in 0..MaxResumes /\ quota.verifications \in 0..MaxVerifications
          /\ quota.idle \in 0..MaxNoProgress
      BY NowTyped DEF QuotaType
    <2>2. quota' = [resumes |-> quota.resumes + (IF verifies THEN 0 ELSE 1),
                    verifications |-> quota.verifications + (IF verifies THEN 1 ELSE 0),
                    idle |-> idle]
      BY DEF ResumeCommits
    <2>3. /\ ~(idle >= MaxNoProgress)
          /\ ~(verifies /\ quota.verifications >= MaxVerifications)
          /\ ~(~verifies /\ quota.resumes >= MaxResumes)
      BY DEF ResumeCommits, LimitReached
    <2>4. idle \in 0..MaxNoProgress
      BY <2>1, BudgetAssumption DEF IdleAfterRecovery
    <2> HIDE DEF idle, verifies
    <2>5. /\ quota.resumes + (IF verifies THEN 0 ELSE 1) \in 0..MaxResumes
          /\ quota.verifications + (IF verifies THEN 1 ELSE 0) \in 0..MaxVerifications
      BY <2>1, <2>3, BudgetAssumption
    <2>6. idle < MaxNoProgress
      BY <2>3, <2>4, BudgetAssumption
    <2>7. QED
      BY <2>2, <2>4, <2>5, <2>6 DEF QuotaType
  <1> DEFINE r == [row EXCEPT !.resTok = tok]
  <1>6. works' = [works EXCEPT ![w] = r]
    BY <1>1, <1>2, TypedNow
  <1> HIDE DEF row
  <1>7. /\ r \in WorkRows /\ r.kind = row.kind /\ r.status = row.status /\ r.expRev = row.expRev
        /\ r.live = row.live /\ r.token = row.token /\ r.recTok = row.recTok
        /\ r.resTok = tok /\ r.started = row.started
    BY <1>2 DEF WorkRows
  <1> HIDE DEF r, w, tok
  <1>8. RowOK(r, case'.rev) /\ Moves(row, r)
    <2>1. row.expRev \in Nat /\ row.token \in Nat /\ row.recTok \in Nat /\ case.rev \in Nat
      BY <1>2, TypedNow DEF WorkRows
    <2>2. QED
      BY <1>2, <1>3, <1>4, <1>7, <2>1 DEF RowOK, Moves
  <1>9. works' \in [Slots -> WorkRows] /\ MovesAll(works') /\ works'[w] = r
    BY <1>2, <1>4, <1>6, <1>7, <1>8, PutRow DEF row
  <1>10. PcOK("start", w, tok, works', reports) /\ "start" \in Pcs
    BY <1>3, <1>7, <1>9 DEF PcOK, Pcs
  <1>11. JobsOK(job', works', reports)
    BY <1>1, <1>9, <1>10, NowTyped, GotoJobs DEF w, tok
  <1>12. calls' \in [CallIds -> CallRows]
    BY <1>1, NowTyped
  <1>13. QED
    BY <1>1, <1>2, <1>4, <1>5, <1>6, <1>7, <1>8, <1>11, <1>12, OwnRowKeeps DEF w, row

-----------------------------------------------------------------------------
(* Transactions that create, end or cancel work                            *)

Follow(d) == Lawful(d) /\ \A w \in Slots : SameRow(works[w], d.works[w])

(* The step is such a transaction.                                         *)
Grown == Grows(Db(case, works), Db(case', works'))

LEMMA CommitGrown ==
  ASSUME NEW d, Grows(Db(case, works), d), Commit(d)
  PROVE  Grown
  <1>1. Db(case', works').case = d.case /\ Db(case', works').works = d.works
    BY DbParts DEF Commit
  <1>2. QED
    BY <1>1 DEF Grown, Grows, Lawful

LEMMA GrowsTable ==
  ASSUME LifeInv, NEW d, Grows(Db(case, works), d)
  PROVE  Follow(d)
  BY TypedNow DEF Grows, Follow

LEMMA TableMoves ==
  ASSUME LifeInv, NEW d, Follow(d)
  PROVE  d.works \in [Slots -> WorkRows] /\ MovesAll(d.works)
  <1>1. d.works \in [Slots -> WorkRows]
    BY DEF Follow, Lawful
  <1>2. \A w \in Slots : works[w] \in WorkRows /\ d.works[w] \in WorkRows
                         /\ SameRow(works[w], d.works[w])
    BY <1>1, TypedNow DEF Follow
  <1>3. QED
    BY <1>1, <1>2 DEF MovesAll, Moves, SameRow, WorkRows

LEMMA TableClaims ==
  ASSUME LifeInv, NEW d, Follow(d), NEW idle \in {quota.idle, 0}
  PROVE  ClaimOK(d.works, idle)
  <1>1. \A w \in Slots : d.works[w].status = "CLAIMED" =>
          works[w].status = "CLAIMED" /\ d.works[w].resTok = works[w].resTok
    BY DEF Follow, SameRow
  <1>2. CASE idle = 0
    BY <1>1, <1>2, BudgetAssumption DEF LifeInv, ClaimOK
  <1>3. CASE idle = quota.idle
    BY <1>1, <1>3 DEF LifeInv, ClaimOK
  <1>4. QED
    BY <1>2, <1>3

LEMMA CommitKeeps ==
  ASSUME LifeInv, NEW d, Follow(d), Commit(d), UNCHANGED <<calls, reports>>,
         effect' \in EffectType, quota' \in QuotaType, ClaimOK(d.works, quota'.idle),
         JobsOK(job', d.works, reports)
  PROVE  LifeInv'
  <1>1. case' = d.case /\ works' = d.works
    BY DEF Commit
  <1>2. Db(d.case, d.works).case = d.case /\ Db(d.case, d.works).works = d.works
    BY DbParts
  <1>3. Lawful(Db(d.case, d.works))
    BY <1>2 DEF Follow, Lawful
  <1>4. QED
    BY <1>1, <1>3 DEF LifeInv

(* A transaction of a thread that then lets go, or of no thread.           *)
LEMMA CommitAndLeave ==
  ASSUME LifeInv, NEW d, Grows(Db(case, works), d), Commit(d), UNCHANGED <<calls, reports>>,
         effect' \in EffectType, quota' \in QuotaType, quota'.idle \in {quota.idle, 0},
         UNCHANGED job \/ \E t \in Threads : Leave(t)
  PROVE  LifeInv' /\ Grown
  <1>1. Follow(d)
    BY GrowsTable
  <1>2. d.works \in [Slots -> WorkRows] /\ MovesAll(d.works)
    BY <1>1, TableMoves
  <1>3. JobsOK(job', d.works, reports)
    BY <1>2, NowTyped, SameJobs, LeaveJobs DEF Leave
  <1>4. QED
    BY <1>1, <1>3, TableClaims, CommitKeeps, CommitGrown

LEMMA RoomNow ==
  ASSUME NEW n \in Nat, Room(n) \/ SpareRoom(n)
  PROVE  HasRoom(works, n) /\ Room(n)
  BY FreeFinite DEF Room, SpareRoom, ClaimRoom, HasRoom

LEMMA QuotaSame ==
  ASSUME LifeInv, NEW idle \in {quota.idle, 0}
  PROVE  LET q == [quota EXCEPT !.idle = idle] IN
         q \in QuotaType /\ q.idle \in {quota.idle, 0}
  <1>1. quota \in QuotaType /\ idle \in 0..MaxNoProgress
    BY NowTyped, BudgetAssumption DEF QuotaType
  <1>2. QED
    BY <1>1 DEF QuotaType

LEMMA poll_due_workKeeps ==
  ASSUME LifeInv, NEW w \in Slots, poll_due_work(w)
  PROVE  LifeInv' /\ Grown
  <1>1. /\ UNCHANGED <<quota, calls, effect, reports, job>> /\ works[w].status # "ABSENT"
    BY DEF poll_due_work, Eligible
  <1>2. quota' \in QuotaType /\ quota'.idle \in {quota.idle, 0} /\ effect' \in EffectType
    BY <1>1, NowTyped
  <1>3. CASE works[w].kind = "recheck"
    <2>1. /\ Commit(check_recovery_work(Db(case, works), w, effect))
          /\ effect.status \notin RECOVERABLE \/ effect.exhausted
          /\ Room(1) \/ SpareRoom(1)
      BY <1>3 DEF poll_due_work
    <2>2. HasRoom(works, 0 + 1)
      BY <2>1, RoomNow
    <2>3. Grows(Db(case, works), check_recovery_work(Db(case, works), w, effect))
      <3> DEFINE d == Db(case, works)
      <3>1. Lawful(d) /\ d.works = works /\ effect \in EffectType
        BY TypedNow, NowTyped
      <3> HIDE DEF d
      <3>2. d.works[w].status # "ABSENT"
        BY <1>1, <3>1
      <3>3. ~(effect.status \in RECOVERABLE /\ ~effect.exhausted) /\ HasRoom(d.works, 0 + 1)
        BY <2>1, <2>2, <3>1
      <3>4. Grows(d, check_recovery_work(d, w, effect))
        BY <3>1, <3>2, <3>3, CheckGrows
      <3>5. QED
        BY <3>4 DEF d
    <2>4. QED
      BY <1>1, <1>2, <2>1, <2>3, CommitAndLeave
  <1>4. CASE works[w].kind # "recheck"
    <2>1. Commit(Db(case, Ends(works, w, "CANCELED")))
      BY <1>4 DEF poll_due_work
    <2>2. Grows(Db(case, works), Db(case, Ends(works, w, "CANCELED")))
      BY <1>1, TypedNow, EndsGrows DEF Final
    <2>3. QED
      BY <1>1, <1>2, <2>1, <2>2, CommitAndLeave
  <1>5. QED
    BY <1>3, <1>4

LEMMA BlockKeeps ==
  ASSUME LifeInv, NEW t \in Threads, NEW progress \in BOOLEAN,
         Interrupt(t) \/ ResumeBlocks(t, progress) \/ VerifyBlocks(t)
  PROVE  LifeInv' /\ Grown
  <1>1. /\ UNCHANGED <<calls, effect, reports>> /\ Owned(t) /\ Room(1) /\ Leave(t)
        /\ Commit(BlockAndEscalate(job[t].w))
    BY DEF Interrupt, ResumeBlocks, VerifyBlocks, Current
  <1>2. quota' \in QuotaType /\ quota'.idle \in {quota.idle, 0}
    <2>1. UNCHANGED quota \/ \E idle \in {quota.idle, 0} : quota' = [quota EXCEPT !.idle = idle]
      BY DEF Interrupt, ResumeBlocks, VerifyBlocks, IdleAfterRecovery
    <2>2. QED
      BY <2>1, NowTyped, QuotaSame
  <1>3. job[t].w \in Slots /\ works[job[t].w].status # "ABSENT"
    BY <1>1, OwnedIs
  <1>4. Grows(Db(case, works), BlockAndEscalate(job[t].w))
    BY <1>1, <1>3, TypedNow, BlockGrows
  <1>5. effect' \in EffectType
    BY <1>1, NowTyped
  <1>6. QED
    BY <1>1, <1>2, <1>4, <1>5, CommitAndLeave

LEMMA GoesStaleKeeps ==
  ASSUME LifeInv, NEW t \in Threads, GoesStale(t)
  PROVE  LifeInv' /\ Grown
  <1> DEFINE d == Db(case, Ends(works, job[t].w, "CANCELED"))
  <1>1. /\ UNCHANGED <<quota, calls, effect, reports>> /\ Owned(t) /\ Leave(t)
        /\ works' = Ends(works, job[t].w, "CANCELED") /\ case' = case
    BY DEF GoesStale, Current
  <1>2. job[t].w \in Slots /\ works[job[t].w].status # "ABSENT"
    BY <1>1, OwnedIs
  <1>3. Grows(Db(case, works), d)
    BY <1>2, TypedNow, EndsGrows DEF Final
  <1>4. Commit(d)
    BY <1>1, DbParts DEF Commit
  <1> HIDE DEF d
  <1>5. QED
    BY <1>1, <1>3, <1>4, NowTyped, CommitAndLeave

(* A recheck that goes back to waiting was never resumed.                  *)
LEMMA WaitsAgainGrows ==
  ASSUME LifeInv, NEW w \in Slots, works[w].kind = "recheck", works[w].status # "ABSENT"
  PROVE  Grows(Db(case, works), Db(case, [Ends(works, w, "PENDING") EXCEPT ![w].due = FALSE]))
  <1> DEFINE row == works[w]
             r == [row EXCEPT !.status = "PENDING", !.live = FALSE, !.due = FALSE]
  <1>1. row \in WorkRows /\ RowOK(row, case.rev) /\ works \in [Slots -> WorkRows]
    BY TypedNow
  <1>2. [Ends(works, w, "PENDING") EXCEPT ![w].due = FALSE] = [works EXCEPT ![w] = r]
    BY <1>1 DEF Ends, WorkRows
  <1>3. row.resTok = 0
    BY <1>1 DEF RowOK
  <1>4. row.kind = "recheck" /\ row.status # "ABSENT"
    OBVIOUS
  <1> HIDE DEF row
  <1>5. /\ r \in WorkRows /\ r.due = FALSE /\ r.signal = row.signal
        /\ r.expStatus = row.expStatus /\ r.kind = row.kind /\ r.status = "PENDING" /\ r.expRev = row.expRev
        /\ r.live = FALSE /\ r.token = row.token /\ r.recTok = row.recTok
        /\ r.resTok = row.resTok /\ r.started = row.started
    BY <1>1 DEF WorkRows, WorkStatus
  <1> HIDE DEF r
  <1>6. RowOK(r, case.rev) /\ SameRow(row, r) /\ SameAge(row, r)
    BY <1>1, <1>3, <1>5, <1>4 DEF RowOK, SameRow, SameAge, Running
  <1> DEFINE d == Db(case, works)
  <1>7. Lawful(d) /\ d.case = case /\ d.works = works
    BY TypedNow
  <1> HIDE DEF d
  <1>8. Grows(d, Db(d.case, [d.works EXCEPT ![w] = r]))
    BY <1>5, <1>6, <1>7, PutGrows DEF row
  <1>9. QED
    BY <1>2, <1>7, <1>8 DEF d

LEMMA RecheckEndsKeeps ==
  ASSUME LifeInv, NEW t \in Threads, NEW progress \in BOOLEAN, NEW limit \in BOOLEAN,
         RecheckEnds(t, progress, limit)
  PROVE  LifeInv' /\ Grown
  <1> DEFINE w == job[t].w
             done == Db(case, Ends(works, w, "COMPLETED"))
             again == Db(case, [Ends(works, w, "PENDING") EXCEPT ![w].due = FALSE])
  <1>1. /\ UNCHANGED <<calls, effect, reports>> /\ Owned(t) /\ Leave(t) /\ Room(1)
        /\ job[t].pc = "recheck"
    BY DEF RecheckEnds, Current
  <1>2. quota' \in QuotaType /\ quota'.idle \in {quota.idle, 0}
    <2>1. \E idle \in {quota.idle, 0} : quota' = [quota EXCEPT !.idle = idle]
      BY DEF RecheckEnds
    <2>2. QED
      BY <2>1, QuotaSame
  <1>3. w \in Slots /\ works[w].status # "ABSENT" /\ works[w].kind = "recheck"
    BY <1>1, OwnedIs, TypedNow DEF ThreadOK, PcOK
  <1>4. \/ effect.status \notin RECOVERABLE /\ Commit(effect_handoff(done, effect))
        \/ Commit(BlockAndEscalate(w))
        \/ Commit(again)
    <2>1. Commit(CASE effect.status \notin RECOVERABLE -> effect_handoff(done, effect)
                   [] effect.status \in RECOVERABLE /\ (effect.exhausted \/ limit) ->
                        BlockAndEscalate(w)
                   [] OTHER -> again)
      BY DEF RecheckEnds
    <2> HIDE DEF done, again, w
    <2>2. QED
      BY <2>1
  <1>5. effect.status \notin RECOVERABLE => Grows(Db(case, works), effect_handoff(done, effect))
    <2>1. HasRoom(works, 0 + 1)
      BY <1>1, RoomNow
    <2>2. Grows(Db(case, works), done) /\ HasRoom(done.works, 0 + 1)
      BY <1>3, <2>1, TypedNow, EndsGrows, SameRoom DEF Final
    <2> HIDE DEF done
    <2>3. effect.status \notin RECOVERABLE => Grows(done, effect_handoff(done, effect))
      BY <2>2, NowTyped, HandoffGrows, GrowsLawful DEF RECOVERABLE
    <2>4. QED
      BY <2>2, <2>3, TypedNow, GrowsTransitive
  <1>6. Grows(Db(case, works), BlockAndEscalate(w))
    BY <1>1, <1>3, TypedNow, BlockGrows
  <1>7. Grows(Db(case, works), again)
    BY <1>3, WaitsAgainGrows
  <1>8. effect' \in EffectType
    BY <1>1, NowTyped
  <1> HIDE DEF done, again, w
  <1>9. PICK d : Grows(Db(case, works), d) /\ Commit(d)
    BY <1>4, <1>5, <1>6, <1>7
  <1>10. QED
    BY <1>1, <1>2, <1>8, <1>9, CommitAndLeave

LEMMA EffectWorkKeeps ==
  ASSUME LifeInv, NEW status \in EffectStatus, EnsureRecheck \/ EffectMoves(status)
  PROVE  LifeInv' /\ Grown
  <1> DEFINE d == Db(case, works)
  <1>1. Lawful(d) /\ d.works = works /\ effect \in EffectType
    BY TypedNow, NowTyped
  <1>2. UNCHANGED <<quota, calls, reports, job>>
    BY DEF EnsureRecheck, EffectMoves
  <1>3. quota' \in QuotaType /\ quota'.idle \in {quota.idle, 0}
    BY <1>2, NowTyped
  <1>4. CASE EnsureRecheck
    <2>1. /\ Commit(ensure_recovery_work(d, effect)) /\ effect' = effect
          /\ effect.status \in RECOVERABLE /\ ~effect.exhausted /\ SpareRoom(1)
      BY <1>4 DEF EnsureRecheck
    <2> HIDE DEF d
    <2>2. HasRoom(d.works, 0 + 1)
      BY <1>1, <2>1, RoomNow
    <2>3. Grows(d, ensure_recovery_work(d, effect))
      BY <1>1, <2>1, <2>2, EnsureGrows
    <2>4. QED
      BY <1>1, <1>2, <1>3, <2>1, <2>3, CommitAndLeave DEF d
  <1>5. CASE EffectMoves(status)
    <2> DEFINE exhausted == effect.exhausted /\ status \in RECOVERABLE
               x == [effect EXCEPT !.status = status, !.exhausted = exhausted]
    <2>1. /\ effect' = x /\ Commit(effect_handoff(d, x))
          /\ SpareRoom(IF status = "DISPATCHED" THEN 2 ELSE 1)
      BY <1>5 DEF EffectMoves
    <2>2. exhausted \in BOOLEAN
      BY <1>1 DEF EffectType
    <2> HIDE DEF d, exhausted
    <2>3. x \in EffectType /\ x.status = status
      BY <1>1, <2>2 DEF EffectType
    <2> HIDE DEF x
    <2>4. IF x.status = "DISPATCHED" THEN HasRoom(d.works, (0 + 1) + 1)
          ELSE HasRoom(d.works, 0 + 1)
      BY <1>1, <2>1, <2>3, RoomNow
    <2>5. Grows(d, effect_handoff(d, x))
      BY <1>1, <2>3, <2>4, HandoffGrows
    <2>6. QED
      BY <1>2, <1>3, <2>1, <2>3, <2>5, CommitAndLeave DEF d
  <1>6. QED
    BY <1>4, <1>5

LEMMA pause_if_currentKeeps ==
  ASSUME LifeInv, NEW t \in Threads, NEW status \in {"WAITING", "ESCALATED"},
         pause_if_current(t, status)
  PROVE  /\ LifeInv' /\ \A w \in Slots : SameRow(works[w], works'[w])
         /\ Timely(works) => Timely(works')
  <1> DEFINE to == IF status = "WAITING" /\ quota.resumes >= MaxResumes THEN "ESCALATED" ELSE status
             c == [case EXCEPT !.status = to, !.rev = @ + 1]
             kind == IF c.status = "WAITING" THEN "resume" ELSE "followup"
             due == kind = "followup"
             e == Db(c, create_work(c, works, kind, <<"decision", c.rev>>, due))
  <1>1. /\ Commit(e) /\ UNCHANGED <<quota, calls, effect, reports>> /\ AfterRun(t)
        /\ Room(1) \/ SpareRoom(1)
        /\ job[t].pc = "act"
    BY DEF pause_if_current
  <1>2. to \in CaseStatus
    BY DEF CaseStatus
  <1> HIDE DEF to
  <1>3. c \in CaseType /\ case.rev < c.rev /\ c.rev \in Nat /\ case.rev <= c.rev
    <2>1. PICK s \in CaseStatus : s = to
      BY <1>2
    <2> DEFINE x == [case EXCEPT !.status = s, !.rev = @ + 1]
    <2>2. c = x
      BY <2>1
    <2>3. x \in CaseType /\ x.rev = case.rev + 1
      BY Zenon, NextStatus
    <2> HIDE DEF c, x
    <2>4. QED
      BY <2>2, <2>3, TypedNow DEF CaseType
  <1> HIDE DEF c
  <1>4. kind \in WorkType /\ due \in BOOLEAN /\ <<"decision", c.rev>> \in Sources
    BY <1>3, SourcesAre DEF WorkType
  <1> HIDE DEF kind, due
  <1> DEFINE m == Db(c, works)
  <1>5. Lawful(m) /\ m.case = c /\ m.works = works
    BY <1>3, LaterLawful, DbParts
  <1> HIDE DEF m
  <1>6. HasRoom(m.works, 0 + 1)
    BY <1>1, <1>5, RoomNow
  <1>7. Grows(m, e)
    <2>1. \A w \in Slots : m.works[w].expRev < m.case.rev
      <3>1. \A w \in Slots : works[w].expRev <= case.rev /\ works[w].expRev \in Nat
        BY TypedNow DEF RowOK, WorkRows
      <3>2. QED
        BY <1>3, <1>5, <3>1, TypedNow
    <2>2. QED
      BY <1>4, <1>5, <1>6, <2>1, CreateGrows
  <1> HIDE DEF e
  <1>8. Follow(e)
    BY <1>5, <1>7 DEF Grows, Follow
  <1>9. JobsOK(job', e.works, reports)
    BY <1>1, <1>8, TableMoves, AfterRunJobs
  <1>10. ClaimOK(e.works, quota'.idle)
    BY <1>1, <1>8, TableClaims
  <1>11. \A w \in Slots : SameRow(works[w], works'[w])
    BY <1>1, <1>8 DEF Follow, Commit
  <1>12. Timely(works) => Timely(works')
    BY <1>1, <1>5, <1>7 DEF Grows, Commit
  <1>13. QED
    BY <1>1, <1>8, <1>9, <1>10, <1>11, <1>12, NowTyped, CommitKeeps


(* A cycle ends: its row was the only claimed one, and it left room for    *)
(* the idle cycle it turned out to be.                                     *)
LEMMA finishKeeps ==
  ASSUME LifeInv, NEW t \in Threads, NEW progress \in BOOLEAN, finish(t, progress)
  PROVE  LifeInv' /\ Grown
  <1> DEFINE w == job[t].w
             idle == IF progress THEN 0 ELSE quota.idle + 1
             d == Db(case, Ends(works, w, "COMPLETED"))
             esc == escalate_in(d, <<"work", w>>)
  <1>1. /\ job[t].pc = "finish" /\ Owned(t) /\ Room(1)
        /\ UNCHANGED <<calls, effect, reports>>
        /\ quota' = [quota EXCEPT !.idle = idle]
        /\ \/ Commit(esc) /\ Leave(t)
           \/ Commit(d) /\ Goto(t, "handoff")
    BY DEF finish, Current
  <1>2. w \in Slots /\ works[w].status = "CLAIMED"
    BY <1>1, OwnedIs DEF Owned, Mine
  <1>3. works[w].resTok # 0 /\ reports[w].state # "ABSENT"
    BY <1>1, TypedNow DEF ThreadOK, PcOK
  <1>4. idle \in 0..MaxNoProgress
    <2>1. quota \in QuotaType /\ quota.idle < MaxNoProgress
      BY <1>2, <1>3, NowTyped DEF LifeInv, ClaimOK
    <2>2. quota.idle \in Nat
      BY <2>1, BudgetAssumption DEF QuotaType
    <2>3. QED
      BY <2>1, <2>2, BudgetAssumption
  <1> HIDE DEF idle
  <1>5. quota' \in QuotaType
    BY <1>1, <1>4, NowTyped DEF QuotaType
  <1>6. Grows(Db(case, works), d) /\ HasRoom(d.works, 0 + 1)
    <2>1. HasRoom(works, 0 + 1)
      BY <1>1, RoomNow
    <2>2. QED
      BY <1>2, <2>1, TypedNow, EndsGrows, SameRoom DEF Final
  <1>7. d.works[w].status = "COMPLETED"
    <2>1. works[w] \in WorkRows /\ works \in [Slots -> WorkRows]
      BY <1>2, TypedNow
    <2> HIDE DEF w
    <2>2. Ends(works, w, "COMPLETED")[w].status = "COMPLETED"
      BY <1>2, <2>1 DEF Ends, WorkRows
    <2>3. QED
      BY <2>2, DbParts
  <1> HIDE DEF d
  <1>8. Grows(d, esc) /\ Lawful(d)
    BY <1>2, <1>6, SourcesAre, EscalateGrows, GrowsLawful
  <1> HIDE DEF esc
  <1>9. Grows(Db(case, works), esc)
    BY <1>6, <1>8, TypedNow, GrowsTransitive
  <1>10. Follow(d) /\ Follow(esc)
    BY <1>6, <1>9, GrowsTable
  <1>11. \A v \in Slots : d.works[v].status # "CLAIMED" /\ esc.works[v].status # "CLAIMED"
    <2>1. \A v \in Slots : v # w => works[v].status # "CLAIMED"
      BY <1>2 DEF LifeInv, ClaimOK
    <2>2. \A v \in Slots : d.works[v].status # "CLAIMED"
      BY <1>7, <1>10, <2>1 DEF Follow, SameRow
    <2>3. \A v \in Slots : esc.works[v].status # "CLAIMED"
      BY <1>8, <2>2 DEF Grows, SameRow
    <2>4. QED
      BY <2>2, <2>3
  <1>12. ClaimOK(d.works, quota'.idle) /\ ClaimOK(esc.works, quota'.idle)
    BY <1>11 DEF ClaimOK
  <1>13. CASE Commit(esc) /\ Leave(t)
    <2>1. JobsOK(job', esc.works, reports)
      BY <1>10, <1>13, TableMoves, NowTyped, LeaveJobs DEF Leave
    <2>2. QED
      BY <1>1, <1>5, <1>9, <1>10, <1>12, <1>13, <2>1, NowTyped, CommitKeeps, CommitGrown
  <1>14. CASE Commit(d) /\ Goto(t, "handoff")
    <2>1. job' = [job EXCEPT ![t].pc = "handoff"] /\ "handoff" \in Pcs
      BY <1>14 DEF Goto, Pcs
    <2>2. PcOK("handoff", w, job[t].tok, d.works, reports)
      BY <1>2, <1>3 DEF PcOK
    <2>3. JobsOK(job', d.works, reports)
      BY <1>10, <2>1, <2>2, TableMoves, NowTyped, GotoJobs
    <2>4. QED
      BY <1>1, <1>5, <1>6, <1>10, <1>12, <1>14, <2>3, NowTyped, CommitKeeps, CommitGrown
  <1>15. QED
    BY <1>1, <1>13, <1>14

(* A hand-off is done once its transaction is committed.                   *)
LEMMA HandoffEnds ==
  ASSUME LifeInv, NEW t \in Threads, job[t].pc = "handoff", Goto(t, "ack"),
         NEW d, Follow(d), Commit(d), UNCHANGED <<quota, calls, effect, reports>>
  PROVE  LifeInv' /\ \A w \in Slots : SameRow(works[w], works'[w])
  <1>1. job' = [job EXCEPT ![t].pc = "ack"] /\ "ack" \in Pcs
    BY DEF Goto, Pcs
  <1>2. PcOK("ack", job[t].w, job[t].tok, d.works, reports)
    BY TypedNow DEF ThreadOK, PcOK
  <1>3. JobsOK(job', d.works, reports)
    BY <1>1, <1>2, TableMoves, NowTyped, GotoJobs
  <1>4. quota'.idle \in {quota.idle, 0}
    OBVIOUS
  <1>5. ClaimOK(d.works, quota'.idle)
    BY <1>4, TableClaims
  <1>6. \A w \in Slots : SameRow(works[w], works'[w])
    BY DEF Follow, Commit
  <1>7. QED
    BY <1>3, <1>5, <1>6, NowTyped, CommitKeeps

LEMMA closeKeeps ==
  ASSUME LifeInv, NEW t \in Threads, close(t)
  PROVE  /\ LifeInv' /\ \A w \in Slots : SameRow(works[w], works'[w])
         /\ Timely(works) => Timely(works')
  <1> DEFINE c == [case EXCEPT !.status = "CLOSED_VERIFIED", !.rev = @ + 1]
             d == Db(c, cancel_terminal_work(works))
  <1>1. /\ job[t].pc = "handoff" /\ Goto(t, "ack")
        /\ UNCHANGED <<quota, calls, effect, reports>>
        /\ UNCHANGED <<case, works>> \/ Commit(d)
    BY DEF close
  <1>2. CASE UNCHANGED <<case, works>>
    <2>1. Commit(Db(case, works)) /\ Follow(Db(case, works))
      BY <1>2, TypedNow, GrowsItself, GrowsTable DEF Commit
    <2>2. QED
      BY <1>1, <1>2, <2>1, HandoffEnds
  <1>3. CASE Commit(d)
    <2> DEFINE m == Db(c, works)
    <2>1. c \in CaseType /\ case.rev <= c.rev
      BY NextStatus DEF CaseStatus
    <2> HIDE DEF c
    <2>2. Lawful(m) /\ m.case = c /\ m.works = works
      BY <2>1, LaterLawful, DbParts
    <2> HIDE DEF m
    <2>3. Grows(m, d)
      BY <2>2, CancelGrows
    <2> HIDE DEF d
    <2>4. Follow(d)
      BY <2>2, <2>3 DEF Grows, Follow
    <2>5. Timely(works) => Timely(works')
      BY <1>3, <2>2, <2>3 DEF Grows, Commit
    <2>6. QED
      BY <1>1, <1>3, <2>4, <2>5, HandoffEnds
  <1>4. QED
    BY <1>1, <1>2, <1>3

LEMMA consumeKeeps ==
  ASSUME LifeInv, NEW t \in Threads, NEW routes \in SUBSET Routes, consume(t, routes)
  PROVE  LifeInv' /\ Grown
  <1> DEFINE w == job[t].w
             fail == Db(case, create_work(case, works, "followup", <<"report", w>>, TRUE))
             all == RouteAll(w, routes)
             n == Cardinality(routes) + (IF effect.status \in RECOVERABLE THEN 1 ELSE 0)
  <1>1. /\ job[t].pc = "handoff" /\ Goto(t, "ack")
        /\ UNCHANGED <<quota, calls, effect, reports>> /\ SpareRoom(n)
        /\ (routes = {"followup"} /\ Commit(fail)) \/ Commit(all)
    BY DEF consume
  <1>2. w \in Slots
    BY <1>1, TypedNow DEF ThreadOK, PcOK
  <1>3. n \in Nat
    BY RoutesCounted DEF Asked
  <1> HIDE DEF n
  <1>4. Room(n)
    BY <1>1, <1>3, RoomNow
  <1>5. CASE Commit(all)
    <2>1. Grows(Db(case, works), all)
      BY <1>2, <1>4, TypedNow, NowTyped, RouteAllGrows DEF n
    <2> HIDE DEF all
    <2>2. QED
      BY <1>1, <1>5, <2>1, GrowsTable, HandoffEnds, CommitGrown
  <1>6. CASE routes = {"followup"} /\ Commit(fail)
    <2>1. n \in {0 + 1, 1 + 1}
      BY <1>6, RoutesCounted DEF Asked, n
    <2> DEFINE d == Db(case, works)
    <2>2. Lawful(d) /\ d.case = case /\ d.works = works
      BY TypedNow
    <2> HIDE DEF d
    <2>3. HasRoom(d.works, 0 + 1) \/ HasRoom(d.works, 1 + 1)
      BY <1>4, <2>1, <2>2 DEF Room, HasRoom
    <2>4. PICK b \in BOOLEAN : b = TRUE
      OBVIOUS
    <2>5. fail = Db(d.case, create_work(d.case, d.works, "followup", <<"report", w>>, b))
      BY <2>2, <2>4
    <2>6. <<"report", w>> \in Sources /\ "followup" \in WorkType
      BY <1>2, SourcesAre DEF WorkType
    <2> HIDE DEF fail, w
    <2>7. Grows(d, fail)
      BY <2>2, <2>3, <2>5, <2>6, CreateGrows
    <2>8. Follow(fail)
      BY <2>7, GrowsTable DEF d
    <2>9. Grown
      BY <1>6, <2>7, CommitGrown DEF d
    <2>10. QED
      BY <1>1, <1>6, <2>8, <2>9, HandoffEnds
  <1>7. QED
    BY <1>1, <1>5, <1>6


-----------------------------------------------------------------------------
(* Types: every row holds what the code can have stored                    *)

LEMMA AbsentOK == Absent \in WorkRows /\ Absent.status = "ABSENT" /\ RowOK(Absent, 0)
  <1>1. <<"decision", 0>> \in Sources
    BY SourcesAre
  <1>2. Absent \in WorkRows
    BY <1>1 DEF Absent, WorkRows, WorkType, WorkStatus, CaseStatus
  <1>3. QED
    BY <1>2 DEF Absent, RowOK

LEMMA InitLife == Init => LifeInv
  <1> SUFFICES ASSUME Init PROVE LifeInv
    OBVIOUS
  <1>1. case \in CaseType /\ case.rev = 0
    BY BudgetAssumption DEF Init, CaseType, CaseStatus
  <1>2. works \in [Slots -> WorkRows] /\ \A w \in Slots : works[w] = Absent
    BY AbsentOK DEF Init
  <1>3. Lawful(Db(case, works))
    BY <1>1, <1>2, AbsentOK, DbParts DEF Lawful
  <1>4. quota \in QuotaType
    BY BudgetAssumption DEF Init, QuotaType
  <1>5. effect \in EffectType
    BY DEF Init, EffectType, EffectStatus
  <1>6. calls \in [CallIds -> CallRows]
    BY DEF Init, CallRows, CallState
  <1>7. reports \in [Slots -> ReportRows]
    BY DEF Init, ReportRows, ReportState, Verdicts
  <1>8. ClaimOK(works, quota.idle)
    BY <1>2, AbsentOK DEF ClaimOK
  <1>9. job \in [Threads -> JobRows] /\ \A t \in Threads : job[t] = Idle
    BY IdleOK DEF Init
  <1>10. JobsOK(job, works, reports)
    BY <1>9, IdleOK DEF JobsOK, ThreadOK, PcOK
  <1>11. QED
    BY <1>3, <1>4, <1>5, <1>6, <1>7, <1>8, <1>10 DEF LifeInv

LEMMA NextLife == LifeInv /\ [Next]_vars => LifeInv'
  <1> SUFFICES ASSUME LifeInv, [Next]_vars PROVE LifeInv'
    OBVIOUS
  <1>1. Workers \subseteq Threads /\ Clients \subseteq Threads
    BY DEF Threads
  <1>2. ASSUME UNCHANGED vars PROVE LifeInv'
    BY <1>2 DEF vars, LifeInv
  <1>3. ASSUME NEW t \in Threads, ClaimStep(t) PROVE LifeInv'
    <2>1. ASSUME LeaveStep(t) PROVE LifeInv'
      BY <2>1, LeaveStepKeeps
    <2>2. ASSUME RunningStep(t) PROVE LifeInv'
      BY <2>2, RunningStepKeeps
    <2>3. ASSUME NEW progress \in BOOLEAN,
                 Interrupt(t) \/ ResumeBlocks(t, progress) \/ VerifyBlocks(t)
          PROVE  LifeInv'
      BY <2>3, BlockKeeps
    <2>4. ASSUME NEW progress \in BOOLEAN, ResumeCommits(t, progress) PROVE LifeInv'
      BY <2>4, ResumeCommitsKeeps
    <2>5. ASSUME NEW progress \in BOOLEAN, NEW limit \in BOOLEAN, RecheckEnds(t, progress, limit)
          PROVE  LifeInv'
      BY <2>5, RecheckEndsKeeps
    <2>6. ASSUME Begin(t) \/ RecheckBegins(t) PROVE LifeInv'
      BY <2>6, RecoveryBeginsKeeps
    <2>7. ASSUME start_once(t) \/ recover_if_owned(t) \/ GoesStale(t) PROVE LifeInv'
      BY <2>7, start_onceKeeps, recover_if_ownedKeeps, GoesStaleKeeps
    <2>8. PICK b \in BOOLEAN : b = TRUE
      OBVIOUS
    <2>9. QED
      BY <1>3, <2>1, <2>2, <2>3, <2>4, <2>5, <2>6, <2>7, <2>8
      DEF ClaimStep, LeaveStep, RunningStep
  <1>4. ASSUME NEW t \in Threads, RunStep(t) PROVE LifeInv'
    <2>1. ASSUME RunningStep(t) PROVE LifeInv'
      BY <2>1, RunningStepKeeps
    <2>2. ASSUME NEW status \in {"WAITING", "ESCALATED"}, pause_if_current(t, status)
          PROVE  LifeInv'
      BY <2>2, pause_if_currentKeeps
    <2>3. ASSUME reserve_call(t) PROVE LifeInv'
      BY <2>3, ReserveKeeps
    <2>4. ASSUME before_investigation(t) \/ record_call(t) \/ mark_error(t) PROVE LifeInv'
      BY <2>4, before_investigationKeeps, record_callKeeps, mark_errorKeeps
    <2>5. QED
      BY <1>4, <2>1, <2>2, <2>3, <2>4 DEF RunStep, RunningStep
  <1>5. ASSUME NEW t \in Threads, ReportStep(t) PROVE LifeInv'
    <2>1. ASSUME LeaveStep(t) PROVE LifeInv'
      BY <2>1, LeaveStepKeeps
    <2>2. ASSUME NEW verdict \in Verdicts, record(t, verdict) PROVE LifeInv'
      BY <2>2, recordKeeps
    <2>3. ASSUME NEW progress \in BOOLEAN, finish(t, progress) PROVE LifeInv'
      BY <2>3, finishKeeps
    <2>4. ASSUME NEW routes \in SUBSET Routes, consume(t, routes) PROVE LifeInv'
      BY <2>4, consumeKeeps
    <2>5. QED
      BY <1>5, <2>1, <2>2, <2>3, <2>4, closeKeeps DEF ReportStep, LeaveStep
  <1>6. ASSUME TakesUp PROVE LifeInv'
    <2>1. ASSUME NEW t \in Threads, PickUpStep(t) PROVE LifeInv'
      BY <2>1, PickUpKeeps
    <2>2. ASSUME NEW t \in Threads, NEW w \in Slots, claim(t, w) PROVE LifeInv'
      BY <2>2, claimKeeps
    <2>3. ASSUME NEW t \in Threads, execute(t) PROVE LifeInv'
      BY <2>3, ReserveKeeps
    <2>4. QED
      BY <1>1, <1>6, <2>1, <2>2, <2>3 DEF TakesUp, PickUpStep
  <1>7. ASSUME EffectStep PROVE LifeInv'
    <2>1. ASSUME NEW status \in EffectStatus, EnsureRecheck \/ EffectMoves(status) PROVE LifeInv'
      BY <2>1, EffectWorkKeeps
    <2>2. "NONE" \in EffectStatus
      BY DEF EffectStatus
    <2>3. QED
      BY <1>7, <2>1, <2>2, EffectPreparedKeeps, OutsideKeeps DEF EffectStep
  <1>8. ASSUME Environment PROVE LifeInv'
    <2>1. ASSUME NEW t \in Threads, LeaveStep(t) PROVE LifeInv'
      BY <2>1, LeaveStepKeeps
    <2>2. ASSUME NEW w \in Slots, submit_signal(w) \/ DueArrives(w) \/ LeaseExpires(w)
          PROVE  LifeInv'
      BY <2>2, RowStepKeeps
    <2>3. ASSUME NEW w \in Slots, poll_due_work(w) PROVE LifeInv'
      BY <2>3, poll_due_workKeeps
    <2>4. QED
      BY <1>8, <2>1, <2>2, <2>3, OutsideKeeps DEF Environment, LeaveStep
  <1>9. QED
    BY <1>1, <1>2, <1>3, <1>4, <1>5, <1>6, <1>7, <1>8 DEF Next, WorkerStep

LEMMA LifeTyped == LifeInv => TypeOK
  <1> SUFFICES ASSUME LifeInv PROVE TypeOK
    OBVIOUS
  <1>1. case \in [status : CaseStatus, rev : Nat, used : 0..MaxToolCalls]
    BY TypedNow DEF CaseType
  <1>2. /\ quota.resumes \in 0..MaxResumes /\ quota.verifications \in 0..MaxVerifications
        /\ quota.idle \in 0..MaxNoProgress
    BY NowTyped DEF QuotaType
  <1>3. \A w \in Slots :
          /\ works[w].kind \in WorkType /\ works[w].source \in Sources
          /\ works[w].status \in WorkStatus
          /\ works[w].expStatus \in CaseStatus /\ works[w].expRev <= case.rev
          /\ works[w].signal \in {"none", "needed", "given"}
          /\ works[w].live => works[w].status = "CLAIMED"
          /\ works[w].recTok <= works[w].token /\ works[w].resTok <= works[w].recTok
          /\ works[w].started => works[w].resTok # 0
    BY TypedNow DEF WorkRows, RowOK
  <1>4. \A w \in Slots :
          /\ reports[w].verdict \in Verdicts
          /\ reports[w].state \in {"ABSENT", "PENDING", "COMPLETED", "CANCELED"}
    BY NowTyped DEF ReportRows, ReportState
  <1>5. \A c \in CallIds : calls[c].state \in CallState
    BY NowTyped DEF CallRows
  <1>6. effect.status \in EffectStatus
    BY NowTyped DEF EffectType
  <1>7. \A t \in Threads : job[t].w \in Slots \cup {0} /\ job[t].reads \subseteq CallIds
    BY TypedNow DEF JobRows
  <1>8. QED
    BY <1>1, <1>2, <1>3, <1>4, <1>5, <1>6, <1>7 DEF TypeOK

LEMMA LifeAlways == Spec => []LifeInv
  BY InitLife, NextLife, PTL DEF Spec

(* Every row of the Case holds what the code can have stored, whatever     *)
(* number of workers and clients interleave and crash: only a claimed work *)
(* item has a lease, a work item is claimed, recovered, resumed and        *)
(* started in that order, no row is bound to a revision the Case has not   *)
(* reached, and the cycle counters stay within the orchestration budget    *)
(* (the last of which needs that a resumed claim left room for one more    *)
(* idle cycle).                                                            *)
THEOREM CaseTyped == Spec => []TypeOK
  BY LifeAlways, LifeTyped, PTL

----------------------------------------------------------------------------
(* What a closure rests on and what the cycles before it cost.  Three      *)
(* facts about a step carry the proofs: only close makes a Case terminal;  *)
(* a terminal Case, its calls, its effect and its reports do not move any  *)
(* more; and only ResumeCommits resumes a work item, paying one unit of    *)
(* the quota.                                                              *)

(* The transactions that change several rows of the work table at once.    *)
TableStep ==
  \/ \E w \in Slots : poll_due_work(w)
  \/ \E t \in Threads :
       \/ Interrupt(t) \/ VerifyBlocks(t) \/ GoesStale(t)
       \/ \E progress \in BOOLEAN :
            ResumeBlocks(t, progress) \/ finish(t, progress)
            \/ \E limit \in BOOLEAN : RecheckEnds(t, progress, limit)
       \/ \E routes \in SUBSET Routes : consume(t, routes)
  \/ EnsureRecheck
  \/ \E status \in EffectStatus : EffectMoves(status)

LEMMA TableStepGrows ==
  ASSUME LifeInv, TableStep
  PROVE  Grown
  <1>1. PICK b \in BOOLEAN : b = TRUE
    OBVIOUS
  <1>2. "NONE" \in EffectStatus
    BY DEF EffectStatus
  <1>3. ASSUME NEW t \in Threads, NEW progress \in BOOLEAN,
               Interrupt(t) \/ ResumeBlocks(t, progress) \/ VerifyBlocks(t)
        PROVE  Grown
    BY <1>3, BlockKeeps
  <1>4. ASSUME NEW t \in Threads, NEW progress \in BOOLEAN, finish(t, progress) PROVE Grown
    BY <1>4, finishKeeps
  <1>5. ASSUME NEW t \in Threads, NEW progress \in BOOLEAN, NEW limit \in BOOLEAN,
               RecheckEnds(t, progress, limit)
        PROVE  Grown
    BY <1>5, RecheckEndsKeeps
  <1>6. ASSUME NEW t \in Threads, NEW routes \in SUBSET Routes, consume(t, routes) PROVE Grown
    BY <1>6, consumeKeeps
  <1>7. ASSUME NEW status \in EffectStatus, EnsureRecheck \/ EffectMoves(status) PROVE Grown
    BY <1>7, EffectWorkKeeps
  <1>8. QED
    BY <1>1, <1>2, <1>3, <1>4, <1>5, <1>6, <1>7, GoesStaleKeeps, poll_due_workKeeps
    DEF TableStep

(* The steps of one thread that leave the Case row and the work table.     *)
BesideStep ==
  \/ \E t \in Threads :
       \/ GivesUp(t) \/ Inspect(t) \/ LeaseLost(t)
       \/ Turn(t) \/ RunStops(t) \/ ReserveRaises(t) \/ mark_error(t)
       \/ \E verdict \in Verdicts : record(t, verdict)
       \/ OutOfRoom(t) \/ HandoffRaises(t) \/ ack(t) \/ Crash(t) \/ DirectRun(t)
       \/ \E w \in Slots : poll_unhanded_reports(t, w)
       \/ \E u \in Workers : Redeliver(t, u)
  \/ EffectExhausted
  \/ \E c \in CallIds : ObservationStored(c)

(* The steps that write one row of the work table.                         *)
RowStepOf(t) == Begin(t) \/ RecheckBegins(t) \/ start_once(t) \/ recover_if_owned(t)

OneRowStep ==
  \/ \E w \in Slots : submit_signal(w) \/ DueArrives(w) \/ LeaseExpires(w)
  \/ \E t \in Threads : RowStepOf(t) \/ \E w \in Slots : claim(t, w)

(* The steps that write the Case row and leave the work table.             *)
CaseRowStep ==
  \/ \E t \in Threads :
       before_investigation(t) \/ reserve_call(t) \/ execute(t) \/ record_call(t)
  \/ EffectPrepared

PauseStep == \E t \in Threads, status \in {"WAITING", "ESCALATED"} : pause_if_current(t, status)

ResumeStep == \E t \in Threads, progress \in BOOLEAN : ResumeCommits(t, progress)

LEMMA StepKinds ==
  ASSUME Next
  PROVE  \/ TableStep \/ BesideStep \/ OneRowStep \/ CaseRowStep \/ PauseStep \/ ResumeStep
         \/ \E t \in Threads : close(t)
  <1>0. Workers \subseteq Threads /\ Clients \subseteq Threads
    BY DEF Threads
  <1>1. CASE TakesUp
    BY <1>0, <1>1 DEF TakesUp, BesideStep, OneRowStep, CaseRowStep
  <1>2. CASE EffectStep
    BY <1>2 DEF EffectStep, TableStep, CaseRowStep, BesideStep
  <1>3. CASE Environment
    BY <1>3 DEF Environment, TableStep, BesideStep, OneRowStep
  <1>4. ASSUME NEW t \in Threads, ClaimStep(t)
        PROVE  TableStep \/ BesideStep \/ OneRowStep \/ ResumeStep
    BY <1>4 DEF ClaimStep, TableStep, BesideStep, OneRowStep, RowStepOf, ResumeStep
  <1>5. ASSUME NEW t \in Threads, RunStep(t)
        PROVE  BesideStep \/ CaseRowStep \/ PauseStep
    BY <1>5 DEF RunStep, BesideStep, CaseRowStep, PauseStep
  <1>6. ASSUME NEW t \in Threads, ReportStep(t)
        PROVE  TableStep \/ BesideStep \/ close(t)
    BY <1>6 DEF ReportStep, TableStep, BesideStep
  <1>7. QED
    BY <1>0, <1>1, <1>2, <1>3, <1>4, <1>5, <1>6 DEF Next, WorkerStep


-----------------------------------------------------------------------------
(* Closure                                                                 *)

LEMMA OpenSteps ==
  ASSUME TableStep \/ PauseStep \/ ResumeStep
  PROVE  ~Terminal
  <1>1. TableStep => ~Terminal
    BY DEF TableStep, poll_due_work, Interrupt, VerifyBlocks, GoesStale, ResumeBlocks, finish,
           RecheckEnds, consume, EnsureRecheck, EffectMoves, Current, Fresh
  <1>2. PauseStep \/ ResumeStep => ~Terminal
    BY DEF PauseStep, ResumeStep, pause_if_current, ResumeCommits, Current, Terminal, Runnable
  <1>3. QED
    BY <1>1, <1>2

LEMMA CaseRowSteps ==
  ASSUME LifeInv, CaseRowStep
  PROVE  /\ UNCHANGED <<works, quota, reports>>
         /\ case'.status \in {case.status, "INVESTIGATING"}
         /\ Terminal => UNCHANGED <<case, calls, effect>>
  <1> DEFINE Goal == /\ UNCHANGED <<works, quota, reports>>
                     /\ case'.status \in {case.status, "INVESTIGATING"}
                     /\ Terminal => UNCHANGED <<case, calls, effect>>
             next == [case EXCEPT !.rev = @ + 1]
  <1>1. next.status = case.status
    BY TypedNow, CaseSteps DEF CaseStatus
  <1> HIDE DEF next
  <1>2. ASSUME NEW t \in Threads, before_investigation(t) PROVE Goal
    <2> DEFINE c == FirstRead(t)
    <2>1. \/ UNCHANGED <<case, calls>>
          \/ ~Terminal /\ case' = next
      <3>1. \/ job[t].reads = {} /\ UNCHANGED <<case, calls>>
            \/ Terminal /\ UNCHANGED <<case, calls>>
            \/ ~Terminal /\ IF Recoverable(c)
                            THEN Publish(c, Paused) /\ case' = [case EXCEPT !.rev = @ + 1]
                            ELSE UNCHANGED <<case, calls>>
        BY <1>2, Zenon DEF before_investigation
      <3>2. QED
        BY <3>1, Zenon DEF next
    <2>2. QED
      BY <1>1, <1>2, <2>1 DEF before_investigation
  <1>3. ASSUME NEW t \in Threads, reserve_call(t) \/ execute(t) PROVE Goal
    BY <1>3 DEF reserve_call, execute, CanReserve, Reservation, Terminal, Runnable
  <1>4. ASSUME NEW t \in Threads, record_call(t) PROVE Goal
    BY <1>1, <1>4 DEF record_call, next
  <1>5. ASSUME EffectPrepared PROVE Goal
    BY <1>1, <1>5 DEF EffectPrepared, next
  <1>6. QED
    BY <1>2, <1>3, <1>4, <1>5 DEF CaseRowStep

LEMMA BesideSteps ==
  ASSUME BesideStep
  PROVE  UNCHANGED <<case, works, quota>>
  BY DEF BesideStep, GivesUp, Inspect, LeaseLost, Turn, RunStops, ReserveRaises, mark_error,
         record, OutOfRoom, HandoffRaises, ack, Crash, DirectRun, poll_unhanded_reports,
         Redeliver, EffectExhausted, ObservationStored

LEMMA OneRowSteps ==
  ASSUME LifeInv, OneRowStep
  PROVE  UNCHANGED <<quota, reports, effect>> /\ case'.status = case.status
  <1> DEFINE next == [case EXCEPT !.rev = @ + 1]
  <1>1. next.status = case.status
    BY TypedNow, CaseSteps DEF CaseStatus
  <1>2. UNCHANGED <<quota, reports, effect>>
    BY DEF OneRowStep, RowStepOf, submit_signal, DueArrives, LeaseExpires, Begin, RecheckBegins,
           start_once, recover_if_owned, claim
  <1>3. case' \in {case, next}
    BY DEF OneRowStep, RowStepOf, submit_signal, DueArrives, LeaseExpires, Begin, RecheckBegins,
           start_once, recover_if_owned, claim
  <1> HIDE DEF next
  <1>4. QED
    BY <1>1, <1>2, <1>3

(* Nothing but a closure makes a Case terminal.                            *)
LEMMA OnlyCloseCloses ==
  ASSUME LifeInv, Next, ~Terminal, Terminal'
  PROVE  \E t \in Threads : close(t)
  <1>1. TableStep => ~Terminal'
    <2>1. Grown => case' = case \/ case'.status = "ESCALATED"
      BY DbParts DEF Grown, Grows
    <2>2. QED
      BY <2>1, TableStepGrows DEF Terminal
  <1>2. BesideStep \/ OneRowStep \/ CaseRowStep => ~Terminal'
    BY BesideSteps, OneRowSteps, CaseRowSteps DEF Terminal
  <1>3. ASSUME NEW t \in Threads, NEW status \in {"WAITING", "ESCALATED"},
               pause_if_current(t, status)
        PROVE  ~Terminal'
    <2> DEFINE to == IF status = "WAITING" /\ quota.resumes >= MaxResumes
                     THEN "ESCALATED" ELSE status
    <2>1. case' = [case EXCEPT !.status = to, !.rev = @ + 1]
      BY <1>3, DbParts DEF pause_if_current, Commit
    <2>2. to \in CaseStatus /\ to # "CLOSED_VERIFIED"
      BY DEF CaseStatus
    <2> HIDE DEF to
    <2>3. PICK s \in CaseStatus : s = to
      BY <2>2
    <2> DEFINE c == [case EXCEPT !.status = s, !.rev = @ + 1]
    <2>4. c.status = s
      BY Zenon, NextStatus
    <2>5. case' = c
      BY <2>1, <2>3
    <2> HIDE DEF c
    <2>6. QED
      BY <2>2, <2>3, <2>4, <2>5 DEF Terminal
  <1>4. ASSUME NEW t \in Threads, NEW progress \in BOOLEAN, ResumeCommits(t, progress)
        PROVE  ~Terminal'
    <2> DEFINE c == [case EXCEPT !.status = "INVESTIGATING", !.rev = @ + 1]
    <2>1. c.status = "INVESTIGATING"
      BY NextStatus DEF CaseStatus
    <2>2. case' = c
      BY <1>4 DEF ResumeCommits
    <2> HIDE DEF c
    <2>3. QED
      BY <2>1, <2>2 DEF Terminal
  <1>5. QED
    BY <1>1, <1>2, <1>3, <1>4, StepKinds DEF PauseStep, ResumeStep


(* What a closed Case has left behind does not move.                       *)
LEMMA ClosedStays ==
  ASSUME LifeInv, ClosureIsComplete, Terminal, [Next]_vars
  PROVE  /\ UNCHANGED <<case, works>>
         /\ \A c \in CallIds : calls'[c].state = calls[c].state
         /\ effect'.status = effect.status
         /\ \A w \in Slots : reports[w].state # "ABSENT" =>
              /\ reports'[w].state # "ABSENT"
              /\ reports'[w].verdict = reports[w].verdict /\ reports'[w].rev = reports[w].rev
  <1> DEFINE CallsStay == \A c \in CallIds : calls'[c].state = calls[c].state
             Stay == \A w \in Slots : reports[w].state # "ABSENT" =>
                       /\ reports'[w].state # "ABSENT"
                       /\ reports'[w].verdict = reports[w].verdict
                       /\ reports'[w].rev = reports[w].rev
             Goal == UNCHANGED <<case, works>> /\ CallsStay /\ effect'.status = effect.status /\ Stay
  <1>1. ASSUME UNCHANGED <<case, works, calls, effect, reports>> PROVE Goal
    BY <1>1
  <1>2. /\ \A w \in Slots : ~Open(works[w])
        /\ \A c \in CallIds : calls[c].state \in {"FREE", "OBSERVED"}
        /\ effect.status \notin {"PREPARED", "DISPATCHED"}
    BY DEF ClosureIsComplete
  <1>3. ~OneRowStep
    <2>1. \A w \in Slots : ~submit_signal(w) /\ ~DueArrives(w) /\ ~LeaseExpires(w)
      BY <1>2 DEF submit_signal, DueArrives, LeaseExpires, Open
    <2>2. \A t \in Threads : ~RowStepOf(t) /\ \A w \in Slots : ~claim(t, w)
      BY DEF RowStepOf, Begin, RecheckBegins, start_once, recover_if_owned, claim, Current
    <2>3. QED
      BY <2>1, <2>2 DEF OneRowStep
  <1>4. ~TableStep /\ ~PauseStep /\ ~ResumeStep
    BY OpenSteps
  <1>5. ASSUME CaseRowStep PROVE Goal
    BY <1>1, <1>5, CaseRowSteps
  <1>6. ASSUME NEW t \in Threads, close(t) PROVE Goal
    BY <1>1, <1>6 DEF close
  <1>7. ASSUME BesideStep PROVE Goal
    <2>1. UNCHANGED <<case, works>>
      BY <1>7, BesideSteps
    <2>2. ~EffectExhausted /\ \A c \in CallIds : ~ObservationStored(c)
      BY <1>2 DEF EffectExhausted, RECOVERABLE, ObservationStored
    <2>3. \A t \in Threads, verdict \in Verdicts : ~record(t, verdict)
      BY DEF record, Current
    <2>4. ASSUME NEW t \in Threads, mark_error(t) PROVE Goal
      <3>1. UNCHANGED <<effect, reports>> /\
            calls' = [calls EXCEPT ![job[t].call].state = IF @ = "DISPATCHED" THEN "ERROR" ELSE @]
        BY <2>4 DEF mark_error
      <3>2. CallsStay
        BY <1>2, <3>1, NowTyped DEF CallRows
      <3>3. QED
        BY <2>1, <3>1, <3>2
    <2>5. ASSUME NEW t \in Threads, ack(t) \/ HandoffRaises(t) PROVE Goal
      <3>1. UNCHANGED <<calls, effect>> /\
            \/ reports' = reports
            \/ \E s \in {"CANCELED", "COMPLETED"} :
                 reports' = [reports EXCEPT ![job[t].w].state = s]
        BY <2>5 DEF ack, HandoffRaises
      <3>2. Stay
        BY <3>1, NowTyped DEF ReportRows
      <3>3. QED
        BY <2>1, <3>1, <3>2
    <2>6. ASSUME UNCHANGED <<calls, effect, reports>> PROVE Goal
      BY <1>1, <2>1, <2>6
    <2> HIDE DEF Goal
    <2>7. QED
      BY <1>7, <2>2, <2>3, <2>4, <2>5, <2>6
      DEF BesideStep, GivesUp, Inspect, LeaseLost, Turn, RunStops, ReserveRaises,
          OutOfRoom, Crash, DirectRun, poll_unhanded_reports, Redeliver
  <1>8. QED
    BY <1>1, <1>3, <1>4, <1>5, <1>6, <1>7, StepKinds DEF vars

(* The closure itself: the evaluation that passes finds no read and no     *)
(* effect outstanding, and the open work is cancelled with it.             *)
LEMMA CloseIsComplete ==
  ASSUME LifeInv, NEW t \in Threads, close(t), ~Terminal
  PROVE  ClosureIsComplete' /\ ClosedAsEvaluated'
  <1> DEFINE w == job[t].w
             c == [case EXCEPT !.status = "CLOSED_VERIFIED", !.rev = @ + 1]
  <1>1. /\ job[t].pc = "handoff" /\ reports[w].verdict = "PASS"
        /\ reports[w].rev = case.rev /\ PassPossible
        /\ Commit(Db(c, cancel_terminal_work(works)))
        /\ UNCHANGED <<calls, effect, reports>>
    BY DEF close, Fresh
  <1>2. w \in Slots /\ reports[w].state # "ABSENT"
    BY <1>1, TypedNow DEF ThreadOK, PcOK
  <1>3. case'.rev = case.rev + 1
    <2>1. c.rev = case.rev + 1
      BY NextStatus DEF CaseStatus
    <2> HIDE DEF c
    <2>2. QED
      BY <1>1, <2>1, DbParts DEF Commit
  <1>4. ClosedAsEvaluated'
    BY <1>1, <1>2, <1>3 DEF ClosedAsEvaluated
  <1>5. works' = cancel_terminal_work(works)
    BY <1>1, DbParts DEF Commit
  <1>6. \A v \in Slots : ~Open(works'[v]) /\ works'[v].status # "BLOCKED"
    BY <1>5, TypedNow DEF cancel_terminal_work, Open, WorkRows
  <1>7. \A k \in CallIds : calls[k].state \in {"FREE", "OBSERVED"}
    BY <1>1, NowTyped DEF PassPossible, pending_calls, CallRows, CallState
  <1>8. effect.status \notin {"PREPARED", "DISPATCHED"}
    BY <1>1 DEF PassPossible, RECOVERABLE
  <1>9. ClosureIsComplete'
    BY <1>1, <1>6, <1>7, <1>8 DEF ClosureIsComplete
  <1>10. QED
    BY <1>4, <1>9

ClosedInv == ClosureIsComplete /\ ClosedAsEvaluated

LEMMA InitClosed == Init => ClosedInv
  BY DEF Init, ClosedInv, ClosureIsComplete, ClosedAsEvaluated, Terminal

LEMMA NextClosed == LifeInv /\ ClosedInv /\ [Next]_vars => ClosedInv'
  <1> SUFFICES ASSUME LifeInv, ClosedInv, [Next]_vars PROVE ClosedInv'
    OBVIOUS
  <1>1. CASE Terminal
    <2>1. /\ UNCHANGED <<case, works>>
          /\ \A c \in CallIds : calls'[c].state = calls[c].state
          /\ effect'.status = effect.status
          /\ \A w \in Slots : reports[w].state # "ABSENT" =>
              /\ reports'[w].state # "ABSENT"
              /\ reports'[w].verdict = reports[w].verdict /\ reports'[w].rev = reports[w].rev
      BY <1>1, ClosedStays DEF ClosedInv
    <2>2. ClosureIsComplete'
      BY <1>1, <2>1 DEF ClosedInv, ClosureIsComplete
    <2>3. ClosedAsEvaluated'
      BY <1>1, <2>1 DEF ClosedInv, ClosedAsEvaluated
    <2>4. QED
      BY <2>2, <2>3 DEF ClosedInv
  <1>2. CASE ~Terminal
    <2>1. CASE ~Terminal'
      BY <2>1 DEF ClosedInv, ClosureIsComplete, ClosedAsEvaluated
    <2>2. CASE Terminal'
      <3>1. Next
        BY <1>2, <2>2 DEF vars, Terminal
      <3>2. QED
        BY <1>2, <2>2, <3>1, OnlyCloseCloses, CloseIsComplete DEF ClosedInv
    <2>3. QED
      BY <2>1, <2>2
  <1>3. QED
    BY <1>1, <1>2

LEMMA ClosedAlways == Spec => []ClosedInv
  BY LifeAlways, InitClosed, NextClosed, PTL DEF Spec

(* A Case is closed on a report that passed at the very revision it was    *)
(* closed at: the hand-off checks the report against the Case row in the   *)
(* transaction that closes it, a terminal Case does not move, and no later *)
(* cycle overwrites the report, because record needs an open Case.         *)
THEOREM ClosedOnItsReport == Spec => []ClosedAsEvaluated
  BY ClosedAlways, PTL DEF ClosedInv


-----------------------------------------------------------------------------
(* Cycles                                                                  *)

Verifying(ws) == {w \in Slots : ws[w].resTok # 0 /\ ws[w].kind = "verify"}

Working(ws) == {w \in Slots : ws[w].resTok # 0 /\ ws[w].kind # "verify"}

(* A resumed work item has been paid for.                                  *)
CyclesPaid ==
  /\ Cardinality(Verifying(works)) <= quota.verifications
  /\ Cardinality(Working(works)) <= quota.resumes

LEMMA CountsAreNat ==
  ASSUME NEW ws
  PROVE  /\ IsFiniteSet(Verifying(ws)) /\ IsFiniteSet(Working(ws))
         /\ Cardinality(Verifying(ws)) \in Nat /\ Cardinality(Working(ws)) \in Nat
  <1>1. Verifying(ws) \subseteq Slots /\ Working(ws) \subseteq Slots
    BY DEF Verifying, Working
  <1>2. QED
    BY <1>1, SlotsFinite, FS_Subset, FS_CardinalityType

(* No new work item is resumed and the counters stay.                      *)
LEMMA SamePaid ==
  ASSUME LifeInv, CyclesPaid, Verifying(works') \subseteq Verifying(works),
         Working(works') \subseteq Working(works),
         quota'.resumes = quota.resumes, quota'.verifications = quota.verifications
  PROVE  CyclesPaid'
  <1>1. /\ Cardinality(Verifying(works')) <= Cardinality(Verifying(works))
        /\ Cardinality(Working(works')) <= Cardinality(Working(works))
    BY CountsAreNat, FS_Subset
  <1>2. quota.resumes \in Nat /\ quota.verifications \in Nat
    BY NowTyped, BudgetAssumption DEF QuotaType
  <1>3. /\ Cardinality(Verifying(works')) \in Nat /\ Cardinality(Verifying(works)) \in Nat
        /\ Cardinality(Working(works')) \in Nat /\ Cardinality(Working(works)) \in Nat
    BY CountsAreNat
  <1>4. QED
    BY <1>1, <1>2, <1>3 DEF CyclesPaid

(* A row that keeps its resumption keeps its kind, if it was resumed.      *)
LEMMA SameResumed ==
  ASSUME LifeInv, NEW ws,
         \A w \in Slots : /\ ws[w].resTok = works[w].resTok
                          /\ works[w].status # "ABSENT" => ws[w].kind = works[w].kind
  PROVE  Verifying(ws) \subseteq Verifying(works) /\ Working(ws) \subseteq Working(works)
  <1>1. \A w \in Slots : works[w].resTok # 0 => works[w].status # "ABSENT"
    BY TypedNow DEF RowOK, WorkRows
  <1>2. QED
    BY <1>1 DEF Verifying, Working

LEMMA OneRowResumed ==
  ASSUME LifeInv, OneRowStep
  PROVE  \A w \in Slots : works'[w].resTok = works[w].resTok /\ works'[w].kind = works[w].kind
  <1> DEFINE Goal ==
        \A w \in Slots : works'[w].resTok = works[w].resTok /\ works'[w].kind = works[w].kind
  <1>0. works \in [Slots -> WorkRows]
    BY TypedNow
  <1>1. ASSUME NEW w \in Slots, submit_signal(w) PROVE Goal
    BY <1>0, <1>1 DEF submit_signal, WorkRows
  <1>2. ASSUME NEW w \in Slots, DueArrives(w) PROVE Goal
    BY <1>0, <1>2 DEF DueArrives, WorkRows
  <1>3. ASSUME NEW w \in Slots, LeaseExpires(w) PROVE Goal
    BY <1>0, <1>3 DEF LeaseExpires, WorkRows
  <1>4. ASSUME NEW t \in Threads, NEW w \in Slots, claim(t, w) PROVE Goal
    <2>1. works' = [works EXCEPT ![w].status = "CLAIMED", ![w].live = TRUE, ![w].token = @ + 1]
      BY <1>4 DEF claim
    <2>2. QED
      BY <1>0, <2>1 DEF WorkRows
  <1>5. ASSUME NEW t \in Threads, Begin(t) \/ RecheckBegins(t) PROVE Goal
    <2>1. works' = [works EXCEPT ![job[t].w].recTok = job[t].tok]
      BY <1>5 DEF Begin, RecheckBegins
    <2>2. QED
      BY <1>0, <2>1 DEF WorkRows
  <1>6. ASSUME NEW t \in Threads, start_once(t) PROVE Goal
    <2>1. works' = [works EXCEPT ![job[t].w].started = TRUE]
      BY <1>6 DEF start_once
    <2>2. QED
      BY <1>0, <2>1 DEF WorkRows
  <1>7. ASSUME NEW t \in Threads, recover_if_owned(t) PROVE Goal
    <2>1. \/ UNCHANGED works
          \/ works' = [works EXCEPT ![job[t].w].expRev = case.rev + 1,
                                    ![job[t].w].rebased = @ + 1]
      BY <1>7 DEF recover_if_owned
    <2>2. QED
      BY <1>0, <2>1 DEF WorkRows
  <1>8. QED
    BY <1>1, <1>2, <1>3, <1>4, <1>5, <1>6, <1>7 DEF OneRowStep, RowStepOf


LEMMA QuotaKept ==
  ASSUME LifeInv, TableStep \/ PauseStep \/ \E t \in Threads : close(t)
  PROVE  quota'.resumes = quota.resumes /\ quota'.verifications = quota.verifications
  <1>1. \/ UNCHANGED quota
        \/ \E idle : quota' = [quota EXCEPT !.idle = idle]
    BY DEF TableStep, PauseStep, poll_due_work, Interrupt, VerifyBlocks, GoesStale, ResumeBlocks,
           finish, RecheckEnds, consume, EnsureRecheck, EffectMoves, pause_if_current, close
  <1>2. quota \in QuotaType
    BY NowTyped
  <1>3. QED
    BY <1>1, <1>2 DEF QuotaType

LEMMA TableResumed ==
  ASSUME LifeInv, TableStep \/ PauseStep \/ \E t \in Threads : close(t)
  PROVE  \A w \in Slots : SameRow(works[w], works'[w])
  <1>1. TableStep => \A w \in Slots : SameRow(works[w], works'[w])
    BY TableStepGrows, DbParts DEF Grown, Grows
  <1>2. PauseStep => \A w \in Slots : SameRow(works[w], works'[w])
    BY pause_if_currentKeeps DEF PauseStep
  <1>3. QED
    BY <1>1, <1>2, closeKeeps

LEMMA ResumePays ==
  ASSUME LifeInv, CyclesPaid, NEW t \in Threads, NEW progress \in BOOLEAN,
         ResumeCommits(t, progress)
  PROVE  CyclesPaid'
  <1> DEFINE w == job[t].w
             v == IF Verifies(t) THEN 1 ELSE 0
  <1>1. /\ Owned(t) /\ works[w].resTok = 0
        /\ works' = [works EXCEPT ![w].resTok = job[t].tok]
        /\ quota' = [resumes |-> quota.resumes + (IF Verifies(t) THEN 0 ELSE 1),
                     verifications |-> quota.verifications + (IF Verifies(t) THEN 1 ELSE 0),
                     idle |-> IdleAfterRecovery(progress)]
    BY DEF ResumeCommits, Current, OwnRevision, Mine
  <1>2. w \in Slots /\ works \in [Slots -> WorkRows]
    BY <1>1, OwnedIs, TypedNow
  <1>3. /\ quota'.resumes = quota.resumes + (IF Verifies(t) THEN 0 ELSE 1)
        /\ quota'.verifications = quota.verifications + (IF Verifies(t) THEN 1 ELSE 0)
    BY <1>1
  <1>4. quota.resumes \in Nat /\ quota.verifications \in Nat
    BY NowTyped, BudgetAssumption DEF QuotaType
  <1>5. \A u \in Slots : /\ works'[u].kind = works[u].kind
                         /\ u # w => works'[u].resTok = works[u].resTok
    BY <1>1, <1>2 DEF WorkRows
  <1>6. Verifies(t) <=> works[w].kind = "verify"
    BY DEF Verifies, Mine
  <1>7. /\ IsFiniteSet(Verifying(works)) /\ IsFiniteSet(Working(works))
        /\ Cardinality(Verifying(works)) \in Nat /\ Cardinality(Working(works)) \in Nat
        /\ Cardinality(Verifying(works')) \in Nat /\ Cardinality(Working(works')) \in Nat
    BY CountsAreNat
  <1> HIDE DEF w
  <1>8. CASE Verifies(t)
    <2>1. /\ Verifying(works') \subseteq Verifying(works) \cup {w}
          /\ Working(works') \subseteq Working(works)
      BY <1>5, <1>6, <1>8 DEF Verifying, Working
    <2>2. w \notin Verifying(works)
      BY <1>1 DEF Verifying
    <2>3. /\ IsFiniteSet(Verifying(works) \cup {w})
          /\ Cardinality(Verifying(works) \cup {w}) = Cardinality(Verifying(works)) + 1
      BY <1>7, <2>2, FS_AddElement
    <2>4. /\ Cardinality(Verifying(works')) <= Cardinality(Verifying(works)) + 1
          /\ Cardinality(Working(works')) <= Cardinality(Working(works))
      BY <1>7, <2>1, <2>3, FS_Subset
    <2>5. QED
      BY <1>3, <1>4, <1>7, <1>8, <2>4 DEF CyclesPaid
  <1>9. CASE ~Verifies(t)
    <2>1. /\ Working(works') \subseteq Working(works) \cup {w}
          /\ Verifying(works') \subseteq Verifying(works)
      BY <1>5, <1>6, <1>9 DEF Verifying, Working
    <2>2. w \notin Working(works)
      BY <1>1 DEF Working
    <2>3. /\ IsFiniteSet(Working(works) \cup {w})
          /\ Cardinality(Working(works) \cup {w}) = Cardinality(Working(works)) + 1
      BY <1>7, <2>2, FS_AddElement
    <2>4. /\ Cardinality(Working(works')) <= Cardinality(Working(works)) + 1
          /\ Cardinality(Verifying(works')) <= Cardinality(Verifying(works))
      BY <1>7, <2>1, <2>3, FS_Subset
    <2>5. QED
      BY <1>3, <1>4, <1>7, <1>9, <2>4 DEF CyclesPaid
  <1>10. QED
    BY <1>8, <1>9

LEMMA InitPaid == Init => CyclesPaid
  <1> SUFFICES ASSUME Init PROVE CyclesPaid
    OBVIOUS
  <1>1. \A w \in Slots : works[w].resTok = 0
    BY DEF Init, Absent
  <1>2. Verifying(works) = {} /\ Working(works) = {}
    BY <1>1 DEF Verifying, Working
  <1>3. Cardinality({}) = 0
    BY FS_EmptySet
  <1>4. quota.verifications = 0 /\ quota.resumes = 0
    BY DEF Init
  <1>5. QED
    BY <1>2, <1>3, <1>4 DEF CyclesPaid

LEMMA NextPaid == LifeInv /\ CyclesPaid /\ [Next]_vars => CyclesPaid'
  <1> SUFFICES ASSUME LifeInv, CyclesPaid, [Next]_vars PROVE CyclesPaid'
    OBVIOUS
  <1>1. CASE UNCHANGED vars
    BY <1>1 DEF vars, CyclesPaid
  <1>2. CASE BesideStep \/ CaseRowStep
    <2>1. UNCHANGED <<works, quota>>
      BY <1>2, BesideSteps, CaseRowSteps
    <2>2. QED
      BY <2>1 DEF CyclesPaid
  <1>3. CASE OneRowStep
    <2>1. \A w \in Slots : works'[w].resTok = works[w].resTok /\ works'[w].kind = works[w].kind
      BY <1>3, OneRowResumed
    <2>2. Verifying(works') \subseteq Verifying(works) /\ Working(works') \subseteq Working(works)
      BY <2>1, SameResumed
    <2>3. UNCHANGED quota
      BY <1>3, OneRowSteps
    <2>4. QED
      BY <2>2, <2>3, SamePaid
  <1>4. CASE TableStep \/ PauseStep \/ \E t \in Threads : close(t)
    <2>1. \A w \in Slots : /\ works'[w].resTok = works[w].resTok
                           /\ works[w].status # "ABSENT" => works'[w].kind = works[w].kind
      BY <1>4, TableResumed DEF SameRow
    <2>2. Verifying(works') \subseteq Verifying(works) /\ Working(works') \subseteq Working(works)
      BY <2>1, SameResumed
    <2>3. QED
      BY <1>4, <2>2, QuotaKept, SamePaid
  <1>5. CASE ResumeStep
    BY <1>5, ResumePays DEF ResumeStep
  <1>6. QED
    BY <1>1, <1>2, <1>3, <1>4, <1>5, StepKinds

LEMMA PaidAlways == Spec => []CyclesPaid
  BY LifeAlways, InitPaid, NextPaid, PTL DEF Spec

LEMMA PaidBounded == LifeInv /\ CyclesPaid => CyclesBounded
  <1> SUFFICES ASSUME LifeInv, CyclesPaid PROVE CyclesBounded
    OBVIOUS
  <1>1. ResumedAs(TRUE) = Verifying(works)
    <2>1. \A w \in Slots : ((works[w].kind = "verify") = TRUE) <=> works[w].kind = "verify"
      OBVIOUS
    <2>2. QED
      BY <2>1 DEF ResumedAs, Verifying
  <1>2. ResumedAs(FALSE) = Working(works)
    <2>1. \A w \in Slots : ((works[w].kind = "verify") = FALSE) <=> works[w].kind # "verify"
      OBVIOUS
    <2>2. QED
      BY <2>1 DEF ResumedAs, Working
  <1>3. /\ quota.resumes \in Nat /\ quota.verifications \in Nat
        /\ quota.resumes <= MaxResumes /\ quota.verifications <= MaxVerifications
    BY NowTyped, BudgetAssumption DEF QuotaType
  <1>4. /\ Cardinality(Verifying(works)) <= MaxVerifications
        /\ Cardinality(Working(works)) <= MaxResumes
    BY <1>3, CountsAreNat, BudgetAssumption DEF CyclesPaid
  <1>5. QED
    BY <1>1, <1>2, <1>4 DEF CyclesBounded

(* Cycles leave nothing behind, for every budget and every interleaving:   *)
(* a work item is resumed only against a unit of its own quota, which no   *)
(* crash, redelivered claim or repeated escalation gives back, and the     *)
(* closure a cycle ends in leaves no open work, no outstanding read and no *)
(* effect in doubt.                                                        *)
THEOREM CyclesPaidFor == Spec => []CyclesAreAccounted
  <1>1. LifeInv /\ CyclesPaid /\ ClosedInv => CyclesAreAccounted
    BY PaidBounded DEF CyclesAreAccounted, ClosedInv
  <1>2. QED
    BY <1>1, LifeAlways, PaidAlways, ClosedAlways, PTL

-----------------------------------------------------------------------------
(* What a pause leaves to do                                               *)
(*                                                                         *)
(* The keys of work items keep new work from being taken for old: a        *)
(* decision is named after a revision the Case reaches only once, and a    *)
(* follow-up after a work item that ended with it.  So every pause writes  *)
(* a row of its own revision, and no transaction ends that row but one     *)
(* that moves the Case on.                                                 *)

KeyOK(r, c, ws) ==
  /\ r.kind # "recheck"
  /\ r.status # "ABSENT" =>
       /\ r.source[1] = "decision" => r.source[2] <= c.rev
       /\ r.source[1] = "work" => r.source[2] \in Slots /\ ws[r.source[2]].status \in Final

Keyed(c, ws) == \A w \in Slots : KeyOK(ws[w], c, ws)

(* Row r is open, was never resumed and fits Case c.                       *)
Waits(r, c) == Open(r) /\ r.expStatus = c.status /\ r.expRev = c.rev /\ r.resTok = 0

PauseOK(c, ws) == c.status \in {"WAITING", "ESCALATED"} => \E w \in Slots : Waits(ws[w], c)

NoLate == \A c \in CallIds : ~calls[c].late

(* A call is late only after it was answered, and calls are numbered as    *)
(* the budget is used.                                                     *)
CallsOK ==
  \A c \in CallIds : /\ calls[c].state # "FREE" => c <= case.used
                     /\ calls[c].late => calls[c].state = "OBSERVED"

WireOK == \A t \in Threads : OnTheWire(t) => job[t].call \in CallIds

PauseInv ==
  /\ effect.status = "NONE"
  /\ Keyed(case, works) /\ (NoLate => PauseOK(case, works))
  /\ CallsOK /\ WireOK

(* Ending a row that is stale or was resumed takes nothing away.           *)
LEMMA EndKeeps ==
  ASSUME NEW c, NEW ws \in [Slots -> WorkRows], Keyed(c, ws), NEW w \in Slots, ws[w].status # "ABSENT",
         NEW s \in Final, ~Waits(ws[w], c)
  PROVE  Keyed(c, Ends(ws, w, s)) /\ (PauseOK(c, ws) => PauseOK(c, Ends(ws, w, s)))
  <1>1. PICK r : r = [ws[w] EXCEPT !.status = s, !.live = FALSE]
    OBVIOUS
  <1>2. r.status = s /\ r.kind = ws[w].kind /\ r.source = ws[w].source
    BY <1>1 DEF WorkRows
  <1>3. PICK vs : vs = Ends(ws, w, s)
    OBVIOUS
  <1>4. \A v \in Slots : vs[v] = IF v = w THEN r ELSE ws[v]
    BY <1>1, <1>3 DEF Ends
  <1>5. \A v \in Slots : ws[v].status \in Final => vs[v].status \in Final
    BY <1>2, <1>4
  <1>6. ASSUME NEW v \in Slots
        PROVE  KeyOK(vs[v], c, vs)
    <2>1. KeyOK(ws[v], c, ws)
      BY DEF Keyed
    <2>2. vs[v].kind = ws[v].kind /\ vs[v].source = ws[v].source /\ (vs[v].status # "ABSENT" => ws[v].status # "ABSENT")
      BY <1>2, <1>4
    <2>3. QED
      BY <1>5, <2>1, <2>2 DEF KeyOK
  <1>7. \A v \in Slots : Waits(ws[v], c) => Waits(vs[v], c)
    BY <1>4
  <1>8. PauseOK(c, ws) => PauseOK(c, vs)
    BY <1>7 DEF PauseOK
  <1>9. QED
    BY <1>3, <1>6, <1>8 DEF Keyed

(* A row under a key that is none of a decision or a work item.            *)
PlainSource(source) == source[1] \notin {"decision", "work"}

LEMMA CreateKeeps ==
  ASSUME NEW c \in CaseType, NEW ws \in [Slots -> WorkRows], Keyed(c, ws), HasRoom(ws, 1),
         NEW kind \in WorkType, kind # "recheck", NEW source \in Sources, PlainSource(source), NEW due \in BOOLEAN
  PROVE  /\ Keyed(c, create_work(c, ws, kind, source, due))
         /\ PauseOK(c, ws) => PauseOK(c, create_work(c, ws, kind, source, due))
  <1>1. PICK vs : vs = create_work(c, ws, kind, source, due)
    OBVIOUS
  <1>2. PICK k \in Slots : k = NextSlot(ws) /\ ws[k].status = "ABSENT"
    BY NextSlotIsFree DEF Free
  <1>3. CASE vs = ws
    BY <1>1, <1>3
  <1>4. ASSUME NEW status \in {"CANCELED", "PENDING"}, NEW signal \in {"none", "needed"},
               NEW ripe \in BOOLEAN,
               vs = [ws EXCEPT ![k] = NewRow(c, kind, source, status, signal, ripe)]
        PROVE  Keyed(c, vs) /\ (PauseOK(c, ws) => PauseOK(c, vs))
    <2>1. PICK r : r = NewRow(c, kind, source, status, signal, ripe)
      OBVIOUS
    <2>2. r.kind = kind /\ r.source = source
      BY <2>1, NewRowOK
    <2>3. \A v \in Slots : vs[v] = IF v = k THEN r ELSE ws[v]
      BY <1>4, <2>1
    <2>4. \A v \in Slots : ws[v].status \in Final => vs[v].status \in Final
      BY <1>2, <2>3 DEF Final
    <2>5. ASSUME NEW v \in Slots
          PROVE  KeyOK(vs[v], c, vs)
      <3>1. KeyOK(ws[v], c, ws)
        BY DEF Keyed
      <3>2. CASE v = k
        BY <2>2, <2>3, <3>2 DEF KeyOK, PlainSource
      <3>3. CASE v # k
        BY <2>3, <2>4, <3>1, <3>3 DEF KeyOK
      <3>4. QED
        BY <3>2, <3>3
    <2>6. \A v \in Slots : Waits(ws[v], c) => Waits(vs[v], c)
      BY <1>2, <2>3 DEF Waits, Open
    <2>7. QED
      BY <2>5, <2>6 DEF Keyed, PauseOK
  <1>5. QED
    BY <1>1, <1>2, <1>3, <1>4, CreateIs

(* A row under a new key of its own revision.                              *)
LEMMA NewWorkWaits ==
  ASSUME NEW c \in CaseType, NEW ws \in [Slots -> WorkRows], Keyed(c, ws), HasRoom(ws, 1),
         NEW kind \in WorkType, kind # "recheck", NEW source \in Sources, NEW due \in BOOLEAN,
         KeyOK(NewRow(c, kind, source, "PENDING", "none", TRUE), c, ws),
         \A w \in Slots : ws[w].status = "ABSENT" \/ ws[w].kind # kind \/ ws[w].source # source,
         c.status # "CLOSED_VERIFIED"
  PROVE  /\ Keyed(c, create_work(c, ws, kind, source, due))
         /\ PauseOK(c, create_work(c, ws, kind, source, due))
  <1>1. PICK vs : vs = create_work(c, ws, kind, source, due)
    OBVIOUS
  <1>2. PICK k \in Slots : k = NextSlot(ws) /\ ws[k].status = "ABSENT"
    BY NextSlotIsFree DEF Free
  <1>3. PICK signal \in {"none", "needed"} : signal = IF NeedsSignal(c, kind) THEN "needed" ELSE "none"
    OBVIOUS
  <1>4. PICK ripe \in BOOLEAN : ripe = (due /\ ~WaitsForTimer(c, ws, kind))
    OBVIOUS
  <1>5. PICK r : r = NewRow(c, kind, source, "PENDING", signal, ripe)
    OBVIOUS
  <1>6. vs = [ws EXCEPT ![k] = r]
    BY <1>1, <1>2, <1>3, <1>4, <1>5 DEF create_work, NewRow
  <1>7. r.kind = kind /\ r.source = source /\ Waits(r, c)
    BY <1>5 DEF NewRow, Waits, Open
  <1>8. \A v \in Slots : vs[v] = IF v = k THEN r ELSE ws[v]
    BY <1>6
  <1>9. \A v \in Slots : ws[v].status \in Final => vs[v].status \in Final
    BY <1>2, <1>8 DEF Final
  <1>10. KeyOK(r, c, ws)
    BY <1>5 DEF NewRow, KeyOK
  <1>11. ASSUME NEW v \in Slots
         PROVE  KeyOK(vs[v], c, vs)
    <2>1. KeyOK(vs[v], c, ws)
      BY <1>8, <1>10 DEF Keyed
    <2>2. QED
      BY <1>9, <2>1 DEF KeyOK
  <1>12. QED
    BY <1>1, <1>2, <1>7, <1>8, <1>11 DEF Keyed, PauseOK

(* A later revision leaves the keys in order.                              *)
LEMMA KeyedLater ==
  ASSUME NEW c \in CaseType, NEW e \in CaseType, c.rev <= e.rev, NEW ws \in [Slots -> WorkRows], Keyed(c, ws)
  PROVE  Keyed(e, ws)
  <1>1. ASSUME NEW w \in Slots PROVE KeyOK(ws[w], e, ws)
    <2>1. KeyOK(ws[w], c, ws)
      BY DEF Keyed
    <2>2. c.rev \in Nat /\ e.rev \in Nat /\ (ws[w].source[1] = "decision" => ws[w].source[2] \in Nat)
      BY DEF CaseType, WorkRows, Sources
    <2>3. QED
      BY <2>1, <2>2 DEF KeyOK
  <1>2. QED
    BY <1>1 DEF Keyed

(* A claimed row ends and the Case is escalated on its behalf.             *)
LEMMA EscalationKeeps ==
  ASSUME NEW c \in CaseType, NEW ws \in [Slots -> WorkRows], Keyed(c, ws), HasRoom(ws, 1),
         c.status # "CLOSED_VERIFIED", NEW w \in Slots, ws[w].status = "CLAIMED", NEW s \in Final
  PROVE  LET d == escalate_in(Db(c, Ends(ws, w, s)), <<"work", w>>)
         IN  Keyed(d.case, d.works) /\ PauseOK(d.case, d.works)
  <1>1. PICK vs : vs = Ends(ws, w, s)
    OBVIOUS
  <1>2. PICK r : r = [ws[w] EXCEPT !.status = s, !.live = FALSE]
    OBVIOUS
  <1>3. r \in WorkRows /\ r.status = s /\ r.kind = ws[w].kind /\ r.source = ws[w].source
    BY <1>2 DEF WorkRows, WorkStatus, Final
  <1>4. vs \in [Slots -> WorkRows] /\ \A v \in Slots : vs[v] = IF v = w THEN r ELSE ws[v]
    BY <1>1, <1>2, <1>3 DEF Ends
  <1>5. PICK e : e = [c EXCEPT !.status = "ESCALATED", !.rev = @ + 1]
    OBVIOUS
  <1>6. e \in CaseType /\ e.status = "ESCALATED" /\ e.rev = c.rev + 1 /\ c.rev <= e.rev
    <2>1. e \in CaseType /\ e.status = "ESCALATED" /\ e.rev = c.rev + 1
      BY <1>5, CaseSteps DEF CaseStatus
    <2>2. QED
      BY <2>1 DEF CaseType
  <1>7. Keyed(e, ws)
    BY <1>6, KeyedLater
  <1>8. ASSUME NEW v \in Slots PROVE KeyOK(vs[v], e, vs)
    <2>1. KeyOK(ws[v], e, ws)
      BY <1>7 DEF Keyed
    <2>2. vs[v].kind = ws[v].kind /\ vs[v].source = ws[v].source /\ (vs[v].status # "ABSENT" => ws[v].status # "ABSENT")
      BY <1>3, <1>4
    <2>3. \A x \in Slots : ws[x].status \in Final => vs[x].status \in Final
      BY <1>3, <1>4
    <2>4. QED
      BY <2>1, <2>2, <2>3 DEF KeyOK
  <1>9. Keyed(e, vs)
    BY <1>8 DEF Keyed
  <1>10. PICK source \in Sources : source = <<"work", w>>
    BY SourcesAre
  <1>11. \A v \in Slots : vs[v].status = "ABSENT" \/ vs[v].kind # "followup" \/ vs[v].source # source
    <2>1. SUFFICES ASSUME NEW v \in Slots, vs[v].status # "ABSENT", vs[v].source = source PROVE FALSE
      OBVIOUS
    <2>2. ws[v].status # "ABSENT" /\ ws[v].source[1] = "work" /\ ws[v].source[2] = w
      BY <1>3, <1>4, <1>10, <2>1
    <2>3. ws[w].status \in Final
      BY <1>7, <2>2 DEF Keyed, KeyOK
    <2>4. QED
      BY <2>3 DEF Final
  <1>12. HasRoom(vs, 1)
    <2>1. Free(ws) \subseteq Free(vs)
      BY <1>4 DEF Free
    <2>2. QED
      BY <2>1, SameRoom
  <1>13. KeyOK(NewRow(e, "followup", source, "PENDING", "none", TRUE), e, vs)
    BY <1>3, <1>4, <1>10 DEF NewRow, KeyOK
  <1>14. PICK done : done = create_work(e, vs, "followup", source, TRUE)
    OBVIOUS
  <1>15. Keyed(e, done) /\ PauseOK(e, done)
    BY <1>4, <1>6, <1>9, <1>11, <1>12, <1>13, <1>14, NewWorkWaits DEF WorkType
  <1>16. escalate_in(Db(c, vs), <<"work", w>>) = Db(e, done)
    BY <1>5, <1>10, <1>14, DbParts DEF escalate_in
  <1>17. QED
    BY <1>1, <1>15, <1>16, DbParts


-----------------------------------------------------------------------------
(* The transactions that end or create work, without an effect             *)

(* From (c, ws) to the next Case row and table.                            *)
Steady(c, ws, e, vs) == Keyed(e, vs) /\ (PauseOK(c, ws) => PauseOK(e, vs))

LEMMA SteadyTransitive ==
  ASSUME NEW c, NEW ws, NEW e, NEW vs, NEW f, NEW us, Steady(c, ws, e, vs), Steady(e, vs, f, us)
  PROVE  Steady(c, ws, f, us)
  BY DEF Steady

LEMMA RouteOneKeeps ==
  ASSUME NEW d, Lawful(d), Keyed(d.case, d.works), NEW routes, NEW route, NEW n \in Nat,
         HasRoom(d.works, n + Asked(routes, route)),
         NEW kind \in {"followup", "verify"}, NEW w \in Slots
  PROVE  LET e == RouteOne(d, routes, route, kind, w) IN
         Steady(d.case, d.works, e.case, e.works) /\ Lawful(e) /\ HasRoom(e.works, n)
  <1>0. kind \in WorkType
    BY DEF WorkType
  <1>1. PICK e : e = RouteOne(d, routes, route, kind, w)
    OBVIOUS
  <1>2. Lawful(e) /\ HasRoom(e.works, n)
    BY <1>0, <1>1, RouteOneGrows, GrowsLawful
  <1>3. CASE route \notin routes
    <2>1. e = d
      BY <1>1, <1>3 DEF RouteOne
    <2>2. QED
      BY <1>1, <1>2, <2>1 DEF Steady
  <1>4. CASE route \in routes
    <2>1. PICK due \in BOOLEAN : due = (kind = "followup")
      OBVIOUS
    <2>2. PICK source \in Sources : source = <<"report", w>>
      BY SourcesAre
    <2>3. e = Db(d.case, create_work(d.case, d.works, kind, source, due))
      BY <1>1, <1>4, <2>1, <2>2 DEF RouteOne
    <2>4. HasRoom(d.works, 1)
      <3>1. HasRoom(d.works, n + 1)
        BY <1>4 DEF Asked
      <3>2. QED
        BY <3>1, FreeFinite DEF HasRoom
    <2>5. PlainSource(source) /\ kind # "recheck"
      BY <2>2 DEF PlainSource
    <2>6. d.case \in CaseType /\ d.works \in [Slots -> WorkRows]
      BY DEF Lawful
    <2>7. PICK vs : vs = create_work(d.case, d.works, kind, source, due)
      OBVIOUS
    <2>8. Keyed(d.case, vs) /\ (PauseOK(d.case, d.works) => PauseOK(d.case, vs))
      BY <1>0, <2>4, <2>5, <2>6, <2>7, CreateKeeps
    <2>9. e.case = d.case /\ e.works = vs
      BY <2>3, <2>7, DbParts
    <2>10. QED
      BY <1>1, <1>2, <2>8, <2>9 DEF Steady
  <1>5. QED
    BY <1>3, <1>4

LEMMA RouteAllKeeps ==
  ASSUME LifeInv, effect.status = "NONE", Keyed(case, works), NEW w \in Slots,
         NEW routes \in SUBSET Routes, Room(Cardinality(routes))
  PROVE  LET e == RouteAll(w, routes) IN Steady(case, works, e.case, e.works)
  <1>1. PICK a \in Nat, f \in Nat, v \in Nat :
          a = Asked(routes, "early") /\ f = Asked(routes, "followup") /\ v = Asked(routes, "verify")
    BY DEF Asked
  <1>2. PICK d : d = Db(case, works)
    OBVIOUS
  <1>3. Lawful(d) /\ d.case = case /\ d.works = works
    BY <1>2, TypedNow
  <1>4. HasRoom(d.works, (v + f) + a)
    <2>1. Cardinality(routes) = (v + f) + a
      BY <1>1, RoutesCounted
    <2>2. QED
      BY <1>3, <2>1 DEF Room, HasRoom
  <1>5. PICK early : early = RouteOne(d, routes, "early", "followup", w)
    OBVIOUS
  <1>6. PICK late : late = RouteOne(early, routes, "followup", "followup", w)
    OBVIOUS
  <1>7. PICK last : last = RouteOne(late, routes, "verify", "verify", w)
    OBVIOUS
  <1>8. RouteEffect(early) = early
    BY DEF RouteEffect, RECOVERABLE
  <1>9. RouteAll(w, routes) = last
    BY <1>2, <1>5, <1>6, <1>7, <1>8 DEF RouteAll
  <1>10. Steady(d.case, d.works, early.case, early.works) /\ Lawful(early) /\ HasRoom(early.works, v + f)
    <2>1. v + f \in Nat
      OBVIOUS
    <2>2. QED
      BY <1>1, <1>3, <1>4, <1>5, <2>1, RouteOneKeeps
  <1>11. Steady(early.case, early.works, late.case, late.works) /\ Lawful(late) /\ HasRoom(late.works, v)
    BY <1>1, <1>6, <1>10, RouteOneKeeps DEF Steady
  <1>12. Steady(late.case, late.works, last.case, last.works)
    <2>1. HasRoom(late.works, 0 + v)
      BY <1>11
    <2>2. QED
      BY <1>1, <1>7, <1>11, <2>1, RouteOneKeeps DEF Steady
  <1>13. Steady(case, works, last.case, last.works)
    BY <1>3, <1>10, <1>11, <1>12, SteadyTransitive
  <1>14. QED
    BY <1>9, <1>13


(* The step is such a transaction.                                         *)
SteadyStep == Steady(case, works, case', works')

LEMMA CommitSteady ==
  ASSUME NEW c, NEW ws, Commit(Db(c, ws)), Steady(case, works, c, ws)
  PROVE  SteadyStep
  <1>1. case' = c /\ works' = ws
    BY DbParts DEF Commit
  <1>2. QED
    BY <1>1 DEF SteadyStep

LEMMA EndSteady ==
  ASSUME LifeInv, Keyed(case, works), NEW w \in Slots, works[w].status # "ABSENT", NEW s \in Final,
         ~Waits(works[w], case), case' = case, works' = Ends(works, w, s)
  PROVE  SteadyStep
  <1>1. works \in [Slots -> WorkRows]
    BY TypedNow
  <1>2. PICK vs : vs = Ends(works, w, s)
    OBVIOUS
  <1>3. Steady(case, works, case, vs)
    BY <1>1, <1>2, EndKeeps DEF Steady
  <1>4. QED
    BY <1>2, <1>3 DEF SteadyStep

LEMMA EscalationSteady ==
  ASSUME LifeInv, Keyed(case, works), NEW w \in Slots, works[w].status = "CLAIMED", NEW s \in Final,
         ~Terminal, Room(1), Commit(escalate_in(Db(case, Ends(works, w, s)), <<"work", w>>))
  PROVE  SteadyStep
  <1>1. works \in [Slots -> WorkRows] /\ case \in CaseType /\ HasRoom(works, 1)
    BY TypedNow, RoomNow
  <1>2. PICK d : d = escalate_in(Db(case, Ends(works, w, s)), <<"work", w>>)
    OBVIOUS
  <1>3. Keyed(d.case, d.works) /\ PauseOK(d.case, d.works)
    BY <1>1, <1>2, EscalationKeeps DEF Terminal
  <1>4. case' = d.case /\ works' = d.works
    BY <1>2 DEF Commit
  <1>5. QED
    BY <1>3, <1>4 DEF SteadyStep, Steady

LEMMA finishSteady ==
  ASSUME LifeInv, Keyed(case, works), NEW t \in Threads, NEW progress \in BOOLEAN, finish(t, progress)
  PROVE  SteadyStep
  <1>1. PICK w : w = job[t].w
    OBVIOUS
  <1>2. PICK d : d = Db(case, Ends(works, w, "COMPLETED"))
    OBVIOUS
  <1>3. /\ job[t].pc = "finish" /\ Owned(t) /\ ~Terminal /\ Room(1)
        /\ Commit(escalate_in(d, <<"work", w>>)) \/ Commit(d)
    BY <1>1, <1>2 DEF finish, Current
  <1>4. w \in Slots /\ works[w].status = "CLAIMED"
    BY <1>1, <1>3, OwnedIs
  <1>5. works[w].resTok # 0
    BY <1>1, <1>3, TypedNow DEF ThreadOK, PcOK
  <1>6. CASE Commit(d)
    <2>1. case' = case /\ works' = Ends(works, w, "COMPLETED")
      BY <1>2, <1>6, DbParts DEF Commit
    <2>2. QED
      BY <1>4, <1>5, <2>1, EndSteady DEF Final, Waits
  <1>7. CASE Commit(escalate_in(d, <<"work", w>>))
    BY <1>2, <1>3, <1>4, <1>7, EscalationSteady DEF Final
  <1>8. QED
    BY <1>3, <1>6, <1>7

LEMMA consumeSteady ==
  ASSUME LifeInv, effect.status = "NONE", Keyed(case, works), NEW t \in Threads,
         NEW routes \in SUBSET Routes, consume(t, routes)
  PROVE  SteadyStep
  <1>1. PICK w : w = job[t].w
    OBVIOUS
  <1>2. PICK b \in BOOLEAN : b = TRUE
    OBVIOUS
  <1>3. PICK vs : vs = create_work(case, works, "followup", <<"report", w>>, b)
    OBVIOUS
  <1>4. /\ job[t].pc = "handoff"
        /\ SpareRoom(Cardinality(routes) + 0)
        /\ (routes = {"followup"} /\ Commit(Db(case, vs))) \/ Commit(RouteAll(w, routes))
    BY <1>1, <1>2, <1>3 DEF consume, RECOVERABLE
  <1>5. w \in Slots
    BY <1>1, <1>4, TypedNow DEF ThreadOK, PcOK
  <1>6. Cardinality(routes) \in Nat /\ Room(Cardinality(routes))
    <2>1. PICK n : n = Cardinality(routes)
      OBVIOUS
    <2>2. n \in Nat
      BY <2>1, RoutesCounted DEF Asked
    <2>3. SpareRoom(n)
      BY <1>4, <2>1, <2>2
    <2>4. QED
      BY <2>1, <2>2, <2>3, RoomNow
  <1>7. CASE Commit(RouteAll(w, routes))
    <2>1. PICK e : e = RouteAll(w, routes)
      OBVIOUS
    <2>2. Steady(case, works, e.case, e.works)
      BY <1>5, <1>6, <2>1, RouteAllKeeps
    <2>3. QED
      BY <1>7, <2>1, <2>2 DEF Commit, SteadyStep
  <1>8. CASE routes = {"followup"} /\ Commit(Db(case, vs))
    <2>1. Cardinality(routes) = 1
      BY <1>8, RoutesCounted DEF Asked
    <2>2. HasRoom(works, 1)
      BY <1>6, <2>1 DEF Room, HasRoom
    <2>3. PICK source \in Sources : source = <<"report", w>>
      BY <1>5, SourcesAre
    <2>4. PlainSource(source)
      BY <2>3 DEF PlainSource
    <2>5. works \in [Slots -> WorkRows] /\ case \in CaseType /\ "followup" \in WorkType
      BY TypedNow DEF WorkType
    <2>6. Steady(case, works, case, vs)
      BY <1>3, <2>2, <2>3, <2>4, <2>5, CreateKeeps DEF Steady
    <2>7. QED
      BY <1>8, <2>6, CommitSteady
  <1>9. QED
    BY <1>4, <1>7, <1>8

LEMMA TableSteady ==
  ASSUME LifeInv, effect.status = "NONE", Keyed(case, works), TableStep
  PROVE  SteadyStep /\ UNCHANGED <<calls, effect>>
  <1>0. ~EnsureRecheck /\ \A status \in EffectStatus : ~EffectMoves(status)
    BY DEF EnsureRecheck, EffectMoves, RECOVERABLE
  <1>1. ASSUME NEW w \in Slots, poll_due_work(w) PROVE SteadyStep
    <2>1. works[w].kind # "recheck"
      BY DEF Keyed, KeyOK
    <2>2. works[w].status = "PENDING" /\ Stale(works[w]) /\ Commit(Db(case, Ends(works, w, "CANCELED")))
      BY <1>1, <2>1 DEF poll_due_work
    <2>3. case' = case /\ works' = Ends(works, w, "CANCELED")
      BY <2>2, DbParts DEF Commit
    <2>4. QED
      BY <2>2, <2>3, EndSteady DEF Final, Waits, Stale
  <1>2. ASSUME NEW t \in Threads, NEW progress \in BOOLEAN,
               Interrupt(t) \/ VerifyBlocks(t) \/ ResumeBlocks(t, progress)
        PROVE  SteadyStep
    <2>1. Owned(t) /\ ~Terminal /\ Room(1) /\ Commit(BlockAndEscalate(job[t].w))
      BY <1>2 DEF Interrupt, VerifyBlocks, ResumeBlocks, Current
    <2>2. PICK w : w = job[t].w
      OBVIOUS
    <2>3. w \in Slots /\ works[w].status = "CLAIMED"
      BY <2>1, <2>2, OwnedIs
    <2>4. Commit(escalate_in(Db(case, Ends(works, w, "BLOCKED")), <<"work", w>>))
      BY <2>1, <2>2 DEF BlockAndEscalate
    <2>5. QED
      BY <2>1, <2>3, <2>4, EscalationSteady DEF Final
  <1>3. ASSUME NEW t \in Threads, GoesStale(t) PROVE SteadyStep
    <2>1. Owned(t) /\ Stale(Mine(t)) /\ case' = case /\ works' = Ends(works, job[t].w, "CANCELED")
      BY <1>3 DEF GoesStale, Current
    <2>2. PICK w : w = job[t].w
      OBVIOUS
    <2>3. w \in Slots /\ works[w].status = "CLAIMED" /\ Stale(works[w]) /\ works' = Ends(works, w, "CANCELED")
      BY <2>1, <2>2, OwnedIs
    <2>4. QED
      BY <2>1, <2>3, EndSteady DEF Final, Waits, Stale
  <1>4. ASSUME NEW t \in Threads, NEW progress \in BOOLEAN, NEW limit \in BOOLEAN,
               RecheckEnds(t, progress, limit)
        PROVE  FALSE
    <2>1. job[t].pc = "recheck" /\ Owned(t)
      BY <1>4 DEF RecheckEnds, Current
    <2>2. job[t].w \in Slots /\ works[job[t].w].kind = "recheck"
      BY <2>1, OwnedIs, TypedNow DEF ThreadOK, PcOK
    <2>3. QED
      BY <2>2 DEF Keyed, KeyOK
  <1>5. PICK b \in BOOLEAN : b = TRUE
    OBVIOUS
  <1>6. SteadyStep
    BY <1>0, <1>1, <1>2, <1>3, <1>4, <1>5, finishSteady, consumeSteady DEF TableStep
  <1>7. UNCHANGED <<calls, effect>>
    BY <1>0 DEF TableStep, poll_due_work, Interrupt, VerifyBlocks, GoesStale, ResumeBlocks, finish,
           RecheckEnds, consume
  <1>8. QED
    BY <1>6, <1>7


-----------------------------------------------------------------------------
(* The other steps                                                         *)

(* Every pause writes a row under its own revision.                        *)
LEMMA PauseSteady ==
  ASSUME LifeInv, Keyed(case, works), PauseStep
  PROVE  SteadyStep /\ UNCHANGED <<calls, effect>>
  <1>1. PICK t \in Threads, status \in {"WAITING", "ESCALATED"} : pause_if_current(t, status)
    BY DEF PauseStep
  <1>2. PICK to \in {"WAITING", "ESCALATED"} :
          to = IF status = "WAITING" /\ quota.resumes >= MaxResumes THEN "ESCALATED" ELSE status
    OBVIOUS
  <1>3. PICK c : c = [case EXCEPT !.status = to, !.rev = @ + 1]
    OBVIOUS
  <1>4. PICK kind \in {"resume", "followup"} : kind = IF c.status = "WAITING" THEN "resume" ELSE "followup"
    OBVIOUS
  <1>5. PICK due \in BOOLEAN : due = (kind = "followup")
    OBVIOUS
  <1>6. /\ Commit(Db(c, create_work(c, works, kind, <<"decision", c.rev>>, due)))
        /\ Room(1) \/ SpareRoom(1)
        /\ UNCHANGED <<calls, effect>>
    BY <1>1, <1>2, <1>3, <1>4, <1>5 DEF pause_if_current
  <1>7. c \in CaseType /\ c.status = to /\ c.rev = case.rev + 1 /\ c.rev \in Nat /\ case.rev \in Nat
    <2>1. to \in CaseStatus /\ case \in CaseType
      BY TypedNow DEF CaseStatus
    <2>2. c \in CaseType /\ c.status = to /\ c.rev = case.rev + 1
      <3> DEFINE x == [case EXCEPT !.status = to, !.rev = @ + 1]
      <3>1. x \in CaseType /\ x.status = to /\ x.rev = case.rev + 1
        BY <2>1, Zenon, NextStatus
      <3>2. c = x
        BY <1>3
      <3> HIDE DEF x
      <3>3. QED
        BY <3>1, <3>2
    <2>3. QED
      BY <2>2, TypedNow DEF CaseType
  <1>8. PICK source \in Sources : source = <<"decision", c.rev>>
    BY <1>7, SourcesAre
  <1>9. works \in [Slots -> WorkRows] /\ HasRoom(works, 1) /\ kind \in WorkType /\ kind # "recheck"
    BY <1>6, TypedNow, RoomNow DEF WorkType
  <1>10. Keyed(c, works)
    <2>1. case \in CaseType /\ case.rev <= c.rev
      BY <1>7, TypedNow
    <2>2. QED
      BY <1>7, <1>9, <2>1, KeyedLater
  <1>11. \A w \in Slots : works[w].status = "ABSENT" \/ works[w].kind # kind \/ works[w].source # source
    <2>1. SUFFICES ASSUME NEW w \in Slots, works[w].status # "ABSENT", works[w].source = source PROVE FALSE
      OBVIOUS
    <2>2. works[w].source[1] = "decision" /\ works[w].source[2] = c.rev
      BY <1>8, <2>1
    <2>3. c.rev <= case.rev
      BY <2>1, <2>2 DEF Keyed, KeyOK
    <2>4. QED
      BY <1>7, <2>3
  <1>12. KeyOK(NewRow(c, kind, source, "PENDING", "none", TRUE), c, works)
    BY <1>7, <1>8, <1>9 DEF NewRow, KeyOK
  <1>13. c.status # "CLOSED_VERIFIED"
    BY <1>7
  <1>14. PICK vs : vs = create_work(c, works, kind, source, due)
    OBVIOUS
  <1>15. Keyed(c, vs) /\ PauseOK(c, vs)
    BY <1>7, <1>9, <1>10, <1>11, <1>12, <1>13, <1>14, NewWorkWaits
  <1>16. case' = c /\ works' = vs
    BY <1>6, <1>8, <1>14, DbParts DEF Commit
  <1>17. QED
    BY <1>6, <1>15, <1>16 DEF SteadyStep, Steady

(* A row keeps what its key and its wait depend on.                        *)
RowKept(r, s) ==
  /\ s.kind = r.kind /\ s.source = r.source /\ s.expStatus = r.expStatus
  /\ s.status = r.status \/ (Open(r) /\ s.status \in WorkStatus \ {"ABSENT"})

LEMMA KeptKeys ==
  ASSUME NEW c \in CaseType, NEW e \in CaseType, c.rev <= e.rev, NEW ws \in [Slots -> WorkRows], NEW vs,
         Keyed(c, ws), \A w \in Slots : RowKept(ws[w], vs[w])
  PROVE  Keyed(e, vs)
  <1>1. Keyed(e, ws)
    BY KeyedLater
  <1>2. \A w \in Slots : ws[w].status \in Final => vs[w].status \in Final
    BY DEF RowKept, Open, Final
  <1>3. ASSUME NEW w \in Slots PROVE KeyOK(vs[w], e, vs)
    <2>1. KeyOK(ws[w], e, ws) /\ RowKept(ws[w], vs[w])
      BY <1>1 DEF Keyed
    <2>2. vs[w].kind = ws[w].kind /\ vs[w].source = ws[w].source /\ (vs[w].status # "ABSENT" => ws[w].status # "ABSENT")
      BY <2>1 DEF RowKept, Open
    <2>3. QED
      BY <1>2, <2>1, <2>2 DEF KeyOK
  <1>4. QED
    BY <1>3 DEF Keyed

(* A resumed Case is not paused.                                           *)
LEMMA ResumeSteady ==
  ASSUME LifeInv, Keyed(case, works), ResumeStep
  PROVE  SteadyStep /\ UNCHANGED <<calls, effect>>
  <1>1. PICK t \in Threads, progress \in BOOLEAN : ResumeCommits(t, progress)
    BY DEF ResumeStep
  <1>2. /\ Owned(t) /\ UNCHANGED <<calls, effect>>
        /\ case' = [case EXCEPT !.status = "INVESTIGATING", !.rev = @ + 1]
        /\ works' = [works EXCEPT ![job[t].w].resTok = job[t].tok]
    BY <1>1 DEF ResumeCommits, Current
  <1>3. case' \in CaseType /\ case'.status = "INVESTIGATING" /\ case.rev <= case'.rev
    BY <1>2, NextStatus DEF CaseStatus
  <1>4. \A w \in Slots : RowKept(works[w], works'[w])
    <2>1. works \in [Slots -> WorkRows] /\ job[t].w \in Slots
      BY <1>2, TypedNow, OwnedIs
    <2>2. PICK r : r = [works[job[t].w] EXCEPT !.resTok = job[t].tok]
      OBVIOUS
    <2>3. \A w \in Slots : works'[w] = IF w = job[t].w THEN r ELSE works[w]
      BY <1>2, <2>1, <2>2
    <2>4. RowKept(works[job[t].w], r)
      BY <2>1, <2>2 DEF RowKept, WorkRows
    <2>5. QED
      BY <2>3, <2>4 DEF RowKept
  <1>5. case \in CaseType /\ works \in [Slots -> WorkRows]
    BY TypedNow
  <1>6. Keyed(case', works')
    BY <1>3, <1>4, <1>5, KeptKeys
  <1>7. QED
    BY <1>2, <1>3, <1>6 DEF SteadyStep, Steady, PauseOK

LEMMA CloseSteady ==
  ASSUME LifeInv, Keyed(case, works), NEW t \in Threads, close(t)
  PROVE  SteadyStep /\ UNCHANGED <<calls, effect>>
  <1>1. UNCHANGED <<calls, effect>>
    BY DEF close
  <1>2. CASE UNCHANGED <<case, works>>
    BY <1>1, <1>2 DEF SteadyStep, Steady
  <1>3. CASE Commit(Db([case EXCEPT !.status = "CLOSED_VERIFIED", !.rev = @ + 1], cancel_terminal_work(works)))
    <2>1. case' = [case EXCEPT !.status = "CLOSED_VERIFIED", !.rev = @ + 1] /\ works' = cancel_terminal_work(works)
      BY <1>3, DbParts DEF Commit
    <2>2. case' \in CaseType /\ case'.status = "CLOSED_VERIFIED" /\ case.rev <= case'.rev
      BY <2>1, NextStatus DEF CaseStatus
    <2>3. case \in CaseType /\ works \in [Slots -> WorkRows]
      BY TypedNow
    <2>4. ASSUME NEW w \in Slots
          PROVE  /\ works'[w].kind = works[w].kind /\ works'[w].source = works[w].source
                 /\ works[w].status \in Final => works'[w].status \in Final
                 /\ works'[w].status # "ABSENT" => works[w].status # "ABSENT"
      <3>1. PICK r : r = [works[w] EXCEPT !.status = "CANCELED", !.live = FALSE]
        OBVIOUS
      <3>2. r.kind = works[w].kind /\ r.source = works[w].source /\ r.status = "CANCELED"
        BY <2>3, <3>1 DEF WorkRows
      <3>3. works'[w] = IF Open(works[w]) \/ works[w].status = "BLOCKED" THEN r ELSE works[w]
        <4>1. cancel_terminal_work(works)[w] = IF Open(works[w]) \/ works[w].status = "BLOCKED" THEN r ELSE works[w]
          BY <3>1 DEF cancel_terminal_work
        <4>2. QED
          BY <2>1, <4>1
      <3>4. QED
        BY <3>2, <3>3 DEF Final, Open
    <2>5. Keyed(case', works)
      BY <2>2, <2>3, KeyedLater
    <2>6. Keyed(case', works')
      BY <2>4, <2>5 DEF Keyed, KeyOK
    <2>7. QED
      BY <1>1, <2>2, <2>6 DEF SteadyStep, Steady, PauseOK
  <1>4. QED
    BY <1>2, <1>3 DEF close


-----------------------------------------------------------------------------
(* Calls                                                                   *)

LateStays == \A c \in CallIds : calls[c].late => calls'[c].late

LEMMA FirstReadIs ==
  ASSUME LifeInv, NEW t \in Threads, job[t].reads # {}
  PROVE  FirstRead(t) \in CallIds
  <1>1. job[t].reads \in SUBSET CallIds /\ CallIds \subseteq Nat
    BY TypedNow, BudgetAssumption DEF JobRows, CallIds
  <1>2. \E c \in job[t].reads : \A d \in job[t].reads : c <= d
    BY <1>1, LeastOf
  <1>3. QED
    BY <1>1, <1>2 DEF FirstRead

LEMMA SameCalls ==
  ASSUME LifeInv, CallsOK, case' \in CaseType, case.used <= case'.used, UNCHANGED calls
  PROVE  CallsOK' /\ LateStays
  <1>1. case.used \in Nat /\ case'.used \in Nat /\ CallIds \subseteq Nat
    BY TypedNow, BudgetAssumption DEF CaseType, CallIds
  <1>2. QED
    BY <1>1 DEF CallsOK, LateStays

LEMMA PutCall ==
  ASSUME LifeInv, CallsOK, case' \in CaseType, case.used <= case'.used,
         NEW c \in CallIds, NEW r, calls' = [calls EXCEPT ![c] = r],
         r.state # "FREE" => c <= case'.used, r.late => r.state = "OBSERVED", calls[c].late => r.late
  PROVE  CallsOK' /\ LateStays /\ calls'[c] = r
  <1>1. case.used \in Nat /\ case'.used \in Nat /\ CallIds \subseteq Nat /\ calls \in [CallIds -> CallRows]
    BY TypedNow, NowTyped, BudgetAssumption DEF CaseType, CallIds
  <1>2. \A d \in CallIds : calls'[d] = IF d = c THEN r ELSE calls[d]
    BY <1>1
  <1>3. \A d \in CallIds : /\ calls'[d].state # "FREE" => d <= case'.used
                           /\ calls'[d].late => calls'[d].state = "OBSERVED"
    BY <1>1, <1>2 DEF CallsOK
  <1>4. QED
    BY <1>2, <1>3 DEF CallsOK, LateStays

LEMMA RevisionOnly ==
  ASSUME LifeInv, case' = [case EXCEPT !.rev = @ + 1]
  PROVE  /\ case' \in CaseType /\ case.used <= case'.used /\ case.rev <= case'.rev
         /\ case'.rev = case.rev + 1 /\ case'.status = case.status /\ case'.used = case.used
  <1>1. case \in CaseType /\ case.used \in Nat
    BY TypedNow, BudgetAssumption DEF CaseType
  <1>2. case'.used = case.used
    BY <1>1 DEF CaseType
  <1>3. QED
    BY <1>1, <1>2, NextRevision

LEMMA PublishCall ==
  ASSUME LifeInv, CallsOK, NEW c \in CallIds, NEW b \in BOOLEAN, calls[c].state \in {"DISPATCHED", "ERROR"},
         calls' = [calls EXCEPT ![c].state = "OBSERVED", ![c].late = b],
         case' = [case EXCEPT !.rev = @ + 1]
  PROVE  CallsOK' /\ LateStays /\ (b => calls'[c].late)
  <1>1. calls \in [CallIds -> CallRows]
    BY NowTyped
  <1>2. PICK r : r = [calls[c] EXCEPT !.state = "OBSERVED", !.late = b]
    OBVIOUS
  <1>3. r.state = "OBSERVED" /\ r.late = b
    BY <1>1, <1>2 DEF CallRows
  <1>4. calls' = [calls EXCEPT ![c] = r]
    BY <1>1, <1>2
  <1>5. case' \in CaseType /\ case.used <= case'.used /\ case'.used = case.used
    BY RevisionOnly
  <1>6. c <= case'.used /\ ~calls[c].late
    BY <1>5 DEF CallsOK
  <1>7. CallsOK' /\ LateStays /\ calls'[c] = r
    BY <1>3, <1>4, <1>5, <1>6, PutCall
  <1>8. QED
    BY <1>3, <1>7


(* What one step keeps of the calls, and of the Case row and the table.    *)
CallsStep == CallsOK' /\ LateStays

TableOK == Keyed(case, works) /\ (NoLate => PauseOK(case, works))

LEMMA SteadyKeeps ==
  ASSUME TableOK, SteadyStep, LateStays
  PROVE  TableOK'
  <1>1. NoLate' => NoLate
    BY DEF NoLate, LateStays
  <1>2. QED
    BY <1>1 DEF TableOK, SteadyStep, Steady

LEMMA SameSteady ==
  ASSUME Keyed(case, works), UNCHANGED <<case, works>>
  PROVE  SteadyStep
  BY DEF SteadyStep, Steady

LEMMA BesideCalls ==
  ASSUME LifeInv, CallsOK, WireOK, BesideStep
  PROVE  CallsStep
  <1>1. case' = case /\ case' \in CaseType /\ case.used <= case'.used /\ calls \in [CallIds -> CallRows]
    <2>1. case' = case /\ case \in CaseType
      BY BesideSteps, TypedNow
    <2>2. QED
      BY <2>1, NowTyped, BudgetAssumption DEF CaseType
  <1>2. CASE UNCHANGED calls
    BY <1>1, <1>2, SameCalls DEF CallsStep
  <1>3. ASSUME NEW t \in Threads, mark_error(t) PROVE CallsStep
    <2>1. PICK c : c = job[t].call
      OBVIOUS
    <2>2. c \in CallIds
      BY <1>3, <2>1 DEF WireOK, mark_error
    <2>3. PICK s : s = IF calls[c].state = "DISPATCHED" THEN "ERROR" ELSE calls[c].state
      OBVIOUS
    <2>4. PICK r : r = [calls[c] EXCEPT !.state = s]
      OBVIOUS
    <2>5. r.state = s /\ r.late = calls[c].late
      BY <1>1, <2>2, <2>4 DEF CallRows
    <2>6. calls' = [calls EXCEPT ![c] = r]
      BY <1>1, <1>3, <2>1, <2>3, <2>4 DEF mark_error
    <2>7. (s # "FREE" => c <= case.used) /\ (calls[c].late => s = "OBSERVED")
      BY <2>2, <2>3 DEF CallsOK
    <2>8. QED
      BY <1>1, <2>2, <2>5, <2>6, <2>7, PutCall DEF CallsStep
  <1>4. ASSUME NEW c \in CallIds, ObservationStored(c) PROVE CallsStep
    <2>1. PICK r : r = [calls[c] EXCEPT !.observed = TRUE]
      OBVIOUS
    <2>2. r.state = calls[c].state /\ r.late = calls[c].late
      BY <1>1, <2>1 DEF CallRows
    <2>3. calls' = [calls EXCEPT ![c] = r]
      BY <1>1, <1>4, <2>1 DEF ObservationStored
    <2>4. (r.state # "FREE" => c <= case.used) /\ (r.late => r.state = "OBSERVED")
      BY <2>2 DEF CallsOK
    <2>5. QED
      BY <1>1, <2>2, <2>3, <2>4, PutCall DEF CallsStep
  <1>5. UNCHANGED calls \/ (\E t \in Threads : mark_error(t)) \/ (\E c \in CallIds : ObservationStored(c))
    <2>1. ASSUME NEW t \in Threads, \/ GivesUp(t) \/ Inspect(t) \/ LeaseLost(t) \/ Turn(t) \/ RunStops(t)
                                    \/ ReserveRaises(t) \/ OutOfRoom(t) \/ HandoffRaises(t) \/ ack(t)
                                    \/ Crash(t) \/ DirectRun(t)
          PROVE  UNCHANGED calls
      BY <2>1 DEF GivesUp, Inspect, LeaseLost, Turn, RunStops, ReserveRaises, OutOfRoom, HandoffRaises, ack,
                  Crash, DirectRun
    <2>2. ASSUME NEW t \in Threads, \/ \E verdict \in Verdicts : record(t, verdict)
                                    \/ \E w \in Slots : poll_unhanded_reports(t, w)
                                    \/ \E u \in Workers : Redeliver(t, u)
          PROVE  UNCHANGED calls
      BY <2>2 DEF record, poll_unhanded_reports, Redeliver
    <2>3. EffectExhausted => UNCHANGED calls
      BY DEF EffectExhausted
    <2>4. QED
      BY <2>1, <2>2, <2>3 DEF BesideStep
  <1>6. QED
    BY <1>2, <1>3, <1>4, <1>5

(* One row changes, and keeps its key and its wait.                        *)
LEMMA RowSteady ==
  ASSUME LifeInv, Keyed(case, works), UNCHANGED case,
         \A w \in Slots : RowKept(works[w], works'[w]) /\ (Waits(works[w], case) => Waits(works'[w], case))
  PROVE  SteadyStep
  <1>1. case \in CaseType /\ works \in [Slots -> WorkRows] /\ case' = case /\ case.rev <= case.rev
    BY TypedNow
  <1>2. PICK vs : vs = works'
    OBVIOUS
  <1>3. Keyed(case, vs)
    BY <1>1, <1>2, KeptKeys
  <1>4. PauseOK(case, works) => PauseOK(case, vs)
    BY <1>2 DEF PauseOK
  <1>5. QED
    BY <1>1, <1>2, <1>3, <1>4 DEF SteadyStep, Steady

LEMMA PutSteady ==
  ASSUME LifeInv, Keyed(case, works), UNCHANGED case, NEW w \in Slots, NEW r,
         works' = [works EXCEPT ![w] = r], RowKept(works[w], r), Waits(works[w], case) => Waits(r, case)
  PROVE  SteadyStep
  <1>1. \A v \in Slots : works'[v] = IF v = w THEN r ELSE works[v]
    BY TypedNow
  <1>2. \A v \in Slots : RowKept(works[v], works[v])
    BY DEF RowKept
  <1>3. \A v \in Slots : RowKept(works[v], works'[v]) /\ (Waits(works[v], case) => Waits(works'[v], case))
    BY <1>1, <1>2
  <1>4. QED
    BY <1>3, RowSteady


(* The steps that write one row, but for the publication of a read.        *)
RowOnlyStep ==
  \/ \E w \in Slots : submit_signal(w) \/ DueArrives(w) \/ LeaseExpires(w)
  \/ \E t \in Threads : Begin(t) \/ RecheckBegins(t) \/ start_once(t) \/ \E w \in Slots : claim(t, w)

LEMMA RowOnlySteady ==
  ASSUME LifeInv, Keyed(case, works), RowOnlyStep
  PROVE  SteadyStep /\ UNCHANGED <<case, calls>>
  <1>0. works \in [Slots -> WorkRows]
    BY TypedNow
  <1>1. ASSUME NEW w \in Slots,
               submit_signal(w) \/ DueArrives(w) \/ LeaseExpires(w) \/ \E t \in Threads : claim(t, w)
        PROVE  SteadyStep /\ UNCHANGED <<case, calls>>
    <2>1. UNCHANGED <<case, calls>>
      BY <1>1 DEF submit_signal, DueArrives, LeaseExpires, claim
    <2>2. PICK r : /\ works' = [works EXCEPT ![w] = r]
                   /\ \/ r = [works[w] EXCEPT !.signal = "given"]
                      \/ r = [works[w] EXCEPT !.due = TRUE]
                      \/ r = [works[w] EXCEPT !.live = FALSE]
                      \/ Open(works[w]) /\ r = [works[w] EXCEPT !.status = "CLAIMED", !.live = TRUE, !.token = @ + 1]
      BY <1>0, <1>1 DEF submit_signal, DueArrives, LeaseExpires, claim, Eligible, Open
    <2>3. /\ r.kind = works[w].kind /\ r.source = works[w].source /\ r.expStatus = works[w].expStatus
          /\ r.expRev = works[w].expRev /\ r.resTok = works[w].resTok
          /\ r.status = works[w].status \/ (Open(works[w]) /\ r.status = "CLAIMED")
      BY <1>0, <2>2 DEF WorkRows
    <2>4. RowKept(works[w], r) /\ (Waits(works[w], case) => Waits(r, case))
      BY <2>3 DEF RowKept, Waits, Open, WorkStatus
    <2>5. QED
      BY <2>1, <2>2, <2>4, PutSteady
  <1>2. ASSUME NEW t \in Threads, Begin(t) \/ RecheckBegins(t) \/ start_once(t)
        PROVE  SteadyStep /\ UNCHANGED <<case, calls>>
    <2>1. UNCHANGED <<case, calls>> /\ Owned(t)
      BY <1>2 DEF Begin, RecheckBegins, start_once, Current
    <2>2. PICK w : w = job[t].w
      OBVIOUS
    <2>3. w \in Slots
      BY <2>1, <2>2, OwnedIs
    <2>4. PICK r : /\ works' = [works EXCEPT ![w] = r]
                   /\ \/ r = [works[w] EXCEPT !.recTok = job[t].tok]
                      \/ r = [works[w] EXCEPT !.started = TRUE]
      BY <1>0, <1>2, <2>2, <2>3 DEF Begin, RecheckBegins, start_once
    <2>5. /\ r.kind = works[w].kind /\ r.source = works[w].source /\ r.expStatus = works[w].expStatus
          /\ r.expRev = works[w].expRev /\ r.resTok = works[w].resTok /\ r.status = works[w].status
      BY <1>0, <2>3, <2>4 DEF WorkRows
    <2>6. RowKept(works[w], r) /\ (Waits(works[w], case) => Waits(r, case))
      BY <2>5 DEF RowKept, Waits, Open
    <2>7. QED
      BY <2>1, <2>3, <2>4, <2>6, PutSteady
  <1>3. QED
    BY <1>1, <1>2 DEF RowOnlyStep

(* The read a claim publishes is its own: its row is rebased and waits on. *)
LEMMA RecoverSteady ==
  ASSUME LifeInv, CallsOK, Keyed(case, works), NEW t \in Threads, recover_if_owned(t)
  PROVE  SteadyStep /\ CallsStep
  <1>1. PICK c : c = FirstRead(t)
    OBVIOUS
  <1>2. /\ job[t].reads # {} /\ Owned(t) /\ Mine(t).resTok = 0 /\ ~Stale(Mine(t))
        /\ \/ UNCHANGED <<case, works, calls>>
           \/ /\ Recoverable(c) /\ Publish(c, FALSE)
              /\ case' = [case EXCEPT !.rev = @ + 1]
              /\ works' = [works EXCEPT ![job[t].w].expRev = case.rev + 1, ![job[t].w].rebased = @ + 1]
    BY <1>1 DEF recover_if_owned, Current, OwnRevision
  <1>3. case \in CaseType /\ works \in [Slots -> WorkRows] /\ case.used <= case.used /\ case.rev \in Nat
    BY TypedNow, BudgetAssumption DEF CaseType
  <1>4. CASE UNCHANGED <<case, works, calls>>
    BY <1>3, <1>4, SameSteady, SameCalls DEF CallsStep
  <1>5. CASE /\ Recoverable(c) /\ Publish(c, FALSE)
             /\ case' = [case EXCEPT !.rev = @ + 1]
             /\ works' = [works EXCEPT ![job[t].w].expRev = case.rev + 1, ![job[t].w].rebased = @ + 1]
    <2>1. CallsStep
      <3>1. c \in CallIds
        BY <1>1, <1>2, FirstReadIs
      <3>2. PICK b \in BOOLEAN : b = FALSE
        OBVIOUS
      <3>3. calls[c].state \in {"DISPATCHED", "ERROR"} /\ calls' = [calls EXCEPT ![c].state = "OBSERVED", ![c].late = b]
        BY <1>5, <3>2 DEF Recoverable, Publish
      <3>4. QED
        BY <1>5, <3>1, <3>3, PublishCall DEF CallsStep
    <2>2. case' \in CaseType /\ case.rev <= case'.rev /\ case'.rev = case.rev + 1 /\ case'.status = case.status
      BY <1>5, RevisionOnly
    <2>3. PICK w : w = job[t].w
      OBVIOUS
    <2>4. w \in Slots /\ works[w].status = "CLAIMED" /\ works[w].resTok = 0 /\ works[w].expStatus = case.status
      BY <1>2, <2>3, OwnedIs DEF Stale
    <2>5. PICK m, n : m = case.rev + 1 /\ n = works[w].rebased + 1
      OBVIOUS
    <2>6. PICK r : r = [works[w] EXCEPT !.expRev = m, !.rebased = n]
      OBVIOUS
    <2>7. \A v \in Slots : works'[v] = IF v = w THEN r ELSE works[v]
      BY <1>3, <1>5, <2>3, <2>5, <2>6
    <2>8. /\ r.kind = works[w].kind /\ r.source = works[w].source /\ r.expStatus = works[w].expStatus
          /\ r.expRev = m /\ r.resTok = works[w].resTok /\ r.status = works[w].status
      BY <1>3, <2>4, <2>6 DEF WorkRows
    <2>9. \A v \in Slots : RowKept(works[v], works'[v])
      BY <2>7, <2>8 DEF RowKept
    <2>10. Keyed(case', works')
      BY <1>3, <2>2, <2>9, KeptKeys
    <2>11. Waits(works'[w], case')
      BY <2>2, <2>4, <2>5, <2>7, <2>8 DEF Waits, Open
    <2>12. QED
      BY <2>1, <2>4, <2>10, <2>11 DEF SteadyStep, Steady, PauseOK
  <1>6. QED
    BY <1>2, <1>4, <1>5


(* A read published outside a claim: in a paused Case it is marked late.   *)
LEMMA LatePublication ==
  ASSUME LifeInv, CallsOK, TableOK, NEW c \in CallIds, calls[c].state \in {"DISPATCHED", "ERROR"},
         Publish(c, Paused), case' = [case EXCEPT !.rev = @ + 1], UNCHANGED works
  PROVE  CallsStep /\ TableOK'
  <1> DEFINE b == Paused
  <1>1. b \in BOOLEAN
    BY DEF Paused
  <1>2. calls' = [calls EXCEPT ![c].state = "OBSERVED", ![c].late = b]
    BY Zenon DEF Publish
  <1> HIDE DEF b
  <1>3. CallsOK' /\ LateStays /\ (b => calls'[c].late)
    BY <1>1, <1>2, PublishCall
  <1>4. case' \in CaseType /\ case.rev <= case'.rev /\ case'.status = case.status
    BY RevisionOnly
  <1>5. Keyed(case', works')
    <2>1. case \in CaseType /\ works \in [Slots -> WorkRows] /\ Keyed(case, works)
      BY TypedNow DEF TableOK
    <2>2. Keyed(case', works)
      BY <1>4, <2>1, KeyedLater
    <2>3. QED
      BY <2>2
  <1>6. NoLate' => PauseOK(case', works')
    <2>1. CASE Paused
      BY <1>3, <2>1 DEF NoLate, b
    <2>2. CASE ~Paused
      BY <1>4, <2>2 DEF Paused, PauseOK
    <2>3. QED
      BY <2>1, <2>2
  <1>7. QED
    BY <1>3, <1>5, <1>6 DEF CallsStep, TableOK

LEMMA CaseRowPause ==
  ASSUME HasEffect = FALSE, LifeInv, CallsOK, WireOK, TableOK, CaseRowStep
  PROVE  CallsStep /\ TableOK'
  <1>0. case \in CaseType /\ case.used <= case.used /\ case.used \in Nat /\ case.rev \in Nat
    BY TypedNow, BudgetAssumption DEF CaseType
  <1>1. ASSUME NEW t \in Threads, before_investigation(t) PROVE CallsStep /\ TableOK'
    <2>1. PICK c : c = FirstRead(t)
      OBVIOUS
    <2>2. /\ UNCHANGED works
          /\ \/ UNCHANGED <<case, calls>>
             \/ /\ job[t].reads # {} /\ Recoverable(c)
                /\ Publish(c, Paused) /\ case' = [case EXCEPT !.rev = @ + 1]
      BY <1>1, <2>1, Zenon DEF before_investigation
    <2>3. CASE UNCHANGED <<case, calls>>
      BY <1>0, <2>2, <2>3, SameCalls, SameSteady, SteadyKeeps DEF TableOK, CallsStep
    <2>4. CASE /\ job[t].reads # {} /\ Recoverable(c)
               /\ Publish(c, Paused) /\ case' = [case EXCEPT !.rev = @ + 1]
      <3>1. c \in CallIds /\ calls[c].state \in {"DISPATCHED", "ERROR"}
        BY <2>1, <2>4, FirstReadIs DEF Recoverable
      <3>2. QED
        BY <2>2, <2>4, <3>1, LatePublication, Zenon
    <2>5. QED
      BY <2>2, <2>3, <2>4
  <1>2. ASSUME NEW t \in Threads, record_call(t) PROVE CallsStep /\ TableOK'
    <2>1. PICK c : c = job[t].call
      OBVIOUS
    <2>2. /\ c \in CallIds /\ calls[c].state \in {"DISPATCHED", "ERROR"} /\ UNCHANGED works
          /\ case' = [case EXCEPT !.rev = @ + 1]
      BY <1>2, <2>1 DEF record_call, WireOK
    <2>3. Publish(c, Paused)
      BY <1>2, <2>1, Zenon DEF record_call
    <2>4. QED
      BY <2>2, <2>3, LatePublication, Zenon
  <1>3. ASSUME NEW t \in Threads, reserve_call(t) \/ execute(t) PROVE CallsStep /\ TableOK'
    <2>1. UNCHANGED works /\ CanReserve /\ Reservation
      BY <1>3 DEF reserve_call, execute
    <2>2. case' \in CaseType /\ case'.status = "INVESTIGATING" /\ case'.used = case.used + 1 /\ case.rev <= case'.rev
      BY <2>1, ReservationTyped DEF Reservation
    <2>3. PICK c : c = case.used + 1
      OBVIOUS
    <2>4. c \in CallIds /\ calls[c].state = "FREE" /\ ~calls[c].late /\ calls \in [CallIds -> CallRows]
      <3>1. c \in CallIds /\ calls \in [CallIds -> CallRows]
        BY <1>0, <2>1, <2>3, NowTyped, BudgetAssumption DEF CanReserve, CallIds
      <3>2. ~(c <= case.used)
        BY <1>0, <2>3
      <3>3. QED
        BY <3>1, <3>2 DEF CallsOK
    <2>5. PICK r : r = [calls[c] EXCEPT !.state = "DISPATCHED"]
      OBVIOUS
    <2>6. r.state = "DISPATCHED" /\ r.late = calls[c].late
      BY <2>4, <2>5 DEF CallRows
    <2>7. calls' = [calls EXCEPT ![c] = r]
      BY <2>1, <2>3, <2>4, <2>5 DEF Reservation
    <2>8. CallsStep
      <3>1. case.used <= case'.used /\ c <= case'.used
        BY <1>0, <2>2, <2>3
      <3>2. QED
        BY <2>2, <2>4, <2>6, <2>7, <3>1, PutCall DEF CallsStep
    <2>9. Keyed(case', works)
      BY <1>0, <2>2, TypedNow, KeyedLater DEF TableOK
    <2>10. QED
      BY <2>1, <2>2, <2>8, <2>9 DEF TableOK, PauseOK
  <1>4. ~EffectPrepared
    BY DEF EffectPrepared
  <1>5. QED
    BY <1>1, <1>2, <1>3, <1>4 DEF CaseRowStep


(* Thread t moves, and not to a tool call.                                 *)
OffWire(t) ==
  job'[t].pc \notin {"call", "apicall"} /\ \A u \in Threads \ {t} : job'[u] = job[u]

LEMMA MovesOff ==
  ASSUME LifeInv, NEW t \in Threads, NEW pc, pc \notin {"call", "apicall"},
         Leave(t) \/ Goto(t, pc) \/ AfterRun(t)
  PROVE  OffWire(t)
  <1>1. job \in [Threads -> JobRows]
    BY TypedNow
  <1> DEFINE j == [Idle EXCEPT !.pc = "report", !.w = job[t].w, !.tok = job[t].tok]
  <1>2. Leave(t) \/ Goto(t, pc) \/ job' = [job EXCEPT ![t] = j]
    BY DEF AfterRun
  <1>3. CASE Leave(t)
    BY <1>1, <1>3, IdleOK DEF Leave, OffWire
  <1>4. CASE Goto(t, pc)
    BY <1>1, <1>4 DEF Goto, OffWire, JobRows
  <1>5. j.pc = "report"
    BY IdleOK DEF JobRows
  <1> HIDE DEF j
  <1>6. CASE job' = [job EXCEPT ![t] = j]
    BY <1>1, <1>5, <1>6 DEF OffWire
  <1>7. QED
    BY <1>2, <1>3, <1>4, <1>6

LEMMA StillWired ==
  ASSUME WireOK, UNCHANGED job \/ \E t \in Threads : OffWire(t)
  PROVE  WireOK'
  BY DEF WireOK, OnTheWire, OffWire

(* The steps of a thread that end it or send it on.                        *)
LEMMA PlainMoves ==
  ASSUME LifeInv, NEW t \in Threads, NEW progress \in BOOLEAN, NEW limit \in BOOLEAN,
         NEW verdict \in Verdicts, NEW routes \in SUBSET Routes, NEW status \in {"WAITING", "ESCALATED"},
         \/ Interrupt(t) \/ VerifyBlocks(t) \/ GoesStale(t) \/ ResumeBlocks(t, progress) \/ finish(t, progress)
         \/ RecheckEnds(t, progress, limit) \/ consume(t, routes)
         \/ GivesUp(t) \/ LeaseLost(t) \/ RunStops(t) \/ ReserveRaises(t) \/ mark_error(t) \/ record(t, verdict)
         \/ OutOfRoom(t) \/ HandoffRaises(t) \/ ack(t) \/ Crash(t) \/ RecheckBegins(t) \/ record_call(t)
         \/ pause_if_current(t, status) \/ ResumeCommits(t, progress) \/ close(t)
  PROVE  OffWire(t)
  <1>1. Leave(t) \/ AfterRun(t) \/ \E pc : pc \notin {"call", "apicall"} /\ Goto(t, pc)
    <2>1. Interrupt(t) \/ VerifyBlocks(t) \/ GoesStale(t) \/ ResumeBlocks(t, progress) \/ GivesUp(t)
          \/ RecheckEnds(t, progress, limit) \/ LeaseLost(t) \/ OutOfRoom(t) \/ HandoffRaises(t) \/ ack(t) \/ Crash(t)
          => Leave(t)
      BY Zenon DEF Interrupt, VerifyBlocks, GoesStale, ResumeBlocks, GivesUp, RecheckEnds, LeaseLost, OutOfRoom,
                   HandoffRaises, ack, Crash
    <2>2. RunStops(t) \/ ReserveRaises(t) \/ mark_error(t) \/ pause_if_current(t, status) => AfterRun(t) \/ Leave(t)
      BY Zenon DEF RunStops, ReserveRaises, mark_error, pause_if_current
    <2>3. finish(t, progress) => Leave(t) \/ Goto(t, "handoff")
      BY Zenon DEF finish
    <2>4. consume(t, routes) \/ close(t) => Goto(t, "ack")
      BY Zenon DEF consume, close
    <2>5. record(t, verdict) => Goto(t, "finish")
      BY Zenon DEF record
    <2>6. record_call(t) => Goto(t, "turn") \/ Leave(t)
      BY Zenon DEF record_call
    <2>7. ResumeCommits(t, progress) => Goto(t, "start")
      BY Zenon DEF ResumeCommits
    <2>8. RecheckBegins(t) => Goto(t, "recheck")
      BY Zenon DEF RecheckBegins
    <2>9. \A pc \in {"handoff", "ack", "finish", "turn", "start", "recheck"} : pc \notin {"call", "apicall"}
      OBVIOUS
    <2>10. QED
      BY <2>1, <2>2, <2>3, <2>4, <2>5, <2>6, <2>7, <2>8, <2>9
  <1>2. "idle" \notin {"call", "apicall"}
    OBVIOUS
  <1>3. QED
    BY <1>1, <1>2, MovesOff


(* The steps of a thread that change more than where it is.                *)
LEMMA OtherMoves ==
  ASSUME LifeInv, NEW t \in Threads,
         \/ Begin(t) \/ Inspect(t) \/ start_once(t) \/ Turn(t) \/ recover_if_owned(t)
         \/ before_investigation(t) \/ DirectRun(t)
         \/ \E w \in Slots : claim(t, w) \/ poll_unhanded_reports(t, w)
         \/ \E u \in Workers : Redeliver(t, u)
  PROVE  OffWire(t)
  <1>0. job \in [Threads -> JobRows]
    BY TypedNow
  <1>1. ASSUME NEW j, j.pc \notin {"call", "apicall"}, job' = [job EXCEPT ![t] = j] PROVE OffWire(t)
    BY <1>0, <1>1 DEF OffWire
  <1>2. CASE Begin(t) \/ Inspect(t) \/ start_once(t) \/ Turn(t)
    <2>1. PICK pc, reads, snap, blocked :
             /\ pc \notin {"call", "apicall"}
             /\ job' = [job EXCEPT ![t].pc = pc, ![t].reads = reads, ![t].snap = snap, ![t].blocked = blocked]
      <3>1. job[t] = [job[t] EXCEPT !.reads = job[t].reads, !.snap = job[t].snap, !.blocked = job[t].blocked]
        BY <1>0 DEF JobRows
      <3>2. CASE Begin(t)
        <4>1. PICK reads : reads = pending_calls
          OBVIOUS
        <4>2. job' = [job EXCEPT ![t].pc = "recover", ![t].reads = reads, ![t].snap = job[t].snap,
                                 ![t].blocked = job[t].blocked]
          BY <1>0, <3>2, <4>1 DEF Begin, JobRows
        <4>3. QED
          BY <4>2
      <3>3. CASE Inspect(t)
        <4>1. PICK b : b = (effect.status = "PREPARED")
          OBVIOUS
        <4>2. job' = [job EXCEPT ![t].pc = "resume", ![t].reads = job[t].reads, ![t].snap = job[t].snap,
                                 ![t].blocked = b]
          BY <1>0, <3>3, <4>1 DEF Inspect, JobRows
        <4>3. QED
          BY <4>2
      <3>4. CASE start_once(t)
        <4>1. PICK pc \in {"first", "before"} : pc = IF Verifies(t) THEN "first" ELSE "before"
          OBVIOUS
        <4>2. PICK reads : reads = IF Verifies(t) THEN {} ELSE pending_calls
          OBVIOUS
        <4>3. job' = [job EXCEPT ![t].pc = pc, ![t].reads = reads, ![t].snap = job[t].snap,
                                 ![t].blocked = job[t].blocked]
          BY <1>0, <3>4, <4>1, <4>2 DEF start_once, JobRows
        <4>4. pc \notin {"call", "apicall"}
          OBVIOUS
        <4>5. QED
          BY <4>3, <4>4
      <3>5. CASE Turn(t)
        <4>1. job' = [job EXCEPT ![t].pc = "act", ![t].reads = job[t].reads, ![t].snap = case,
                                 ![t].blocked = job[t].blocked]
          BY <1>0, <3>5 DEF Turn, JobRows
        <4>2. QED
          BY <4>1
      <3>6. QED
        BY <1>2, <3>2, <3>3, <3>4, <3>5
    <2>2. PICK j : j = [job[t] EXCEPT !.pc = pc, !.reads = reads, !.snap = snap, !.blocked = blocked]
      OBVIOUS
    <2>3. j.pc = pc
      BY <1>0, <2>2 DEF JobRows
    <2>4. job' = [job EXCEPT ![t] = j]
      BY <1>0, <2>1, <2>2
    <2>5. QED
      BY <1>1, <2>1, <2>3, <2>4
  <1>3. CASE recover_if_owned(t) \/ before_investigation(t)
    <2>1. CASE job' = [job EXCEPT ![t].reads = @ \ {FirstRead(t)}]
      <3>1. PICK c : c = FirstRead(t)
        OBVIOUS
      <3>2. PICK j : j = [job[t] EXCEPT !.reads = @ \ {c}]
        OBVIOUS
      <3>3. j.pc = job[t].pc /\ job[t].pc \in {"recover", "before"}
        BY <1>0, <1>3, <3>2 DEF JobRows, recover_if_owned, before_investigation
      <3>4. job' = [job EXCEPT ![t] = j]
        BY <1>0, <2>1, <3>1, <3>2
      <3>5. QED
        BY <1>1, <3>3, <3>4
    <2>2. CASE Goto(t, "turn") \/ Leave(t)
      BY <2>2, MovesOff
    <2>3. QED
      BY <1>3, <2>1, <2>2, Zenon DEF recover_if_owned, before_investigation
  <1>4. CASE DirectRun(t)
    <2>1. PICK reads : reads = pending_calls
      OBVIOUS
    <2>2. PICK j : j = [Idle EXCEPT !.pc = "before", !.reads = reads]
      OBVIOUS
    <2>3. j.pc = "before"
      BY <2>2 DEF Idle
    <2>4. job' = [job EXCEPT ![t] = j]
      BY <1>4, <2>1, <2>2 DEF DirectRun
    <2>5. QED
      BY <1>1, <2>3, <2>4
  <1>5. ASSUME NEW pc \in {"begin", "handoff"}, NEW w, NEW tok,
               job' = [job EXCEPT ![t] = [Idle EXCEPT !.pc = pc, !.w = w, !.tok = tok]]
        PROVE  OffWire(t)
    <2>1. PICK j : j = [Idle EXCEPT !.pc = pc, !.w = w, !.tok = tok]
      OBVIOUS
    <2>2. j.pc = pc
      BY <2>1 DEF Idle
    <2>3. QED
      BY <1>1, <1>5, <2>1, <2>2
  <1>6. ASSUME NEW w \in Slots, claim(t, w) PROVE OffWire(t)
    BY <1>5, <1>6 DEF claim
  <1>7. ASSUME NEW u \in Workers, Redeliver(t, u) PROVE OffWire(t)
    BY <1>5, <1>7 DEF Redeliver
  <1>8. ASSUME NEW w \in Slots, poll_unhanded_reports(t, w) PROVE OffWire(t)
    <2>1. PICK j : j = [Idle EXCEPT !.pc = "handoff", !.w = w]
      OBVIOUS
    <2>2. j.pc = "handoff"
      BY <2>1 DEF Idle
    <2>3. job' = [job EXCEPT ![t] = j]
      BY <1>8, <2>1 DEF poll_unhanded_reports
    <2>4. QED
      BY <1>1, <2>2, <2>3
  <1>9. QED
    BY <1>2, <1>3, <1>4, <1>6, <1>7, <1>8


LEMMA WireStep ==
  ASSUME LifeInv, WireOK, Next
  PROVE  WireOK'
  <1>0. /\ TRUE \in BOOLEAN /\ "PASS" \in Verdicts /\ {} \in SUBSET Routes
        /\ "WAITING" \in {"WAITING", "ESCALATED"}
    BY DEF Verdicts
  <1>1. TableStep => UNCHANGED job \/ \E t \in Threads : OffWire(t)
    BY <1>0, PlainMoves DEF TableStep, poll_due_work, EnsureRecheck, EffectMoves
  <1>2. BesideStep => UNCHANGED job \/ \E t \in Threads : OffWire(t)
    BY <1>0, PlainMoves, OtherMoves DEF BesideStep, EffectExhausted, ObservationStored
  <1>3. OneRowStep => UNCHANGED job \/ \E t \in Threads : OffWire(t)
    BY <1>0, PlainMoves, OtherMoves DEF OneRowStep, RowStepOf, submit_signal, DueArrives, LeaseExpires
  <1>4. PauseStep \/ ResumeStep \/ (\E t \in Threads : close(t)) => \E t \in Threads : OffWire(t)
    BY <1>0, PlainMoves DEF PauseStep, ResumeStep
  <1>5. ASSUME NEW t \in Threads, reserve_call(t) \/ execute(t) PROVE WireOK'
    <2>1. PICK c : c = case.used + 1
      OBVIOUS
    <2>2. c \in CallIds
      <3>1. case.used \in 0..MaxToolCalls /\ case.used < MaxToolCalls
        BY <1>5, TypedNow DEF CaseType, reserve_call, execute, CanReserve
      <3>2. QED
        BY <2>1, <3>1, BudgetAssumption DEF CallIds
    <2>3. job \in [Threads -> JobRows]
      BY TypedNow
    <2>4. PICK j : job' = [job EXCEPT ![t] = j] /\ j.call = c
      <3>1. CASE reserve_call(t)
        <4>1. PICK j : j = [job[t] EXCEPT !.pc = "call", !.call = c]
          OBVIOUS
        <4>2. j.call = c
          BY <2>3, <4>1 DEF JobRows
        <4>3. job' = [job EXCEPT ![t] = j]
          BY <2>1, <2>3, <3>1, <4>1 DEF reserve_call
        <4>4. QED
          BY <4>2, <4>3
      <3>2. CASE execute(t)
        <4>1. PICK j : j = [Idle EXCEPT !.pc = "apicall", !.call = c]
          OBVIOUS
        <4>2. j.call = c
          BY <4>1 DEF Idle
        <4>3. job' = [job EXCEPT ![t] = j]
          BY <2>1, <3>2, <4>1 DEF execute
        <4>4. QED
          BY <4>2, <4>3
      <3>3. QED
        BY <1>5, <3>1, <3>2
    <2>5. \A u \in Threads : job'[u] = IF u = t THEN j ELSE job[u]
      BY <2>3, <2>4
    <2>6. QED
      BY <2>2, <2>4, <2>5 DEF WireOK, OnTheWire
  <1>6. CaseRowStep => WireOK'
    <2>1. ASSUME NEW t \in Threads, before_investigation(t) \/ record_call(t) PROVE OffWire(t)
      BY <1>0, <2>1, PlainMoves, OtherMoves
    <2>2. EffectPrepared => UNCHANGED job
      BY DEF EffectPrepared
    <2>3. QED
      BY <1>5, <2>1, <2>2, StillWired DEF CaseRowStep
  <1>7. QED
    BY <1>1, <1>2, <1>3, <1>4, <1>6, StepKinds, StillWired

LEMMA NextPause ==
  ASSUME HasEffect = FALSE, LifeInv, PauseInv, [Next]_vars
  PROVE  PauseInv'
  <1>1. CASE UNCHANGED vars
    <2>1. UNCHANGED <<case, works, calls, effect, job>>
      BY <1>1 DEF vars
    <2>2. QED
      BY <2>1 DEF PauseInv, NoLate, CallsOK, WireOK, OnTheWire
  <1>2. CASE Next
    <2>1. LifeInv' /\ case' \in CaseType
      <3>1. LifeInv'
        BY <1>2, NextLife
      <3>2. QED
        BY <3>1, DbParts DEF LifeInv, Lawful
    <2>2. /\ effect.status = "NONE" /\ TableOK /\ Keyed(case, works) /\ CallsOK /\ WireOK
      BY DEF PauseInv, TableOK
    <2>3. WireOK'
      BY <1>2, <2>2, WireStep
    <2>4. CASE TableStep
      <3>1. SteadyStep /\ UNCHANGED <<calls, effect>>
        BY <2>2, <2>4, TableSteady
      <3>2. case.used <= case'.used
        <4>1. case'.used = case.used /\ case \in CaseType
          BY <2>4, TableStepGrows, TypedNow, DbParts DEF Grown, Grows
        <4>2. QED
          BY <4>1, BudgetAssumption DEF CaseType
      <3>3. CallsOK' /\ LateStays
        BY <2>1, <2>2, <3>1, <3>2, SameCalls
      <3>4. QED
        BY <2>2, <2>3, <3>1, <3>3, SteadyKeeps DEF PauseInv, TableOK
    <2>5. CASE PauseStep \/ ResumeStep \/ \E t \in Threads : close(t)
      <3>1. SteadyStep /\ UNCHANGED <<calls, effect>>
        BY <2>2, <2>5, PauseSteady, ResumeSteady, CloseSteady
      <3>2. case.used <= case'.used
        <4>1. case.used \in Nat
          BY TypedNow, BudgetAssumption DEF CaseType
        <4>2. case'.used = case.used
          <5>1. \A s : [case EXCEPT !.status = s, !.rev = @ + 1].used = case.used
            BY TypedNow DEF CaseType
          <5>2. case' = case \/ \E s : case' = [case EXCEPT !.status = s, !.rev = @ + 1]
            <6>1. ASSUME NEW t \in Threads, NEW status \in {"WAITING", "ESCALATED"}, pause_if_current(t, status)
                  PROVE  \E s : case' = [case EXCEPT !.status = s, !.rev = @ + 1]
              <7>1. PICK s : s = IF status = "WAITING" /\ quota.resumes >= MaxResumes THEN "ESCALATED" ELSE status
                OBVIOUS
              <7>2. case' = [case EXCEPT !.status = s, !.rev = @ + 1]
                BY <6>1, <7>1, DbParts DEF pause_if_current, Commit
              <7>3. QED
                BY <7>2
            <6>2. ASSUME NEW t \in Threads, close(t)
                  PROVE  case' = case \/ case' = [case EXCEPT !.status = "CLOSED_VERIFIED", !.rev = @ + 1]
              BY <6>2, DbParts DEF close, Commit
            <6>3. ResumeStep => case' = [case EXCEPT !.status = "INVESTIGATING", !.rev = @ + 1]
              BY DEF ResumeStep, ResumeCommits
            <6>4. QED
              BY <2>5, <6>1, <6>2, <6>3 DEF PauseStep
          <5>3. QED
            BY <5>1, <5>2
        <4>3. QED
          BY <4>1, <4>2
      <3>3. CallsOK' /\ LateStays
        BY <2>1, <2>2, <3>1, <3>2, SameCalls
      <3>4. QED
        BY <2>2, <2>3, <3>1, <3>3, SteadyKeeps DEF PauseInv, TableOK
    <2>6. CASE BesideStep
      <3>1. CallsStep /\ SteadyStep
        BY <2>2, <2>6, BesideCalls, BesideSteps, SameSteady
      <3>2. effect' = effect
        BY <2>2, <2>6
        DEF BesideStep, GivesUp, Inspect, LeaseLost, Turn, RunStops, ReserveRaises, mark_error,
            record, OutOfRoom, HandoffRaises, ack, Crash, DirectRun, poll_unhanded_reports,
            Redeliver, EffectExhausted, ObservationStored, RECOVERABLE
      <3>3. QED
        BY <2>2, <2>3, <3>1, <3>2, SteadyKeeps DEF PauseInv, TableOK, CallsStep
    <2>7. CASE OneRowStep
      <3>1. RowOnlyStep \/ \E t \in Threads : recover_if_owned(t)
        BY <2>7 DEF OneRowStep, RowStepOf, RowOnlyStep
      <3>2. SteadyStep /\ CallsStep
        <4>1. CASE RowOnlyStep
          <5>1. SteadyStep /\ UNCHANGED <<case, calls>>
            BY <2>2, <4>1, RowOnlySteady
          <5>2. case.used <= case'.used
            BY <5>1, TypedNow, BudgetAssumption DEF CaseType
          <5>3. QED
            BY <2>1, <2>2, <5>1, <5>2, SameCalls DEF CallsStep
        <4>2. QED
          BY <2>2, <3>1, <4>1, RecoverSteady
      <3>3. effect' = effect
        BY <2>7, OneRowSteps
      <3>4. QED
        BY <2>2, <2>3, <3>2, <3>3, SteadyKeeps DEF PauseInv, TableOK, CallsStep
    <2>8. CASE CaseRowStep
      <3>1. CallsStep /\ TableOK'
        BY <2>2, <2>8, CaseRowPause
      <3>2. effect' = effect
        BY <2>8 DEF CaseRowStep, before_investigation, reserve_call, execute, record_call, EffectPrepared
      <3>3. QED
        BY <2>2, <2>3, <3>1, <3>2 DEF PauseInv, TableOK, CallsStep
    <2>9. QED
      BY <1>2, <2>4, <2>5, <2>6, <2>7, <2>8, StepKinds
  <1>3. QED
    BY <1>1, <1>2

LEMMA InitPause == Init => PauseInv
  <1>1. SUFFICES ASSUME Init PROVE PauseInv
    OBVIOUS
  <1>2. effect.status = "NONE" /\ case.status = "NEW"
    BY <1>1 DEF Init
  <1>3. \A w \in Slots : works[w].kind = "resume" /\ works[w].status = "ABSENT"
    BY <1>1 DEF Init, Absent
  <1>4. \A c \in CallIds : calls[c].state = "FREE" /\ ~calls[c].late
    BY <1>1 DEF Init
  <1>5. \A t \in Threads : job[t].pc = "idle"
    BY <1>1 DEF Init, Idle
  <1>6. QED
    BY <1>2, <1>3, <1>4, <1>5 DEF PauseInv, Keyed, KeyOK, PauseOK, CallsOK, WireOK, OnTheWire

LEMMA PauseInvKeepsWork == LifeInv /\ PauseInv => PauseKeepsWork
  <1>1. SUFFICES ASSUME LifeInv, PauseInv, Paused, NoLate PROVE \E w \in Slots : Answerable(w)
    BY DEF PauseKeepsWork, NoLate
  <1>2. PICK w \in Slots : Waits(works[w], case)
    BY <1>1 DEF PauseInv, PauseOK, Paused
  <1>3. works[w].kind # "recheck"
    BY <1>1 DEF PauseInv, Keyed, KeyOK
  <1>4. QED
    BY <1>2, <1>3 DEF Answerable, Waits, Open, Stale

(* A paused Case without an effect always has a work item that can still   *)
(* end the pause, whatever threads, clients, crashes and redelivered       *)
(* claims do to it, unless a read was published outside a claim after the  *)
(* pause (pause_if_current, escalate_in, finish, recover_if_owned,         *)
(* poll_due_work).                                                         *)
THEOREM PausedCaseKeepsWork ==
  ASSUME HasEffect = FALSE
  PROVE  Spec => []PauseKeepsWork
  <1>1. Init => PauseInv
    BY InitPause
  <1>2. LifeInv /\ PauseInv /\ [Next]_vars => PauseInv'
    BY NextPause
  <1>3. QED
    BY <1>1, <1>2, LifeAlways, PauseInvKeepsWork, PTL DEF Spec


-----------------------------------------------------------------------------
(* Timers                                                                  *)

LEMMA OneRowTimely ==
  ASSUME LifeInv, Timely(works), OneRowStep
  PROVE  Timely(works')
  <1>0. works \in [Slots -> WorkRows]
    BY TypedNow
  <1>1. ASSUME NEW w \in Slots, submit_signal(w) PROVE Timely(works')
    <2>1. \A v \in Slots : SameAge(works[v], works'[v])
      BY <1>0, <1>1 DEF submit_signal, WorkRows, SameAge, Running
    <2>2. QED
      BY <2>1, SameAges
  <1>2. ASSUME NEW w \in Slots, LeaseExpires(w) PROVE Timely(works')
    <2>1. \A v \in Slots : SameAge(works[v], works'[v])
      BY <1>0, <1>2 DEF LeaseExpires, WorkRows, SameAge, Running
    <2>2. QED
      BY <2>1, SameAges
  <1>3. ASSUME NEW t \in Threads, NEW w \in Slots, claim(t, w) PROVE Timely(works')
    <2>1. works' = [works EXCEPT ![w].status = "CLAIMED", ![w].live = TRUE, ![w].token = @ + 1]
          /\ works[w].status \in {"PENDING", "CLAIMED"}
      BY <1>3 DEF claim, Eligible
    <2>2. \A v \in Slots : SameAge(works[v], works'[v])
      BY <1>0, <2>1 DEF WorkRows, SameAge, Running
    <2>3. QED
      BY <2>2, SameAges
  <1>4. ASSUME NEW t \in Threads, Begin(t) \/ RecheckBegins(t) PROVE Timely(works')
    <2>1. works' = [works EXCEPT ![job[t].w].recTok = job[t].tok]
      BY <1>4 DEF Begin, RecheckBegins
    <2>2. \A v \in Slots : SameAge(works[v], works'[v])
      BY <1>0, <2>1 DEF WorkRows, SameAge, Running
    <2>3. QED
      BY <2>2, SameAges
  <1>5. ASSUME NEW t \in Threads, start_once(t) PROVE Timely(works')
    <2>1. works' = [works EXCEPT ![job[t].w].started = TRUE]
      BY <1>5 DEF start_once
    <2>2. \A v \in Slots : SameAge(works[v], works'[v])
      BY <1>0, <2>1 DEF WorkRows, SameAge, Running
    <2>3. QED
      BY <2>2, SameAges
  <1>6. ASSUME NEW w \in Slots, DueArrives(w) PROVE Timely(works')
    <2>1. /\ works[w].status = "PENDING"
          /\ works[w].kind = "verify" /\ works[w].expStatus = "WAITING"
               => \A v \in RunningTimers(works) : v > w
          /\ works' = [works EXCEPT ![w].due = TRUE]
      BY <1>6 DEF DueArrives
    <2>2. \A v \in Slots :
            /\ works'[v].kind = works[v].kind /\ works'[v].status = works[v].status
            /\ works'[v].expRev = works[v].expRev /\ works'[v].expStatus = works[v].expStatus
            /\ works'[v].signal = works[v].signal
            /\ v # w => works'[v].due = works[v].due
            /\ v = w => works'[v].due
      BY <1>0, <2>1 DEF WorkRows
    <2>3. \A v \in Slots : v < w /\ Running(works[v]) => ~Dated(works[w])
      BY <2>1, SlotsFinite DEF Running, RunningTimers, Dated
    <2>4. ASSUME NEW u \in Slots, NEW v \in Slots, u < v, Running(works'[u]), Dated(works'[v])
          PROVE  ~works'[v].due
      <3>1. Running(works[u]) /\ Dated(works[v])
        BY <2>2, <2>4 DEF Running, Dated
      <3>2. v # w
        BY <2>3, <2>4, <3>1
      <3>3. QED
        BY <2>2, <2>4, <3>1, <3>2 DEF Timely
    <2>5. \A u, v \in Slots : u < v /\ Timer(works'[v]) => works'[u].expRev < works'[v].expRev
      BY <2>2 DEF Timely, Timer
    <2>6. QED
      BY <2>2, <2>4, <2>5 DEF Timely
  <1>7. ASSUME NEW t \in Threads, recover_if_owned(t) PROVE Timely(works')
    <2> DEFINE w == job[t].w
    <2>1. CASE UNCHANGED works
      BY <2>1
    <2>2. CASE works' = [works EXCEPT ![w].expRev = case.rev + 1, ![w].rebased = @ + 1]
      <3>1. w \in Slots /\ works[w].expRev = case.rev /\ Owned(t)
        BY <1>7, OwnedIs DEF recover_if_owned, Current, OwnRevision, Stale, Mine
      <3>2. case.rev \in Nat /\ \A v \in Slots : works[v].expRev \in Nat /\ works[v].expRev <= case.rev
        BY TypedNow DEF RowOK, WorkRows
      <3> HIDE DEF w
      <3>3. \A v \in Slots :
              /\ works'[v].kind = works[v].kind /\ works'[v].status = works[v].status
              /\ works'[v].due = works[v].due /\ works'[v].expStatus = works[v].expStatus
              /\ works'[v].signal = works[v].signal
              /\ works'[v].expRev = IF v = w THEN case.rev + 1 ELSE works[v].expRev
        BY <1>0, <2>2 DEF WorkRows
      <3>4. \A v \in Slots : w < v => ~Timer(works[v])
        BY <3>1, <3>2 DEF Timely
      <3>5. \A u, v \in Slots : u < v /\ Timer(works'[v]) => works'[u].expRev < works'[v].expRev
        <4> SUFFICES ASSUME NEW u \in Slots, NEW v \in Slots, u < v, Timer(works'[v])
                     PROVE  works'[u].expRev < works'[v].expRev
          OBVIOUS
        <4>1. Timer(works[v]) /\ u # w /\ works[u].expRev < works[v].expRev
          BY <3>1, <3>3, <3>4 DEF Timely, Timer
        <4>2. QED
          BY <3>1, <3>2, <3>3, <4>1
      <3>6. QED
        BY <3>3, <3>5 DEF Timely, Timer, Running, Dated
    <2>3. QED
      BY <1>7, <2>1, <2>2 DEF recover_if_owned
  <1>8. QED
    BY <1>1, <1>2, <1>3, <1>4, <1>5, <1>6, <1>7 DEF OneRowStep, RowStepOf

LEMMA InitTimely == Init => Timely(works)
  BY DEF Init, Absent, Timely, Timer, Running, Dated

LEMMA NextTimely == LifeInv /\ Timely(works) /\ [Next]_vars => Timely(works)'
  <1> SUFFICES ASSUME LifeInv, Timely(works), [Next]_vars PROVE Timely(works')
    OBVIOUS
  <1>1. CASE UNCHANGED vars
    BY <1>1 DEF vars
  <1>2. CASE BesideStep \/ CaseRowStep
    <2>1. UNCHANGED works
      BY <1>2, BesideSteps, CaseRowSteps
    <2>2. QED
      BY <2>1
  <1>3. CASE OneRowStep
    BY <1>3, OneRowTimely
  <1>4. CASE TableStep
    BY <1>4, TableStepGrows, DbParts DEF Grown, Grows
  <1>5. CASE PauseStep
    BY <1>5, pause_if_currentKeeps DEF PauseStep
  <1>6. CASE \E t \in Threads : close(t)
    BY <1>6, closeKeeps
  <1>7. CASE ResumeStep
    <2>1. PICK t \in Threads : works' = [works EXCEPT ![job[t].w].resTok = job[t].tok]
      BY <1>7 DEF ResumeStep, ResumeCommits
    <2>2. \A v \in Slots : SameAge(works[v], works'[v])
      BY <2>1, TypedNow DEF WorkRows, SameAge, Running
    <2>3. QED
      BY <2>2, SameAges
  <1>8. QED
    BY <1>1, <1>2, <1>3, <1>4, <1>5, <1>6, <1>7, StepKinds

LEMMA TimelyAlways == Spec => []Timely(works)
  BY LifeAlways, InitTimely, NextTimely, PTL DEF Spec

(* Only ResumeCommits resumes a work item, and it resumes its thread's.    *)
LEMMA ResumesHere ==
  ASSUME LifeInv, [Next]_vars, NEW w \in Slots, Resumes(w)
  PROVE  \E t \in Threads, progress \in BOOLEAN : ResumeCommits(t, progress) /\ w = job[t].w
  <1>1. works'[w].resTok # works[w].resTok
    BY DEF Resumes
  <1>2. ~UNCHANGED works
    BY <1>1
  <1>3. ~UNCHANGED vars /\ ~BesideStep /\ ~CaseRowStep
    BY <1>2, BesideSteps, CaseRowSteps DEF vars
  <1>4. ~OneRowStep
    BY <1>1, OneRowResumed
  <1>5. ~TableStep /\ ~PauseStep /\ ~\E t \in Threads : close(t)
    BY <1>1, TableResumed DEF SameRow
  <1>6. PICK t \in Threads, progress \in BOOLEAN : ResumeCommits(t, progress)
    BY <1>3, <1>4, <1>5, StepKinds DEF ResumeStep
  <1>7. works' = [works EXCEPT ![job[t].w].resTok = job[t].tok]
    BY <1>6 DEF ResumeCommits
  <1>8. w = job[t].w
    BY <1>1, <1>7, TypedNow
  <1>9. QED
    BY <1>6, <1>8

LEMMA ResumedWhenDue == LifeInv /\ Timely(works) /\ [Next]_vars => ResumesWhenDue
  <1> SUFFICES ASSUME LifeInv, Timely(works), [Next]_vars,
                      NEW w \in Slots, Resumes(w), case.status = "WAITING", works[w].signal # "given",
                      NEW v \in LatestTimer, works[v].status = "PENDING", ~works[v].due
               PROVE  FALSE
    BY DEF ResumesWhenDue
  <1>1. PICK t \in Threads, progress \in BOOLEAN : ResumeCommits(t, progress) /\ w = job[t].w
    BY ResumesHere
  <1>2. /\ works[w].status = "CLAIMED" /\ job[t].pc = "resume" /\ job[t].tok # 0
        /\ works[w].expStatus = "WAITING" /\ works[w].expRev = case.rev
        /\ works[w].signal = "none" /\ works[w].due
    <2>1. Owned(t) /\ ~Stale(works[w]) /\ TriggerHolds(works[w]) /\ job[t].pc = "resume"
      BY <1>1 DEF ResumeCommits, Current, OwnRevision, Mine
    <2>2. works[w].signal \in {"none", "needed", "given"}
      BY TypedNow DEF WorkRows
    <2>3. job[t].tok # 0
      BY <2>1, TypedNow DEF ThreadOK, PcOK
    <2>4. QED
      BY <1>1, <2>1, <2>2, <2>3 DEF Owned, Mine, Stale, TriggerHolds
  <1>3. v \in Slots /\ v # w /\ v \in Nat /\ w \in Nat /\ Timer(works[v]) /\ Running(works[v])
    BY <1>2, SlotsFinite DEF LatestTimer, Timer, Running
  <1>4. v < w
    <2>1. works[v].expRev \in Nat /\ works[v].expRev <= case.rev /\ case.rev \in Nat
      BY <1>3, TypedNow DEF RowOK, WorkRows
    <2>2. ~(w < v)
      BY <1>2, <1>3, <2>1 DEF Timely
    <2>3. QED
      BY <1>3, <2>2
  <1>5. works[w].kind \in WorkType /\ works[w].kind # "recheck"
    BY <1>1, <1>2, TypedNow DEF WorkRows, ThreadOK, PcOK
  <1>6. works[w].kind # "followup"
    BY <1>2 DEF Timely
  <1>7. works[w].kind # "resume"
    BY <1>2, <1>3, <1>4 DEF LatestTimer
  <1>8. works[w].kind # "verify"
    BY <1>2, <1>3, <1>4 DEF Timely, Dated
  <1>9. QED
    BY <1>5, <1>6, <1>7, <1>8 DEF WorkType

(* A Case that asked to wait is not resumed before its timer unless an     *)
(* operator says so, for every set of threads and every budget: work that  *)
(* is older than the timer expects an older revision, and a verification   *)
(* that is younger is dated after it.                                      *)
THEOREM TimersAreHonoured == Spec => WaitIsHonoured
  <1>1. LifeInv /\ Timely(works) /\ [Next]_vars => [ResumesWhenDue]_vars
    BY ResumedWhenDue
  <1>2. QED
    BY <1>1, LifeAlways, TimelyAlways, PTL DEF Spec, WaitIsHonoured
=============================================================================

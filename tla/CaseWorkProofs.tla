---------------------------- MODULE CaseWorkProofs ----------------------------
(***************************************************************************)
(* Theorems about CaseWork, for every set of threads and every budget.     *)
(*                                                                         *)
(* The invariant: every work item expects the revision it was created at   *)
(* plus the rebases of its own claims.  Nested transactions (an escalation *)
(* that creates work, a report routed to several items) are followed one   *)
(* function at a time: each keeps the table balanced and resumes nothing.  *)
(***************************************************************************)
EXTENDS CaseWork, TLAPS

CaseRows == [status : CaseStatus, rev : Nat, used : Nat]

(* A work item with its revisions; S holds whatever its other columns do.  *)
Rows(S) ==
  [kind : S, source : S, status : S, expStatus : S,
   expRev : Nat, created : Nat, rebased : Nat,
   signal : S, due : BOOLEAN, token : S, live : BOOLEAN,
   recTok : S, resTok : S, started : BOOLEAN]

(* A work item expects the revision it was created at plus the rebases of  *)
(* its own claims.                                                         *)
Balanced(ws) == \A w \in Slots : ws[w].expRev = ws[w].created + ws[w].rebased

Table(ws) == Balanced(ws) /\ \E S : ws \in [Slots -> Rows(S)]

(* The table stays balanced and no work item is resumed.                   *)
Follows(ws, next) ==
  /\ Table(next)
  /\ \A w \in Slots : ws[w].resTok = 0 => next[w].resTok = 0

LEMMA RowsGrow ==
  ASSUME NEW S, NEW T, S \subseteq T, NEW r \in Rows(S)
  PROVE  r \in Rows(T)
  BY DEF Rows

LEMMA TableGrows ==
  ASSUME NEW S, NEW T, S \subseteq T, NEW ws \in [Slots -> Rows(S)]
  PROVE  ws \in [Slots -> Rows(T)]
  BY RowsGrow

(* Writing one row keeps the table, also for a number that is no slot.      *)
LEMMA PutFollows ==
  ASSUME NEW ws, Table(ws), NEW w, NEW S, NEW r,
         w \in Slots => /\ r \in Rows(S)
                        /\ r.expRev = r.created + r.rebased
                        /\ ws[w].resTok = 0 => r.resTok = 0
  PROVE  Follows(ws, [ws EXCEPT ![w] = r])
  <1>1. PICK U : ws \in [Slots -> Rows(U)]
    BY DEF Table
  <1> DEFINE T == S \cup U
             next == [ws EXCEPT ![w] = r]
  <1>2. ws \in [Slots -> Rows(T)]
    BY <1>1, TableGrows
  <1>3. w \in Slots => r \in Rows(T)
    BY RowsGrow
  <1>4. next \in [Slots -> Rows(T)]
    BY <1>2, <1>3
  <1>5. \A v \in Slots : next[v] = IF v = w THEN r ELSE ws[v]
    BY <1>2
  <1> HIDE DEF T, next
  <1>6. QED
    BY <1>4, <1>5 DEF Follows, Table, Balanced, next

LEMMA FollowsItself ==
  ASSUME NEW ws, Table(ws)
  PROVE  Follows(ws, ws)
  BY DEF Follows

LEMMA FollowsTransitive ==
  ASSUME NEW a, NEW b, NEW c, Follows(a, b), Follows(b, c)
  PROVE  Follows(a, c)
  BY DEF Follows

LEMMA EndsFollows ==
  ASSUME NEW ws, Table(ws), NEW w, NEW s
  PROVE  Follows(ws, Ends(ws, w, s))
  <1>1. PICK S : ws \in [Slots -> Rows(S)]
    BY DEF Table
  <1> DEFINE T == S \cup {s}
             r == [ws[w] EXCEPT !.status = s, !.live = FALSE]
  <1>2. ws \in [Slots -> Rows(T)]
    BY <1>1, TableGrows
  <1>3. w \in Slots => /\ r \in Rows(T) /\ r.resTok = ws[w].resTok
                       /\ r.expRev = r.created + r.rebased
    BY <1>2 DEF Rows, Table, Balanced
  <1>4. Ends(ws, w, s) = [ws EXCEPT ![w] = r]
    <2>1. CASE w \in Slots
      BY <1>2, <2>1 DEF Ends
    <2>2. CASE w \notin Slots
      BY <1>2, <2>2 DEF Ends
    <2>3. QED
      BY <2>1, <2>2
  <1> HIDE DEF r, T
  <1>5. Follows(ws, [ws EXCEPT ![w] = r])
    BY <1>3, PutFollows
  <1>6. QED
    BY <1>4, <1>5

LEMMA CreateFollows ==
  ASSUME NEW c \in CaseRows, NEW ws, Table(ws), NEW kind, NEW source, NEW due \in BOOLEAN
  PROVE  Follows(ws, create_work(c, ws, kind, source, due))
  <1> DEFINE status == IF c.status = "CLOSED_VERIFIED" THEN "CANCELED" ELSE "PENDING"
             signal == IF NeedsSignal(c, kind) THEN "needed" ELSE "none"
             isdue == due /\ ~WaitsForTimer(c, ws, kind)
             row == [kind |-> kind, source |-> source, status |-> status,
                     expStatus |-> c.status, expRev |-> c.rev, created |-> c.rev,
                     rebased |-> 0, signal |-> signal, due |-> isdue, token |-> 0,
                     live |-> FALSE, recTok |-> 0, resTok |-> 0, started |-> FALSE]
             S == {kind, source, status, c.status, signal, 0}
  <1>1. /\ row \in Rows(S) /\ row.resTok = 0
        /\ row.expRev = row.created + row.rebased
    <2>1. c.rev \in Nat
      BY DEF CaseRows
    <2>2. /\ kind \in S /\ source \in S /\ status \in S /\ c.status \in S
          /\ signal \in S /\ isdue \in BOOLEAN /\ 0 \in S
      OBVIOUS
    <2>3. row = [kind |-> kind, source |-> source, status |-> status,
                 expStatus |-> c.status, expRev |-> c.rev, created |-> c.rev,
                 rebased |-> 0, signal |-> signal, due |-> isdue, token |-> 0,
                 live |-> FALSE, recTok |-> 0, resTok |-> 0, started |-> FALSE]
      OBVIOUS
    <2> HIDE DEF S, status, signal, isdue, row
    <2>4. QED
      BY <2>1, <2>2, <2>3 DEF Rows
  <1>2. create_work(c, ws, kind, source, due) \in {ws, [ws EXCEPT ![NextSlot(ws)] = row]}
    BY DEF create_work
  <1> HIDE DEF row, S
  <1>3. Follows(ws, [ws EXCEPT ![NextSlot(ws)] = row])
    BY <1>1, PutFollows
  <1>4. QED
    BY <1>2, <1>3, FollowsItself

LEMMA CancelFollows ==
  ASSUME NEW ws, Table(ws)
  PROVE  Follows(ws, cancel_terminal_work(ws))
  <1>1. PICK S : ws \in [Slots -> Rows(S)]
    BY DEF Table
  <1> DEFINE T == S \cup {"CANCELED"}
             next == cancel_terminal_work(ws)
  <1>2. ws \in [Slots -> Rows(T)]
    BY <1>1, TableGrows
  <1>3. next = [w \in Slots |-> next[w]]
    BY DEF cancel_terminal_work
  <1>4. ASSUME NEW w \in Slots
        PROVE  /\ next[w] \in Rows(T) /\ next[w].resTok = ws[w].resTok
               /\ next[w].expRev = next[w].created + next[w].rebased
    <2>1. next[w] \in {ws[w], [ws[w] EXCEPT !.status = "CANCELED", !.live = FALSE]}
      BY DEF cancel_terminal_work
    <2> HIDE DEF next
    <2>2. QED
      BY <1>2, <2>1 DEF Rows, Table, Balanced
  <1> HIDE DEF next, T
  <1>5. next \in [Slots -> Rows(T)]
    BY <1>3, <1>4
  <1>6. QED
    BY <1>4, <1>5 DEF Follows, Table, Balanced, next

-----------------------------------------------------------------------------
(* The Case row and the table together                                     *)

DbType(d) == d.case \in CaseRows /\ Table(d.works)

DbFollows(d, next) == next.case \in CaseRows /\ Follows(d.works, next.works)

LEMMA DbFollowsItself ==
  ASSUME NEW d, DbType(d)
  PROVE  DbFollows(d, d)
  BY FollowsItself DEF DbFollows, DbType

LEMMA DbFollowsType ==
  ASSUME NEW d, NEW e, DbFollows(d, e)
  PROVE  DbType(e)
  BY DEF DbFollows, DbType, Follows

LEMMA DbFollowsTransitive ==
  ASSUME NEW d, NEW e, NEW f, DbFollows(d, e), DbFollows(e, f)
  PROVE  DbFollows(d, f)
  BY FollowsTransitive DEF DbFollows

LEMMA DbParts ==
  ASSUME NEW c, NEW ws
  PROVE  Db(c, ws).case = c /\ Db(c, ws).works = ws
  BY DEF Db

(* Transactions that touch the table only.                                 *)
LEMMA DbCreateFollows ==
  ASSUME NEW d, DbType(d), NEW kind, NEW source, NEW due \in BOOLEAN
  PROVE  DbFollows(d, Db(d.case, create_work(d.case, d.works, kind, source, due)))
  BY CreateFollows, DbParts DEF DbFollows, DbType

LEMMA DbEndsFollows ==
  ASSUME NEW d, DbType(d), NEW w, NEW s
  PROVE  DbFollows(d, Db(d.case, Ends(d.works, w, s)))
  BY EndsFollows, DbParts DEF DbFollows, DbType

LEMMA DbCancelFollows ==
  ASSUME NEW d, DbType(d)
  PROVE  DbFollows(d, Db(d.case, cancel_terminal_work(d.works)))
  BY CancelFollows, DbParts DEF DbFollows, DbType

LEMMA CaseMoves ==
  ASSUME NEW c \in CaseRows, NEW s \in CaseStatus
  PROVE  /\ [c EXCEPT !.rev = @ + 1] \in CaseRows
         /\ [c EXCEPT !.status = s, !.rev = @ + 1] \in CaseRows
  <1>1. PICK n \in Nat : n = c.rev + 1
    BY DEF CaseRows
  <1>2. [c EXCEPT !.rev = n] \in CaseRows /\ [c EXCEPT !.status = s, !.rev = n] \in CaseRows
    BY DEF CaseRows
  <1>3. QED
    BY <1>1, <1>2

LEMMA EscalateFollows ==
  ASSUME NEW d, DbType(d), NEW source
  PROVE  DbFollows(d, escalate_in(d, source))
  <1> DEFINE c == [d.case EXCEPT !.status = "ESCALATED", !.rev = @ + 1]
             ws == create_work(c, d.works, "followup", source, TRUE)
  <1>1. c \in CaseRows
    <2>1. d.case \in CaseRows /\ "ESCALATED" \in CaseStatus
      BY DEF DbType, CaseStatus
    <2>2. QED
      BY <2>1, CaseMoves
  <1>2. escalate_in(d, source) \in {d, Db(c, ws)}
    BY DEF escalate_in
  <1> HIDE DEF c
  <1>3. Follows(d.works, ws)
    BY <1>1, CreateFollows DEF DbType
  <1> HIDE DEF ws
  <1>4. DbFollows(d, Db(c, ws))
    BY <1>1, <1>3, DbParts DEF DbFollows
  <1>5. QED
    BY <1>2, <1>4, DbFollowsItself

LEMMA OperatorFollows ==
  ASSUME NEW d, DbType(d), NEW w
  PROVE  DbFollows(d, recovery_operator(d, w))
  <1>1. recovery_operator(d, w) \in
          {d, escalate_in(d, <<"work", w>>),
           Db(d.case, create_work(d.case, d.works, "followup", <<"work", w>>, TRUE))}
    BY DEF recovery_operator
  <1>2. QED
    BY <1>1, DbFollowsItself, EscalateFollows, DbCreateFollows

LEMMA SettledFollows ==
  ASSUME NEW d, DbType(d), NEW e
  PROVE  DbFollows(d, Db(d.case, settled_handoff(d.case, d.works, e)))
  BY DbCreateFollows DEF settled_handoff

LEMMA CheckFollows ==
  ASSUME NEW d, DbType(d), NEW w, NEW e
  PROVE  DbFollows(d, check_recovery_work(d, w, e))
  <1> DEFINE ended(s) == Db(d.case, Ends(d.works, w, s))
             ws == IF d.works[w].status = "COMPLETED" THEN d.works
                   ELSE Ends(d.works, w, "COMPLETED")
             settled == Db(d.case, settled_handoff(d.case, ws, e))
  <1>1. check_recovery_work(d, w, e) \in
          {d, Db(d.case, cancel_terminal_work(d.works)), settled,
           recovery_operator(ended("BLOCKED"), w)}
    BY DEF check_recovery_work
  <1>2. DbFollows(d, ended("BLOCKED")) /\ DbFollows(d, ended("COMPLETED"))
    BY DbEndsFollows
  <1>3. DbFollows(d, recovery_operator(ended("BLOCKED"), w))
    BY <1>2, DbFollowsType, OperatorFollows, DbFollowsTransitive
  <1>4. DbFollows(d, settled)
    <2>1. Follows(d.works, ws)
      BY FollowsItself, EndsFollows DEF DbType
    <2> HIDE DEF ws
    <2>2. DbFollows(d, Db(d.case, ws))
      BY <2>1, DbParts DEF DbFollows, DbType
    <2>3. settled = Db(Db(d.case, ws).case, settled_handoff(Db(d.case, ws).case, Db(d.case, ws).works, e))
      BY DbParts
    <2> HIDE DEF settled
    <2>4. QED
      BY <2>2, <2>3, DbFollowsType, SettledFollows, DbFollowsTransitive
  <1> HIDE DEF settled, ended
  <1>5. QED
    BY <1>1, <1>3, <1>4, DbFollowsItself, DbCancelFollows

LEMMA EnsureFollows ==
  ASSUME NEW d, DbType(d), NEW e
  PROVE  DbFollows(d, ensure_recovery_work(d, e))
  <1> DEFINE ws == create_work(d.case, d.works, "recheck", <<"effect", 0>>, FALSE)
             w == CHOOSE v \in Recheck(ws) : TRUE
  <1>1. ensure_recovery_work(d, e) \in {d, check_recovery_work(Db(d.case, ws), w, e)}
    BY DEF ensure_recovery_work
  <1>2. DbFollows(d, Db(d.case, ws))
    BY DbCreateFollows
  <1> HIDE DEF ws, w
  <1>3. QED
    BY <1>1, <1>2, DbFollowsItself, DbFollowsType, CheckFollows, DbFollowsTransitive

LEMMA HandoffFollows ==
  ASSUME NEW d, DbType(d), NEW e
  PROVE  DbFollows(d, effect_handoff(d, e))
  BY EnsureFollows, SettledFollows DEF effect_handoff

LEMMA BlockFollows ==
  ASSUME case \in CaseRows, Table(works), NEW w
  PROVE  DbFollows(Db(case, works), BlockAndEscalate(w))
  <1> DEFINE d == Db(case, Ends(works, w, "BLOCKED"))
  <1>1. DbType(Db(case, works))
    BY DbParts DEF DbType
  <1>2. DbFollows(Db(case, works), d)
    BY EndsFollows, DbParts DEF DbFollows
  <1> HIDE DEF d
  <1>3. QED
    BY <1>2, DbFollowsType, EscalateFollows, DbFollowsTransitive DEF BlockAndEscalate, d

LEMMA RouteFollows ==
  ASSUME NEW d, DbType(d), NEW routes, NEW route, NEW kind, NEW w
  PROVE  DbFollows(d, RouteOne(d, routes, route, kind, w))
  BY DbFollowsItself, DbCreateFollows DEF RouteOne

LEMMA RouteEffectFollows ==
  ASSUME NEW d, DbType(d)
  PROVE  DbFollows(d, RouteEffect(d))
  BY DbFollowsItself, EnsureFollows, EscalateFollows, DbCreateFollows DEF RouteEffect

LEMMA RouteAllFollows ==
  ASSUME case \in CaseRows, Table(works), NEW w, NEW routes
  PROVE  DbFollows(Db(case, works), RouteAll(w, routes))
  <1> DEFINE d == Db(case, works)
             early == RouteOne(d, routes, "early", "followup", w)
             effects == RouteEffect(early)
             late == RouteOne(effects, routes, "followup", "followup", w)
  <1>1. DbType(d)
    BY DbParts DEF DbType
  <1>2. DbFollows(d, early)
    BY <1>1, RouteFollows
  <1>3. DbFollows(d, effects)
    BY <1>2, DbFollowsType, RouteEffectFollows, DbFollowsTransitive
  <1>4. DbFollows(d, late)
    BY <1>3, DbFollowsType, RouteFollows, DbFollowsTransitive
  <1>5. DbFollows(d, RouteOne(late, routes, "verify", "verify", w))
    BY <1>4, DbFollowsType, RouteFollows, DbFollowsTransitive
  <1>6. QED
    BY <1>5 DEF RouteAll

-----------------------------------------------------------------------------
(* Steps                                                                   *)

Inv == case \in CaseRows /\ Table(works)

(* A resumption among the steps finds the revision its work expects.       *)
ResumesAtOwnRevision ==
  \A w \in Slots : Resumes(w) => case.rev = works[w].created + works[w].rebased

Good == Inv' /\ ResumesAtOwnRevision

LEMMA InitInv == Init => Inv
  <1> SUFFICES ASSUME Init PROVE Inv
    OBVIOUS
  <1>1. case \in CaseRows
    BY DEF Init, CaseRows, CaseStatus
  <1> DEFINE S == {"resume", <<"decision", 0>>, "ABSENT", "NEW", "none", 0}
  <1>2. /\ "resume" \in S /\ <<"decision", 0>> \in S /\ "ABSENT" \in S /\ "NEW" \in S
        /\ "none" \in S /\ 0 \in S
    OBVIOUS
  <1> HIDE DEF S
  <1>3. Absent \in Rows(S) /\ Absent.expRev = Absent.created + Absent.rebased
    BY <1>2 DEF Absent, Rows
  <1>4. works \in [Slots -> Rows(S)] /\ \A w \in Slots : works[w] = Absent
    BY <1>3 DEF Init
  <1>5. QED
    BY <1>1, <1>3, <1>4 DEF Inv, Table, Balanced

LEMMA FollowsGood ==
  ASSUME Inv, case' \in CaseRows, Follows(works, works')
  PROVE  Good
  BY DEF Good, Inv, Follows, ResumesAtOwnRevision, Resumes

LEMMA CommitGood ==
  ASSUME Inv, NEW d, DbFollows(Db(case, works), d), Commit(d)
  PROVE  Good
  BY FollowsGood, DbParts DEF DbFollows, Commit

(* Steps that leave the Case row and the table alone.                      *)
LEMMA StillGood ==
  ASSUME Inv, UNCHANGED <<case, works>>
  PROVE  Good
  BY FollowsGood, FollowsItself DEF Inv

(* Steps that move the Case row only.                                      *)
LEMMA CaseOnlyGood ==
  ASSUME Inv, case' \in CaseRows, UNCHANGED works
  PROVE  Good
  BY FollowsGood, FollowsItself DEF Inv

(* A step that writes one row of the table and neither its revisions nor   *)
(* its resumption.                                                         *)
LEMMA RowGood ==
  ASSUME Inv, UNCHANGED case, NEW w, NEW r, NEW S,
         works' = [works EXCEPT ![w] = r],
         w \in Slots => /\ r \in Rows(S) /\ r.resTok = works[w].resTok
                        /\ r.expRev = r.created + r.rebased
  PROVE  Good
  BY FollowsGood, PutFollows DEF Inv

LEMMA recover_if_ownedGood ==
  ASSUME Inv, NEW t, recover_if_owned(t)
  PROVE  Good
  <1>1. CASE ~Recoverable(FirstRead(t))
    BY <1>1, StillGood DEF recover_if_owned
  <1>2. CASE Recoverable(FirstRead(t))
    <2> DEFINE w == job[t].w
               r == [works[w] EXCEPT !.expRev = case.rev + 1, !.rebased = @ + 1]
    <2>1. /\ case' = [case EXCEPT !.rev = @ + 1]
          /\ works' = [works EXCEPT ![w].expRev = case.rev + 1, ![w].rebased = @ + 1]
          /\ works[w].expRev = case.rev
      BY <1>2 DEF recover_if_owned, OwnRevision, Stale, Mine
    <2>2. PICK S : works \in [Slots -> Rows(S)]
      BY DEF Inv, Table
    <2>3. works' = [works EXCEPT ![w] = r]
      <3>1. CASE w \in Slots
        BY <2>1, <2>2, <3>1
      <3>2. CASE w \notin Slots
        BY <2>1, <2>2, <3>2
      <3>3. QED
        BY <3>1, <3>2
    <2>4. ASSUME w \in Slots
          PROVE  /\ r \in Rows(S) /\ r.resTok = works[w].resTok
                 /\ r.expRev = r.created + r.rebased
      <3>1. works[w] \in Rows(S) /\ works[w].expRev = works[w].created + works[w].rebased
        BY <2>2, <2>4 DEF Inv, Table, Balanced
      <3>2. PICK n \in Nat, m \in Nat : n = case.rev + 1 /\ m = works[w].rebased + 1
        BY <3>1 DEF Inv, CaseRows, Rows
      <3>3. n = works[w].created + m
        <4>1. works[w].expRev = case.rev
          BY <2>1
        <4>2. works[w].created \in Nat /\ works[w].rebased \in Nat
          BY <3>1 DEF Rows
        <4>3. QED
          BY <3>1, <3>2, <4>1, <4>2
      <3>4. r = [works[w] EXCEPT !.expRev = n, !.rebased = m]
        BY <3>2
      <3> HIDE DEF r
      <3>5. /\ r \in Rows(S) /\ r.resTok = works[w].resTok
            /\ r.expRev = n /\ r.created = works[w].created /\ r.rebased = m
        BY <3>1, <3>4 DEF Rows
      <3>6. QED
        BY <3>3, <3>5
    <2>5. case' \in CaseRows
      BY <2>1 DEF Inv, CaseRows
    <2> HIDE DEF r
    <2>6. Follows(works, works')
      BY <2>3, <2>4, PutFollows DEF Inv
    <2>7. QED
      BY <2>5, <2>6, FollowsGood
  <1>3. QED
    BY <1>1, <1>2

LEMMA ResumeCommitsGood ==
  ASSUME Inv, NEW t, NEW progress, ResumeCommits(t, progress)
  PROVE  Good
  <1> DEFINE w == job[t].w
  <1>1. /\ case' = [case EXCEPT !.status = "INVESTIGATING", !.rev = @ + 1]
        /\ works' = [works EXCEPT ![w].resTok = job[t].tok]
        /\ works[w].expRev = case.rev
    BY DEF ResumeCommits, OwnRevision, Stale, Mine
  <1>2. PICK S : works \in [Slots -> Rows(S)]
    BY DEF Inv, Table
  <1> DEFINE U == S \cup {job[t].tok}
  <1>3. works \in [Slots -> Rows(U)] /\ job[t].tok \in U
    BY <1>2, TableGrows
  <1> HIDE DEF U
  <1>4. \A v \in Slots : /\ works'[v] \in Rows(U)
                         /\ v # w => works'[v] = works[v]
                         /\ works'[v].expRev = works[v].expRev
                         /\ works'[v].created = works[v].created
                         /\ works'[v].rebased = works[v].rebased
    BY <1>1, <1>3 DEF Rows
  <1>5. works' \in [Slots -> Rows(U)]
    BY <1>1, <1>3, <1>4
  <1>6. case' \in CaseRows
    BY <1>1, CaseMoves DEF Inv, CaseStatus
  <1>7. Balanced(works')
    BY <1>4 DEF Inv, Table, Balanced
  <1>8. ResumesAtOwnRevision
    BY <1>1, <1>4 DEF Inv, Table, Balanced, ResumesAtOwnRevision, Resumes
  <1>9. QED
    BY <1>5, <1>6, <1>7, <1>8 DEF Good, Inv, Table

-----------------------------------------------------------------------------
(* The remaining steps, by what they write                                 *)

QuietStep(t) ==
  \/ GivesUp(t) \/ Inspect(t) \/ DirectRun(t) \/ Turn(t) \/ RunStops(t)
  \/ ReserveRaises(t) \/ mark_error(t) \/ LeaseLost(t) \/ OutOfRoom(t)
  \/ HandoffRaises(t) \/ ack(t) \/ Crash(t)
  \/ \E u : Redeliver(t, u)
  \/ \E w : poll_unhanded_reports(t, w)
  \/ \E verdict : record(t, verdict)

LEMMA QuietGood ==
  ASSUME Inv, NEW t, QuietStep(t)
  PROVE  Good
  <1>1. UNCHANGED <<case, works>>
    BY DEF QuietStep, GivesUp, Inspect, DirectRun, Turn, RunStops, ReserveRaises,
           mark_error, LeaseLost, OutOfRoom, HandoffRaises, ack, Crash, Redeliver,
           poll_unhanded_reports, record
  <1>2. QED
    BY <1>1, StillGood

CaseStep(t) ==
  before_investigation(t) \/ reserve_call(t) \/ execute(t) \/ record_call(t) \/ EffectPrepared

LEMMA CaseStepGood ==
  ASSUME Inv, NEW t, CaseStep(t)
  PROVE  Good
  <1> DEFINE reserved == [status |-> "INVESTIGATING", rev |-> case.rev + 1, used |-> case.used + 1]
  <1>1. case' \in {case, [case EXCEPT !.rev = @ + 1], reserved} /\ UNCHANGED works
    BY DEF CaseStep, before_investigation, reserve_call, execute, record_call,
           EffectPrepared, Reservation
  <1>2. reserved \in CaseRows
    BY DEF Inv, CaseRows, CaseStatus
  <1>3. [case EXCEPT !.rev = @ + 1] \in CaseRows
    BY CaseMoves DEF Inv, CaseStatus
  <1> HIDE DEF reserved
  <1>4. QED
    BY <1>1, <1>2, <1>3, CaseOnlyGood DEF Inv

RowStep(t, w) ==
  \/ claim(t, w) \/ submit_signal(w) \/ DueArrives(w) \/ LeaseExpires(w)
  \/ w = job[t].w /\ (Begin(t) \/ start_once(t) \/ RecheckBegins(t) \/ GoesStale(t))

LEMMA RowStepGood ==
  ASSUME Inv, NEW t, NEW w, RowStep(t, w)
  PROVE  Good
  <1>1. PICK S : works \in [Slots -> Rows(S)]
    BY DEF Inv, Table
  <1>2. UNCHANGED case
    BY DEF RowStep, claim, submit_signal, DueArrives, LeaseExpires, Begin, start_once,
           RecheckBegins, GoesStale
  <1>3. CASE GoesStale(t)
    BY <1>2, <1>3, EndsFollows, FollowsGood DEF GoesStale, Inv
  <1>4. CASE w \notin Slots /\ ~GoesStale(t)
    <2>1. works' = works
      BY <1>1, <1>4 DEF RowStep, claim, submit_signal, DueArrives, LeaseExpires, Begin,
           start_once, RecheckBegins
    <2>2. QED
      BY <1>2, <2>1, StillGood
  <1>5. CASE w \in Slots /\ ~GoesStale(t)
    <2> DEFINE row == works[w]
               T == S \cup {"CLAIMED", "given", row.token + 1, job[t].tok}
    <2>1. works \in [Slots -> Rows(T)]
      BY <1>1, TableGrows
    <2>2. "CLAIMED" \in T /\ "given" \in T /\ row.token + 1 \in T /\ job[t].tok \in T
      OBVIOUS
    <2> HIDE DEF T
    <2>3. row \in Rows(T) /\ row.expRev = row.created + row.rebased
      BY <1>5, <2>1 DEF Inv, Table, Balanced
    <2> DEFINE claimed == [row EXCEPT !.status = "CLAIMED", !.live = TRUE, !.token = row.token + 1]
               signalled == [row EXCEPT !.signal = "given"]
               ripe == [row EXCEPT !.due = TRUE]
               expired == [row EXCEPT !.live = FALSE]
               recovered == [row EXCEPT !.recTok = job[t].tok]
               started == [row EXCEPT !.started = TRUE]
               Keeps(r) == /\ r \in Rows(T) /\ r.resTok = row.resTok
                           /\ r.expRev = r.created + r.rebased
    <2>4. \E r \in {claimed, signalled, ripe, expired, recovered, started} :
            works' = [works EXCEPT ![w] = r]
      BY <1>5, <2>1 DEF RowStep, claim, submit_signal, DueArrives, LeaseExpires, Begin,
           start_once, RecheckBegins
    <2>5. Keeps(claimed) /\ Keeps(signalled)
      BY <2>2, <2>3 DEF Rows
    <2>6. Keeps(ripe) /\ Keeps(expired)
      BY <2>3 DEF Rows
    <2>7. Keeps(recovered) /\ Keeps(started)
      BY <2>2, <2>3 DEF Rows
    <2> HIDE DEF row, claimed, signalled, ripe, expired, recovered, started
    <2>8. PICK r : Keeps(r) /\ works' = [works EXCEPT ![w] = r]
      BY <2>4, <2>5, <2>6, <2>7
    <2>9. QED
      BY <1>2, <2>8, RowGood DEF row
  <1>6. QED
    BY <1>3, <1>4, <1>5

-----------------------------------------------------------------------------
(* The transactions that create, end or cancel work                        *)

LEMMA DbNow ==
  ASSUME Inv
  PROVE  DbType(Db(case, works)) /\ Db(case, works).case = case /\ Db(case, works).works = works
  BY DbParts DEF DbType, Inv

LEMMA poll_due_workGood ==
  ASSUME Inv, NEW w, poll_due_work(w)
  PROVE  Good
  <1>1. PICK d \in {check_recovery_work(Db(case, works), w, effect),
                   Db(case, Ends(works, w, "CANCELED"))} : Commit(d)
    BY DEF poll_due_work
  <1>2. DbFollows(Db(case, works), check_recovery_work(Db(case, works), w, effect))
    BY DbNow, CheckFollows
  <1>3. DbFollows(Db(case, works), Db(case, Ends(works, w, "CANCELED")))
    BY DbNow, DbEndsFollows
  <1>4. QED
    BY <1>1, <1>2, <1>3, CommitGood

LEMMA BlockGood ==
  ASSUME Inv, NEW t, NEW progress,
         Interrupt(t) \/ ResumeBlocks(t, progress) \/ VerifyBlocks(t)
  PROVE  Good
  <1>1. Commit(BlockAndEscalate(job[t].w))
    BY DEF Interrupt, ResumeBlocks, VerifyBlocks
  <1>2. QED
    BY <1>1, BlockFollows, CommitGood DEF Inv

LEMMA pause_if_currentGood ==
  ASSUME Inv, NEW t, NEW status \in {"WAITING", "ESCALATED"}, pause_if_current(t, status)
  PROVE  Good
  <1> DEFINE to == IF status = "WAITING" /\ quota.resumes >= MaxResumes THEN "ESCALATED" ELSE status
             c == [case EXCEPT !.status = to, !.rev = @ + 1]
             kind == IF c.status = "WAITING" THEN "resume" ELSE "followup"
             ws == create_work(c, works, kind, <<"decision", c.rev>>, kind = "followup")
  <1>1. Commit(Db(c, ws))
    BY DEF pause_if_current
  <1>2. to \in CaseStatus
    BY DEF CaseStatus
  <1> HIDE DEF to
  <1>3. c \in CaseRows
    BY <1>2, CaseMoves DEF Inv
  <1> HIDE DEF c
  <1>4. Follows(works, ws)
    BY <1>3, CreateFollows DEF Inv
  <1> HIDE DEF ws
  <1>5. QED
    BY <1>1, <1>3, <1>4, DbParts, FollowsGood DEF Commit

LEMMA finishGood ==
  ASSUME Inv, NEW t, NEW progress, finish(t, progress)
  PROVE  Good
  <1> DEFINE w == job[t].w
             d == Db(case, Ends(works, w, "COMPLETED"))
  <1>1. PICK e \in {d, escalate_in(d, <<"work", w>>)} : Commit(e)
    BY DEF finish
  <1>2. DbFollows(Db(case, works), d)
    BY DbNow, DbEndsFollows
  <1> HIDE DEF d
  <1>3. DbFollows(Db(case, works), escalate_in(d, <<"work", w>>))
    BY <1>2, DbFollowsType, EscalateFollows, DbFollowsTransitive
  <1>4. QED
    BY <1>1, <1>2, <1>3, CommitGood

LEMMA closeGood ==
  ASSUME Inv, NEW t, close(t)
  PROVE  Good
  <1> DEFINE c == [case EXCEPT !.status = "CLOSED_VERIFIED", !.rev = @ + 1]
             ws == cancel_terminal_work(works)
  <1>1. UNCHANGED <<case, works>> \/ Commit(Db(c, ws))
    BY DEF close
  <1>2. c \in CaseRows
    BY CaseMoves DEF Inv, CaseStatus
  <1>3. Follows(works, ws)
    BY CancelFollows DEF Inv
  <1> HIDE DEF c, ws
  <1>4. CASE Commit(Db(c, ws))
    BY <1>2, <1>3, <1>4, DbParts, FollowsGood DEF Commit
  <1>5. QED
    BY <1>1, <1>4, StillGood

LEMMA consumeGood ==
  ASSUME Inv, NEW t, NEW routes, consume(t, routes)
  PROVE  Good
  <1> DEFINE w == job[t].w
             d == Db(case, create_work(case, works, "followup", <<"report", w>>, TRUE))
  <1>1. PICK e \in {d, RouteAll(w, routes)} : Commit(e)
    BY DEF consume
  <1>2. DbFollows(Db(case, works), d)
    BY DbNow, DbCreateFollows
  <1>3. DbFollows(Db(case, works), RouteAll(w, routes))
    BY RouteAllFollows DEF Inv
  <1> HIDE DEF d
  <1>4. QED
    BY <1>1, <1>2, <1>3, CommitGood

LEMMA UndueFollows ==
  ASSUME NEW ws, Table(ws), NEW w
  PROVE  Follows(ws, [ws EXCEPT ![w].due = FALSE])
  <1>1. PICK S : ws \in [Slots -> Rows(S)]
    BY DEF Table
  <1> DEFINE r == [ws[w] EXCEPT !.due = FALSE]
  <1>2. w \in Slots => /\ r \in Rows(S) /\ r.resTok = ws[w].resTok
                       /\ r.expRev = r.created + r.rebased
    BY <1>1 DEF Rows, Table, Balanced
  <1>3. [ws EXCEPT ![w].due = FALSE] = [ws EXCEPT ![w] = r]
    <2>1. CASE w \in Slots
      BY <1>1, <2>1
    <2>2. CASE w \notin Slots
      BY <1>1, <2>2
    <2>3. QED
      BY <2>1, <2>2
  <1> HIDE DEF r
  <1>4. Follows(ws, [ws EXCEPT ![w] = r])
    BY <1>2, PutFollows
  <1>5. QED
    BY <1>3, <1>4

LEMMA RecheckEndsGood ==
  ASSUME Inv, NEW t, NEW progress, NEW limit, RecheckEnds(t, progress, limit)
  PROVE  Good
  <1> DEFINE w == job[t].w
             done == Db(case, Ends(works, w, "COMPLETED"))
             back == Ends(works, w, "PENDING")
             again == Db(case, [back EXCEPT ![w].due = FALSE])
  <1>1. PICK e \in {effect_handoff(done, effect), BlockAndEscalate(w), again} : Commit(e)
    BY DEF RecheckEnds
  <1>2. DbFollows(Db(case, works), effect_handoff(done, effect))
    <2>1. DbFollows(Db(case, works), done)
      BY DbNow, DbEndsFollows
    <2> HIDE DEF done
    <2>2. QED
      BY <2>1, DbFollowsType, HandoffFollows, DbFollowsTransitive
  <1>3. DbFollows(Db(case, works), BlockAndEscalate(w))
    BY BlockFollows DEF Inv
  <1>4. DbFollows(Db(case, works), again)
    <2>1. Follows(works, back)
      BY EndsFollows DEF Inv
    <2> HIDE DEF back
    <2>2. Table(back)
      BY <2>1 DEF Follows
    <2>3. Follows(back, [back EXCEPT ![w].due = FALSE])
      BY <2>2, UndueFollows, Zenon
    <2>4. Follows(works, [back EXCEPT ![w].due = FALSE])
      BY <2>1, <2>3, FollowsTransitive
    <2>5. QED
      BY <2>4, DbParts DEF DbFollows, Inv
  <1> HIDE DEF done, again
  <1>5. QED
    BY <1>1, <1>2, <1>3, <1>4, CommitGood

LEMMA EffectStepGood ==
  ASSUME Inv, EffectStep
  PROVE  Good
  <1>1. CASE EnsureRecheck
    BY <1>1, DbNow, EnsureFollows, CommitGood DEF EnsureRecheck
  <1>2. CASE EffectPrepared
    BY <1>2, CaseStepGood DEF CaseStep
  <1>3. CASE EffectExhausted
    BY <1>3, StillGood DEF EffectExhausted
  <1>4. ASSUME NEW status, EffectMoves(status)
        PROVE  Good
    <2>1. PICK e : Commit(effect_handoff(Db(case, works), e))
      BY <1>4 DEF EffectMoves
    <2>2. QED
      BY <2>1, DbNow, HandoffFollows, CommitGood
  <1>5. QED
    BY <1>1, <1>2, <1>3, <1>4 DEF EffectStep

(***************************************************************************)
(* One step per group of Next.                                             *)
(***************************************************************************)
LEMMA NextGood ==
  ASSUME Inv, [Next]_vars
  PROVE  Good
  <1>1. CASE UNCHANGED vars
    BY <1>1, StillGood DEF vars
  <1>2. CASE TakesUp
    BY <1>2, QuietGood, RowStepGood, CaseStepGood DEF TakesUp, QuietStep, RowStep, CaseStep
  <1>3. CASE EffectStep
    BY <1>3, EffectStepGood
  <1>4. CASE Environment
    <2>1. ASSUME NEW c, ObservationStored(c) PROVE Good
      BY <2>1, StillGood DEF ObservationStored
    <2>2. QED
      BY <1>4, <2>1, RowStepGood, poll_due_workGood, QuietGood
         DEF Environment, RowStep, QuietStep
  <1>5. ASSUME NEW t, ClaimStep(t) PROVE Good
    BY <1>5, QuietGood, RowStepGood, BlockGood, recover_if_ownedGood, ResumeCommitsGood,
       RecheckEndsGood DEF ClaimStep, QuietStep, RowStep
  <1>6. ASSUME NEW t, RunStep(t) PROVE Good
    BY <1>6, QuietGood, CaseStepGood, pause_if_currentGood DEF RunStep, QuietStep, CaseStep
  <1>7. ASSUME NEW t, ReportStep(t) PROVE Good
    BY <1>7, QuietGood, finishGood, closeGood, consumeGood DEF ReportStep, QuietStep
  <1>8. QED
    BY <1>1, <1>2, <1>3, <1>4, <1>5, <1>6, <1>7 DEF Next, WorkerStep

(***************************************************************************)
(* A resumed work item finds the Case at the revision it was created at,   *)
(* advanced only by the reads its own claims published: resume trusts      *)
(* expected_revision, which recover_if_owned moves, and nothing else moves *)
(* either of them apart.                                                   *)
(***************************************************************************)
THEOREM NoForeignChange == Spec => ResumeSeesNoForeignChange
  <1>1. Init => Inv
    BY InitInv
  <1>2. Inv /\ [Next]_vars => Inv'
    BY NextGood DEF Good
  <1>3. Inv /\ [Next]_vars => [ResumesAtOwnRevision]_vars
    BY NextGood DEF Good
  <1>4. ResumeSeesNoForeignChange <=> [][ResumesAtOwnRevision]_vars
    BY PTL DEF ResumeSeesNoForeignChange, ResumesAtOwnRevision
  <1>5. QED
    BY <1>1, <1>2, <1>3, <1>4, PTL DEF Spec
=============================================================================

---------------------------- MODULE EffectProofs ----------------------------
(***************************************************************************)
(* Theorems about EffectBoundary, for every set of effects, capabilities,  *)
(* approvals and threads, every attempt limit and both lookup contracts.   *)
(* The first part proves types, the ledger's order and one send; the       *)
(* second what recovery, settlement and closure promise together: leases   *)
(* and attempts, the truth of a settled row, the work an effect leaves     *)
(* behind, and the contract that EffectContract states.                    *)
(***************************************************************************)
EXTENDS EffectRefinement, TLAPS

(***************************************************************************)
(* Type correctness is not inductive alone: what a step writes comes from  *)
(* the thread's last result and from rows it reached through other rows.   *)
(***************************************************************************)
RecoveryPCs == {"lookup", "persist", "transition", "resume", "finish", "error"}

JobShape ==
  \A w \in Workers :
    /\ job[w].pc # "idle" => job[w].key \in Keys
    /\ job[w].pc \in {"verify", "prepare", "dispatch"} =>
         job[w].cap \in Caps /\ caps[job[w].cap].key = job[w].key
    /\ job[w].pc = "settle" => job[w].got \in ReceiptOutcome \cup {"UNKNOWN"}
    /\ job[w].pc = "persist" => job[w].got \in LookupStatus \cup {"UNBOUND"}
    /\ job[w].pc \in RecoveryPCs => job[w].seq \in Seqs

RowShape ==
  /\ \A c \in Caps : caps[c].issued <=> caps[c].key \in Keys
  /\ \A k \in Keys : ledger[k].status # "ABSENT" =>
       ledger[k].cap \in Caps /\ caps[ledger[k].cap].key = k

TypeInv == TypeOK /\ JobShape /\ RowShape

USE DEF Workers, Seqs, Idle, RecoveryPCs, caseVars

LEMMA SyncRowType ==
  ASSUME NEW r \in RecoveryRow, NEW s \in RowStatus
  PROVE  SyncRow(r, s) \in RecoveryRow
BY DEF SyncRow, RecoveryRow

LEMMA FinishRowType ==
  ASSUME NEW r \in RecoveryRow, NEW i, NEW s, NEW e
  PROVE  FinishRow(r, i, s, e) \in RecoveryRow
BY DEF FinishRow, RecoveryRow

LEMMA HandoffType ==
  ASSUME NEW s, NEW v
  PROVE  effect_handoff(s, v) \subseteq WorkKinds
BY DEF effect_handoff, WorkKinds

LEMMA PublishType ==
  ASSUME TypeOK, NEW k \in Keys, NEW s, Publish(k, s)
  PROVE  /\ caseOpen' \in BOOLEAN /\ revision' \in Nat
         /\ mutations' \in 0..MaxMutations
         /\ handoff' \in [Keys -> SUBSET WorkKinds]
  <1>1. PICK f, b \in BOOLEAN :
          /\ handoff' = [handoff EXCEPT ![k] =
               @ \cup effect_handoff(s, k \in Verifiable)
                 \cup (IF f THEN {"OPERATOR_FOLLOWUP"} ELSE {})]
          /\ revision' = IF b THEN revision + 1 ELSE revision
          /\ UNCHANGED <<caseOpen, mutations>>
    BY DEF Publish
  <1>2. effect_handoff(s, k \in Verifiable) \subseteq WorkKinds
    BY HandoffType
  <1>3. handoff' \in [Keys -> SUBSET WorkKinds]
    BY <1>1, <1>2 DEF TypeOK, WorkKinds
  <1>4. /\ caseOpen' \in BOOLEAN /\ revision' \in Nat
        /\ mutations' \in 0..MaxMutations
    BY <1>1 DEF TypeOK
  <1> QED BY <1>3, <1>4

LEMMA TypeInit == Init => TypeInv
  <1> SUFFICES ASSUME Init PROVE TypeInv OBVIOUS
  <1>1. TypeOK
    BY SetsAssumption, PolicyAssumption DEF Init, TypeOK, ApprovalRow, CapRow,
      EffectRow, RecoveryRow, AttemptRow, Job, PCs, Got, RowStatus, RemoteStates,
      WorkKinds
  <1>2. JobShape BY DEF Init, JobShape
  <1>3. RowShape BY SetsAssumption DEF Init, RowShape
  <1> QED BY <1>1, <1>2, <1>3 DEF TypeInv

\* A step that changes only what one thread is doing.
LEMMA JobOnly ==
  ASSUME TypeInv, NEW w \in Workers, NEW j \in Job,
         job' = [job EXCEPT ![w] = j],
         j.pc # "idle" => j.key \in Keys,
         j.pc \in {"verify", "prepare", "dispatch"} =>
           j.cap \in Caps /\ caps[j.cap].key = j.key,
         j.pc = "settle" => j.got \in ReceiptOutcome \cup {"UNKNOWN"},
         j.pc = "persist" => j.got \in LookupStatus \cup {"UNBOUND"},
         j.pc \in RecoveryPCs => j.seq \in Seqs,
         \A c \in Caps : caps'[c].key = caps[c].key
  PROVE  job' \in [Workers -> Job] /\ JobShape'
  <1>1. job' \in [Workers -> Job] BY DEF TypeInv, TypeOK
  <1>2. \A v \in Workers : job'[v] = IF v = w THEN j ELSE job[v]
    BY DEF TypeInv, TypeOK
  <1>3. JobShape' BY <1>2 DEF TypeInv, JobShape
  <1> QED BY <1>1, <1>3

LEMMA IdleType == Idle \in Job
BY PolicyAssumption DEF Job, PCs, Got

LEMMA GoIdle ==
  ASSUME TypeInv, NEW w \in Workers, job' = [job EXCEPT ![w] = Idle],
         \A c \in Caps : caps'[c].key = caps[c].key
  PROVE  job' \in [Workers -> Job] /\ JobShape'
  <1> DEFINE j == Idle
  <1>1. j \in Job /\ j.pc = "idle" BY IdleType
  <1> HIDE DEF j
  <1>2. job' = [job EXCEPT ![w] = j] BY DEF j
  <1> QED BY <1>1, <1>2, JobOnly

LEMMA FailType ==
  ASSUME TypeInv, NEW w \in Workers, NEW f \in RecoveryFailure,
         job[w].pc # "idle", Fail(w, f),
         \A c \in Caps : caps'[c].key = caps[c].key
  PROVE  job' \in [Workers -> Job] /\ JobShape'
  <1>1. job[w] \in Job /\ job[w].key \in Keys BY DEF TypeInv, TypeOK, JobShape
  <1>2. CASE job[w].seq = 0
    BY <1>2, GoIdle DEF Fail
  <1>3. CASE job[w].seq # 0
    <2> DEFINE j == [job[w] EXCEPT !.pc = "error", !.got = f]
    <2>1. job' = [job EXCEPT ![w] = j] BY <1>3 DEF Fail
    <2>2. j \in Job /\ j.pc = "error" /\ j.key \in Keys /\ j.seq \in Seqs
      BY <1>1, <1>3 DEF Job, PCs, Got
    <2> HIDE DEF j
    <2> QED BY <2>1, <2>2, JobOnly
  <1> QED BY <1>2, <1>3

LEMMA SameJobs ==
  ASSUME JobShape, job' = job, \A c \in Caps : caps'[c].key = caps[c].key
  PROVE  JobShape'
BY DEF JobShape

LEMMA SameRows ==
  ASSUME RowShape, caps' = caps, ledger' = ledger
  PROVE  RowShape'
BY DEF RowShape

\* Rows of capabilities keep their effect, rows of effects their capability.
LEMMA KeptRows ==
  ASSUME RowShape,
         \A c \in Caps : caps'[c].issued = caps[c].issued /\ caps'[c].key = caps[c].key,
         \A k \in Keys : /\ ledger'[k].cap = ledger[k].cap
                         /\ ledger'[k].status # "ABSENT" => ledger[k].status # "ABSENT"
  PROVE  RowShape'
BY DEF RowShape

ConsumedCaps(c) ==
  /\ caps' \in [Caps -> CapRow]
  /\ \A d \in Caps : caps'[d].issued = caps[d].issued /\ caps'[d].key = caps[d].key

LEMMA ConsumeType ==
  ASSUME TypeOK, NEW c \in Caps, NEW k \in Keys, caps' = [caps EXCEPT ![c].used = k]
  PROVE  ConsumedCaps(c)
  <1>1. caps \in [Caps -> CapRow] BY DEF TypeOK
  <1> QED BY <1>1 DEF ConsumedCaps, CapRow

(***************************************************************************)
(* Each action preserves TypeInv.                                          *)
(***************************************************************************)
LEMMA TypeAuthorize ==
  ASSUME TypeInv, CaseMutates \/ CloseCase \/ Authorize \/ (\E c \in Caps : ExecuteReplays(c))
  PROVE  TypeInv'
  <1> USE DEF TypeInv
  <1>1. CASE CaseMutates
    <2>1. TypeOK' BY <1>1, PolicyAssumption DEF CaseMutates, TypeOK
    <2> QED BY <1>1, <2>1, SameJobs, SameRows DEF CaseMutates
  <1>2. CASE CloseCase
    <2>0. revision' \in Nat /\ mutations' \in 0..MaxMutations
      BY <1>2 DEF CloseCase, TypeOK
    <2>1. caseOpen' \in BOOLEAN BY <1>2, Zenon DEF CloseCase
    <2>2. TypeOK' BY <1>2, <2>0, <2>1, Zenon DEF CloseCase, TypeOK
    <2> QED BY <1>2, <2>2, SameJobs, SameRows DEF CloseCase
  <1>3. ASSUME NEW a \in Approvals, NEW k \in Keys, request_approval(a, k) PROVE TypeInv'
    <2>1. TypeOK' BY <1>3 DEF request_approval, TypeOK, ApprovalRow, ApprovalStatus
    <2> QED BY <1>3, <2>1, SameJobs, SameRows DEF request_approval
  <1>4. ASSUME NEW a \in Approvals, NEW d \in Decisions, decide_approval(a, d) PROVE TypeInv'
    <2>1. TypeOK' BY <1>4 DEF decide_approval, TypeOK, ApprovalRow, ApprovalStatus, Decisions
    <2> QED BY <1>4, <2>1, SameJobs, SameRows DEF decide_approval
  <1>5. ASSUME NEW c \in Caps, NEW k \in Keys, NEW a \in Approvals \cup {None},
               issue_capability(c, k, a)
        PROVE  TypeInv'
    <2> USE <1>5 DEF issue_capability
    <2>1. TypeOK' BY DEF TypeOK, CapRow
    <2>2. JobShape' BY DEF JobShape, RowShape, TypeOK, CapRow, Job
    <2>3. RowShape' BY SetsAssumption DEF RowShape, TypeOK, CapRow
    <2> QED BY <2>1, <2>2, <2>3
  <1>6. ASSUME NEW c \in Caps, ExecuteReplays(c) PROVE TypeInv'
    <2>1. caps[c].key \in Keys /\ caps' = [caps EXCEPT ![c].used = caps[c].key]
      BY <1>6 DEF ExecuteReplays, CapabilityHolds, RowShape
    <2>2. ConsumedCaps(c)
      BY <2>1, ConsumeType
    <2>3. TypeOK' BY <1>6, <2>2 DEF ExecuteReplays, TypeOK, ConsumedCaps
    <2>4. JobShape' BY <1>6, <2>2, SameJobs DEF ExecuteReplays, ConsumedCaps
    <2>5. RowShape' BY <1>6, <2>2, KeptRows DEF ExecuteReplays, ConsumedCaps
    <2> QED BY <2>3, <2>4, <2>5
  <1> QED BY <1>1, <1>2, <1>3, <1>4, <1>5, <1>6 DEF Authorize

LEMMA TypeDeadline ==
  ASSUME TypeInv, Deadline \/ External PROVE TypeInv'
  <1> USE DEF TypeInv
  <1>1. ASSUME NEW a \in Approvals, ApprovalExpires(a) PROVE TypeInv'
    <2>1. TypeOK' BY <1>1 DEF ApprovalExpires, TypeOK, ApprovalRow
    <2> QED BY <1>1, <2>1, SameJobs, SameRows DEF ApprovalExpires
  <1>2. ASSUME NEW c \in Caps, CapabilityExpires(c) PROVE TypeInv'
    <2>1. TypeOK' BY <1>2 DEF CapabilityExpires, TypeOK, CapRow
    <2>2. \A d \in Caps : caps'[d].issued = caps[d].issued /\ caps'[d].key = caps[d].key
      BY <1>2 DEF CapabilityExpires, TypeOK, CapRow
    <2> QED BY <1>2, <2>1, <2>2, SameJobs, KeptRows DEF CapabilityExpires
  <1>3. ASSUME NEW k \in Keys, GraceElapses(k) \/ BackoffElapses(k) \/ LeaseExpires(k)
        PROVE  TypeInv'
    <2>1. recovery \in [Keys -> RecoveryRow] BY DEF TypeOK
    <2>2. recovery' \in [Keys -> RecoveryRow]
      <3>1. CASE GraceElapses(k) BY <2>1, <3>1 DEF GraceElapses, RecoveryRow
      <3>2. CASE BackoffElapses(k) BY <2>1, <3>2 DEF BackoffElapses, RecoveryRow
      <3>3. CASE LeaseExpires(k) BY <2>1, <3>3 DEF LeaseExpires, RecoveryRow
      <3> QED BY <1>3, <3>1, <3>2, <3>3
    <2> USE <1>3 DEF GraceElapses, BackoffElapses, LeaseExpires
    <2>3. TypeOK' BY <2>2 DEF TypeOK
    <2> QED BY <2>3, SameJobs, SameRows
  <1>4. ASSUME NEW k \in Keys, RemoteHandles(k) \/ RemoteCompletes(k) \/ RequestLost(k)
        PROVE  TypeInv'
    <2> USE <1>4 DEF RemoteHandles, RemoteCompletes, RequestLost
    <2>1. remote' \in [Keys -> RemoteStates] /\ inflight' \in [Keys -> BOOLEAN]
      BY DEF TypeOK, RemoteStates
    <2>2. TypeOK' BY <2>1 DEF TypeOK
    <2> QED BY <2>2, SameJobs, SameRows
  <1> QED BY <1>1, <1>2, <1>3, <1>4 DEF Deadline, External

LEMMA TypeExecutor ==
  ASSUME TypeInv, NEW w \in Executors,
         ExecutorStep(w) \/ (\E c \in Caps : ExecuteStarts(w, c))
  PROVE  TypeInv'
  <1> USE DEF TypeInv
  <1>w. w \in Workers /\ job[w] \in Job BY DEF TypeOK
  <1>1. ASSUME NEW c \in Caps, ExecuteStarts(w, c) PROVE TypeInv'
    <2> DEFINE j == [Idle EXCEPT !.pc = "verify", !.cap = c, !.key = caps[c].key]
    <2>1. caps[c].key \in Keys
      BY <1>1 DEF ExecuteStarts, CapabilityHolds, RowShape
    <2>2. j \in Job /\ j.pc = "verify" /\ j.cap = c /\ j.key = caps[c].key
      BY <2>1, PolicyAssumption DEF Job, PCs, Got
    <2>3. job' = [job EXCEPT ![w] = j] /\ caps' = caps
      BY <1>1 DEF ExecuteStarts
    <2> HIDE DEF j
    <2>4. job' \in [Workers -> Job] /\ JobShape'
      BY <1>w, <2>1, <2>2, <2>3, JobOnly
    <2> QED BY <1>1, <2>4, SameRows DEF ExecuteStarts, TypeOK
  <1>2. CASE VerifyFresh(w)
    <2> DEFINE j == [job[w] EXCEPT !.pc = "prepare"]
    <2>1. job[w].pc = "verify" BY <1>2 DEF VerifyFresh
    <2>2. j \in Job /\ j.pc = "prepare" /\ j.cap = job[w].cap
            /\ j.key = job[w].key
      BY <1>w DEF Job, PCs
    <2>3. j.key \in Keys /\ j.cap \in Caps /\ caps[j.cap].key = j.key
      BY <1>w, <2>1, <2>2 DEF JobShape
    <2>4. job' = [job EXCEPT ![w] = j] /\ caps' = caps
      BY <1>2 DEF VerifyFresh, Goto
    <2> HIDE DEF j
    <2>5. job' \in [Workers -> Job] /\ JobShape'
      BY <1>w, <2>2, <2>3, <2>4, JobOnly
    <2> QED BY <1>2, <2>5, SameRows DEF VerifyFresh, TypeOK
  <1>3. ASSUME job[w].pc \in {"verify", "prepare"},
               job' = [job EXCEPT ![w] = Idle],
               caps' = caps \/ /\ CapabilityHolds(job[w].cap)
                               /\ caps' = [caps EXCEPT ![job[w].cap].used =
                                             caps[job[w].cap].key],
               UNCHANGED <<caseVars, approvals, ledger, recovery, attempts,
                           handoff, inflight, remote, sends>>
        PROVE  TypeInv'
    <2>1. job[w].cap \in Caps BY <1>w, <1>3 DEF JobShape
    <2>2. ConsumedCaps(job[w].cap)
      <3>1. CASE caps' = caps BY <3>1 DEF TypeOK, ConsumedCaps
      <3>2. CASE caps' # caps
        BY <1>3, <2>1, <3>2, ConsumeType DEF CapabilityHolds, RowShape
      <3> QED BY <3>1, <3>2
    <2>3. job' \in [Workers -> Job] /\ JobShape'
      BY <1>w, <1>3, <2>2, GoIdle DEF ConsumedCaps
    <2>4. RowShape' BY <1>3, <2>2, KeptRows DEF ConsumedCaps
    <2> QED BY <1>3, <2>2, <2>3, <2>4 DEF ConsumedCaps, TypeOK, caseVars
  <1>4. CASE VerifyStale(w) BY <1>3, <1>4 DEF VerifyStale
  <1>5. CASE PrepareReplays(w)
    BY <1>3, <1>5 DEF PrepareReplays, PrepareAllowed
  <1>6. CASE PrepareRaises(w) BY <1>3, <1>6 DEF PrepareRaises
  <1>7. CASE PrepareInserts(w)
    <2> DEFINE c == job[w].cap
               k == caps[c].key
               status == IF k \in Noops THEN "NOOP" ELSE "PREPARED"
    <2>1. c \in Caps /\ k \in Keys /\ job[w].key = k
      BY <1>w, <1>7 DEF PrepareInserts, JobShape
    <2>2. ConsumedCaps(c) BY <1>7, <2>1, ConsumeType DEF PrepareInserts
    <2>3. revision' \in Nat BY <1>7 DEF PrepareInserts, TypeOK
    <2>4. ledger' \in [Keys -> EffectRow]
      <3>1. [status |-> status, cap |-> c, prepared |-> revision',
             attempts |-> 0, ref |-> FALSE] \in EffectRow
        BY <2>1, <2>3 DEF EffectRow, RowStatus, EffectStatus
      <3>2. ledger \in [Keys -> EffectRow] BY DEF TypeOK
      <3> QED BY <1>7, <3>1, <3>2 DEF PrepareInserts
    <2>5. recovery' \in [Keys -> RecoveryRow]
      <3>1. recovery \in [Keys -> RecoveryRow] BY DEF TypeOK
      <3>2. status \in RowStatus BY DEF RowStatus, EffectStatus
      <3>3. SyncRow(recovery[k], status) \in RecoveryRow
        BY <2>1, <3>1, <3>2, SyncRowType
      <3> QED BY <1>7, <3>1, <3>3 DEF PrepareInserts
    <2>6. handoff' \in [Keys -> SUBSET WorkKinds]
      <3>1. handoff \in [Keys -> SUBSET WorkKinds] BY DEF TypeOK
      <3>2. effect_handoff(status, k \in Verifiable) \subseteq WorkKinds
        BY HandoffType
      <3>3. handoff' = [handoff EXCEPT ![k] =
              @ \cup effect_handoff(status, k \in Verifiable)]
        BY <1>7 DEF PrepareInserts
      <3> HIDE DEF status
      <3> QED BY <2>1, <3>1, <3>2, <3>3
    <2>7. job' \in [Workers -> Job] /\ JobShape'
      <3>1. CASE k \in Noops
        BY <1>w, <1>7, <2>2, <3>1, GoIdle DEF PrepareInserts, ConsumedCaps
      <3>2. CASE k \notin Noops
        <4> DEFINE j == [job[w] EXCEPT !.pc = "dispatch"]
        <4>1. j \in Job /\ j.pc = "dispatch" /\ j.cap = c /\ j.key = k
          BY <1>w, <2>1 DEF Job, PCs
        <4>2. job' = [job EXCEPT ![w] = j]
          BY <1>7, <3>2 DEF PrepareInserts, AfterPrepare
        <4> HIDE DEF j
        <4> QED BY <1>w, <2>1, <2>2, <4>1, <4>2, JobOnly DEF ConsumedCaps
      <3> QED BY <3>1, <3>2
    <2>8. RowShape'
      <3>1. /\ \A d \in Caps : /\ caps'[d].issued = caps[d].issued
                              /\ caps'[d].key = caps[d].key
            /\ ledger'[k].cap = c
            /\ \A l \in Keys : l # k => ledger'[l] = ledger[l]
        BY <1>7, <2>1, <2>2 DEF PrepareInserts, ConsumedCaps, TypeOK
      <3> QED BY <2>1, <3>1 DEF RowShape
    <2>9. TypeOK'
      BY <1>7, <2>2, <2>3, <2>4, <2>5, <2>6, <2>7
      DEF PrepareInserts, ConsumedCaps, TypeOK
    <2> QED BY <2>7, <2>8, <2>9
  <1> QED BY <1>1, <1>2, <1>4, <1>5, <1>6, <1>7 DEF ExecutorStep

\* A thread that keeps its effect, claim and capability and goes on to a step
\* that needs no result.
LEMMA GoOn ==
  ASSUME TypeInv, NEW w \in Workers, job[w].pc # "idle", NEW g \in Got,
         NEW pc \in PCs \ {"idle", "verify", "prepare", "dispatch", "settle",
                          "persist"},
         pc \in RecoveryPCs => job[w].seq \in Seqs,
         job' = [job EXCEPT ![w] = [@ EXCEPT !.pc = pc, !.got = g]],
         caps' = caps
  PROVE  job' \in [Workers -> Job] /\ JobShape'
  <1> DEFINE j == [job[w] EXCEPT !.pc = pc, !.got = g]
  <1>1. job[w] \in Job /\ job[w].key \in Keys BY DEF TypeInv, TypeOK, JobShape
  <1>2. /\ j \in Job /\ j.pc = pc /\ j.key \in Keys
        /\ pc \in RecoveryPCs => j.seq \in Seqs
    BY <1>1 DEF Job
  <1>3. job' = [job EXCEPT ![w] = j] OBVIOUS
  <1> HIDE DEF j
  <1> QED BY <1>2, <1>3, JobOnly

\* The ledger row of k is rewritten, and the index with it.
LEMMA LedgerType ==
  ASSUME TypeInv, NEW k \in Keys, NEW s \in RowStatus, NEW a \in {0, 1},
         NEW r \in BOOLEAN, ledger[k].status # "ABSENT",
         ledger' = [ledger EXCEPT ![k] = [@ EXCEPT !.status = s, !.attempts = a,
                                                  !.ref = r]],
         caps' = caps
  PROVE  ledger' \in [Keys -> EffectRow] /\ RowShape'
  <1>1. ledger \in [Keys -> EffectRow] BY DEF TypeInv, TypeOK
  <1>2. [ledger[k] EXCEPT !.status = s, !.attempts = a, !.ref = r] \in EffectRow
    BY <1>1 DEF EffectRow
  <1>3. \A l \in Keys : /\ ledger'[l].cap = ledger[l].cap
                        /\ ledger[l].status = "ABSENT" => ledger'[l] = ledger[l]
    BY <1>1 DEF EffectRow
  <1>4. RowShape' BY <1>3, KeptRows DEF TypeInv
  <1> QED BY <1>1, <1>2, <1>4

LEMMA SyncType ==
  ASSUME TypeOK, NEW k \in Keys, NEW s \in RowStatus,
         recovery' = [recovery EXCEPT ![k] = SyncRow(@, s)]
  PROVE  recovery' \in [Keys -> RecoveryRow]
  <1>1. recovery \in [Keys -> RecoveryRow] BY DEF TypeOK
  <1>2. SyncRow(recovery[k], s) \in RecoveryRow BY <1>1, SyncRowType
  <1> QED BY <1>1, <1>2

LEMMA TypeDispatch ==
  ASSUME TypeInv, NEW w \in Workers, DispatchStep(w) \/ Crash(w)
  PROVE  TypeInv'
  <1> USE DEF TypeInv
  <1>w. job[w] \in Job /\ "none" \in Got /\ "RECOVERY_STALE" \in RecoveryFailure
    BY DEF TypeOK, Got, RecoveryFailure
  <1>1. CASE DispatchCommits(w)
    <2> DEFINE k == job[w].key
    <2>1. k \in Keys /\ ledger[k].status = "PREPARED" /\ caps' = caps
      BY <1>1 DEF DispatchCommits, DispatchAllowed, JobShape
    <2>2. "DISPATCHED" \in RowStatus BY DEF RowStatus, EffectStatus
    <2>3. ledger' \in [Keys -> EffectRow] /\ RowShape'
      <3>1. ledger \in [Keys -> EffectRow] BY DEF TypeOK
      <3>2. ledger[k].ref \in BOOLEAN BY <2>1, <3>1 DEF EffectRow
      <3>3. ledger' = [ledger EXCEPT ![k] = [@ EXCEPT !.status = "DISPATCHED",
                         !.attempts = 1, !.ref = ledger[k].ref]]
        BY <1>1, <2>1, <3>1 DEF DispatchCommits, EffectRow
      <3> QED BY <2>1, <2>2, <3>2, <3>3, LedgerType
    <2>4. recovery' \in [Keys -> RecoveryRow]
      BY <1>1, <2>1, <2>2, SyncType DEF DispatchCommits
    <2>5. /\ caseOpen' \in BOOLEAN /\ revision' \in Nat
          /\ mutations' \in 0..MaxMutations
          /\ handoff' \in [Keys -> SUBSET WorkKinds]
      BY <1>1, <2>1, PublishType DEF DispatchCommits
    <2>6. job' \in [Workers -> Job] /\ JobShape'
      <3>1. job' = [job EXCEPT ![w] = [@ EXCEPT !.pc = "send", !.got = job[w].got]]
        BY <1>1, <1>w DEF DispatchCommits, Goto, Job
      <3>2. job[w].got \in Got BY <1>w DEF Job
      <3> QED BY <1>1, <2>1, <3>1, <3>2, GoOn DEF DispatchCommits, PCs
    <2>7. TypeOK'
      BY <1>1, <2>3, <2>4, <2>5, <2>6 DEF DispatchCommits, TypeOK
    <2> QED BY <2>3, <2>6, <2>7
  <1>2. ASSUME job[w].pc # "idle", Fail(w, "RECOVERY_STALE"),
               UNCHANGED <<caseVars, approvals, caps, ledger, recovery, attempts,
                           handoff, inflight, remote, sends>>
        PROVE  TypeInv'
    <2>1. job' \in [Workers -> Job] /\ JobShape' BY <1>w, <1>2, FailType
    <2> QED BY <1>2, <2>1, SameRows DEF TypeOK
  <1>3. CASE DispatchRaises(w) BY <1>2, <1>3 DEF DispatchRaises
  <1>4. CASE TransitionRaises(w) BY <1>2, <1>4 DEF TransitionRaises
  <1>5. CASE Send(w)
    <2>1. job[w].key \in Keys BY <1>5 DEF Send, JobShape
    <2>2. sends' \in [Keys -> Nat] /\ inflight' \in [Keys -> BOOLEAN]
      BY <1>5, <2>1 DEF Send, TypeOK
    <2>3. job' \in [Workers -> Job] /\ JobShape'
      <3>1. job' = [job EXCEPT ![w] = [@ EXCEPT !.pc = "wait", !.got = job[w].got]]
        BY <1>5, <1>w DEF Send, Goto, Job
      <3>2. job[w].got \in Got BY <1>w DEF Job
      <3> QED BY <1>5, <3>1, <3>2, GoOn DEF Send, PCs
    <2> QED BY <1>5, <2>2, <2>3, SameRows DEF Send, TypeOK
  <1>6. CASE ReceiptArrives(w) \/ CallFails(w)
    <2>1. PICK g \in ReceiptOutcome \cup {"UNKNOWN"} :
            job' = [job EXCEPT ![w].pc = "settle", ![w].got = g]
      BY <1>6 DEF ReceiptArrives, CallFails, ReceiptOf, ReceiptOutcome
    <2> DEFINE j == [job[w] EXCEPT !.pc = "settle", !.got = g]
    <2>2. job[w].key \in Keys /\ caps' = caps
      BY <1>6 DEF ReceiptArrives, CallFails, JobShape
    <2>3. j \in Job /\ j.pc = "settle" /\ j.got = g /\ j.key \in Keys
      BY <1>w, <2>2 DEF Job, PCs, Got
    <2>4. job' = [job EXCEPT ![w] = j] BY <1>w, <2>1 DEF TypeOK
    <2> HIDE DEF j
    <2>5. job' \in [Workers -> Job] /\ JobShape' BY <2>2, <2>3, <2>4, JobOnly
    <2> QED BY <1>6, <2>5, SameRows DEF ReceiptArrives, CallFails, TypeOK
  <1>7. CASE Transition(w)
    <2> DEFINE k == job[w].key
               s == job[w].got
               r == IF s = "UNKNOWN" THEN ledger[k].ref ELSE s # "FAILED_CONFIRMED"
    <2>1. k \in Keys /\ s \in RowStatus /\ caps' = caps
      BY <1>7 DEF Transition, JobShape, RowStatus, EffectStatus, ReceiptOutcome
    <2>2. ledger \in [Keys -> EffectRow] BY DEF TypeOK
    <2>3. ledger' \in [Keys -> EffectRow] /\ RowShape'
      <3>1. ledger[k].ref \in BOOLEAN /\ ledger[k].attempts \in {0, 1}
        BY <2>1, <2>2 DEF EffectRow
      <3>2. r \in BOOLEAN BY <3>1, Zenon
      <3>3. /\ ledger' = [ledger EXCEPT ![k] = [@ EXCEPT !.status = s,
                            !.attempts = ledger[k].attempts, !.ref = r]]
            /\ ledger[k].status = "DISPATCHED"
        BY <1>7, <2>1, <2>2 DEF Transition, TransitionCAS, EffectRow
      <3> HIDE DEF r
      <3> QED BY <2>1, <3>1, <3>2, <3>3, LedgerType
    <2>4. recovery' \in [Keys -> RecoveryRow]
      BY <1>7, <2>1, SyncType DEF Transition
    <2>5. /\ caseOpen' \in BOOLEAN /\ revision' \in Nat
          /\ mutations' \in 0..MaxMutations
          /\ handoff' \in [Keys -> SUBSET WorkKinds]
      BY <1>7, <2>1, PublishType DEF Transition
    <2>6. job' \in [Workers -> Job] /\ JobShape'
      <3>1. CASE job[w].seq = 0
        BY <1>7, <2>1, <3>1, GoIdle DEF Transition
      <3>2. CASE job[w].seq # 0
        <4>1. job' = [job EXCEPT ![w] = [@ EXCEPT !.pc = "finish", !.got = "none"]]
          BY <1>7, <3>2 DEF Transition
        <4>2. job[w].seq \in Seqs BY <1>w, <3>2 DEF Job
        <4> QED BY <1>w, <1>7, <2>1, <4>1, <4>2, GoOn DEF Transition, PCs
      <3> QED BY <3>1, <3>2
    <2>7. TypeOK'
      BY <1>7, <2>3, <2>4, <2>5, <2>6 DEF Transition, TypeOK
    <2> QED BY <2>3, <2>6, <2>7
  <1>8. CASE Crash(w)
    <2>1. job' \in [Workers -> Job] /\ JobShape' BY <1>8, GoIdle DEF Crash
    <2> QED BY <1>8, <2>1, SameRows DEF Crash, TypeOK
  <1> QED BY <1>1, <1>3, <1>4, <1>5, <1>6, <1>7, <1>8 DEF DispatchStep

LEMMA ReconcileType ==
  ASSUME NEW a, NEW b
  PROVE  reconcile_status(a, b) \in {"APPLIED", "ACCEPTED", "FAILED_CONFIRMED",
                                    "UNKNOWN"}
BY DEF reconcile_status

LEMMA VerdictType ==
  ASSUME NEW w, NEW answer, NEW fresh,
         ProofVerdict(w, answer, fresh) # "OK"
  PROVE  ProofVerdict(w, answer, fresh) \in RecoveryFailure
  <1>1. \A r : validate_lookup(answer, fresh, r) \in
          {"LOOKUP_PROOF_CONFLICT", "INVALID_LOOKUP_RECEIPT", "OK"}
    BY DEF validate_lookup
  <1>2. ProofVerdict(w, answer, fresh) \in
          {"LEASE_LOST", "RECOVERY_STALE", "LOOKUP_PROOF_CONFLICT",
           "INVALID_LOOKUP_RECEIPT", "OK"}
    BY <1>1 DEF ProofVerdict
  <1> QED BY <1>2 DEF RecoveryFailure

\* Closing or annotating one attempt.
LEMMA AttemptType ==
  ASSUME NEW r \in AttemptRow
  PROVE  /\ [r EXCEPT !.open = FALSE] \in AttemptRow
         /\ \A l \in LookupStatus : [r EXCEPT !.lookup = l] \in AttemptRow
BY DEF AttemptRow

LEMMA CloseType ==
  ASSUME TypeOK, NEW w \in Workers, job[w].key \in Keys, job[w].seq \in Seqs,
         CloseAttempt(w)
  PROVE  attempts' \in [Keys -> [Seqs -> AttemptRow]]
  <1>1. attempts \in [Keys -> [Seqs -> AttemptRow]] BY DEF TypeOK
  <1>2. [attempts[job[w].key][job[w].seq] EXCEPT !.open = FALSE] \in AttemptRow
    BY <1>1, AttemptType
  <1> QED BY <1>1, <1>2 DEF CloseAttempt

LEMMA FinishType ==
  ASSUME TypeOK, NEW k \in Keys, NEW r \in RecoveryRow, NEW i, NEW s, NEW e,
         recovery' = [recovery EXCEPT ![k] = FinishRow(r, i, s, e)]
  PROVE  recovery' \in [Keys -> RecoveryRow]
  <1>1. recovery \in [Keys -> RecoveryRow] BY DEF TypeOK
  <1>2. FinishRow(r, i, s, e) \in RecoveryRow BY FinishRowType
  <1> QED BY <1>1, <1>2

LEMMA TypeClaim ==
  ASSUME TypeInv, NEW w \in Recoverers, NEW k \in Keys, Claim(w, k)
  PROVE  TypeInv'
  <1> USE DEF TypeInv
  <1> DEFINE seq == recovery[k].count + 1
  <1>1. recovery \in [Keys -> RecoveryRow]
        /\ attempts \in [Keys -> [Seqs -> AttemptRow]]
        /\ ledger \in [Keys -> EffectRow]
    BY DEF TypeOK
  <1>2. seq \in Seqs
    BY <1>1, PolicyAssumption DEF Claim, Exhausted, RecoveryRow
  <1>3. recovery' \in [Keys -> RecoveryRow]
    <2>1. [recovery[k] EXCEPT !.token = seq, !.live = TRUE, !.count = seq]
            \in RecoveryRow
      <3>1. recovery[k] \in RecoveryRow BY <1>1
      <3> HIDE DEF seq
      <3> QED BY <1>2, <3>1 DEF RecoveryRow
    <2> QED BY <1>1, <2>1 DEF Claim
  <1>4. attempts' \in [Keys -> [Seqs -> AttemptRow]]
    <2>1. Abandon(k) \in [Seqs -> AttemptRow]
      <3>1. CASE recovery[k].token # 0
        <4>1. recovery[k].token \in Seqs BY <1>1, <3>1 DEF RecoveryRow
        <4>2. [attempts[k][recovery[k].token] EXCEPT !.open = FALSE] \in AttemptRow
          BY <1>1, <4>1, AttemptType
        <4> QED BY <1>1, <3>1, <4>1, <4>2 DEF Abandon
      <3>2. CASE recovery[k].token = 0 BY <1>1, <3>2 DEF Abandon
      <3> QED BY <3>1, <3>2
    <2>2. [source |-> ledger[k].status, open |-> TRUE, lookup |-> "none"]
            \in AttemptRow
      BY <1>1 DEF AttemptRow, EffectRow
    <2> QED BY <1>1, <1>2, <2>1, <2>2 DEF Claim
  <1>5. job' \in [Workers -> Job] /\ JobShape'
    <2> DEFINE pc == IF ledger[k].status = "PREPARED" THEN "resume" ELSE "lookup"
               j == [Idle EXCEPT !.key = k, !.seq = seq, !.pc = pc]
    <2>1. pc \in {"resume", "lookup"} OBVIOUS
    <2>2. job' = [job EXCEPT ![w] = j] /\ caps' = caps BY DEF Claim
    <2> HIDE DEF pc, seq
    <2>3. j \in Job /\ j.pc = pc /\ j.key = k /\ j.seq = seq
      BY <1>2, <2>1, PolicyAssumption DEF Job, PCs, Got
    <2> HIDE DEF j
    <2> QED BY <1>2, <2>1, <2>2, <2>3, JobOnly
  <1>6. TypeOK' BY <1>3, <1>4, <1>5 DEF Claim, TypeOK
  <1> QED BY <1>5, <1>6, SameRows DEF Claim

LEMMA TypeRecoverer ==
  ASSUME TypeInv, NEW w \in Recoverers, RecovererStep(w)
  PROVE  TypeInv'
  <1> USE DEF TypeInv
  <1> DEFINE k == job[w].key
             i == job[w].seq
  <1>w. w \in Workers /\ job[w] \in Job /\ "none" \in Got BY DEF TypeOK, Got
  <1>r. /\ recovery \in [Keys -> RecoveryRow] /\ ledger \in [Keys -> EffectRow]
        /\ attempts \in [Keys -> [Seqs -> AttemptRow]]
    BY DEF TypeOK
  <1>k. job[w].pc \in RecoveryPCs => k \in Keys /\ i \in Seqs
    BY <1>w DEF JobShape
  <1>0. ASSUME job[w].pc # "idle", NEW f \in RecoveryFailure, Fail(w, f),
               UNCHANGED <<caseVars, approvals, caps, ledger, recovery, attempts,
                           handoff, inflight, remote, sends>>
        PROVE  TypeInv'
    <2>1. job' \in [Workers -> Job] /\ JobShape' BY <1>w, <1>0, FailType
    <2> QED BY <1>0, <2>1, SameRows DEF TypeOK
  <1>1. CASE LookupAnswers(w)
    <2>1. k \in Keys /\ i \in Seqs /\ caps' = caps
      BY <1>1, <1>k DEF LookupAnswers
    <2>2. PICK answer \in Answers(k) :
            /\ job' = [job EXCEPT ![w].pc = "persist", ![w].got = answer]
            /\ remote' = IF answer = "NOT_FOUND" /\ NotFoundProvesNoEffect
                         THEN [remote EXCEPT ![k] = "closed"] ELSE remote
      BY <1>1 DEF LookupAnswers
    <2>3. answer \in LookupStatus \cup {"UNBOUND"}
      <3> HIDE DEF k
      <3> QED BY DEF Answers, LookupStatus
    <2>4. remote' \in [Keys -> RemoteStates]
      BY <2>1, <2>2 DEF TypeOK, RemoteStates
    <2> DEFINE j == [job[w] EXCEPT !.pc = "persist", !.got = answer]
    <2>5. /\ j \in Job /\ j.pc = "persist" /\ j.got = answer /\ j.key = k
          /\ j.seq = i
      BY <1>w, <2>3 DEF Job, PCs, Got
    <2>6. job' = [job EXCEPT ![w] = j] BY <1>w, <2>2 DEF TypeOK
    <2> HIDE DEF j
    <2>7. job' \in [Workers -> Job] /\ JobShape'
      BY <1>w, <2>1, <2>3, <2>5, <2>6, JobOnly
    <2>8. TypeOK' BY <1>1, <2>4, <2>7 DEF LookupAnswers, TypeOK
    <2> QED BY <1>1, <2>7, <2>8, SameRows DEF LookupAnswers
  <1>2. CASE LookupRaises(w)
    <2>1. PICK f \in RecoveryFailure : Fail(w, f)
      BY <1>2 DEF LookupRaises, RecoveryFailure
    <2> QED BY <1>0, <1>2, <2>1 DEF LookupRaises
  <1>3. CASE PersistLookup(w)
    <2>1. /\ k \in Keys /\ i \in Seqs /\ caps' = caps
          /\ job[w].got \in LookupStatus \cup {"UNBOUND"}
      BY <1>3, <1>k, <1>w DEF PersistLookup, JobShape
    <2> DEFINE V(fresh) == IF Owned(w) /\ AtSource(w) /\ Attempt(w).lookup # "none"
                           THEN "LOOKUP_PROOF_CONFLICT"
                           ELSE ProofVerdict(w, job[w].got, fresh)
    <2>2. PICK fresh \in BOOLEAN :
            IF V(fresh) = "OK"
            THEN /\ attempts' = [attempts EXCEPT ![k][i].lookup = job[w].got]
                 /\ job' = [job EXCEPT ![w].pc = "transition", ![w].got = "none"]
            ELSE Fail(w, V(fresh)) /\ UNCHANGED attempts
      BY <1>3 DEF PersistLookup
    <2>3. CASE V(fresh) = "OK"
      <3>1. job[w].got \in LookupStatus
        <4>1. ~(Owned(w) /\ AtSource(w) /\ Attempt(w).lookup # "none")
              /\ ProofVerdict(w, job[w].got, fresh) = "OK"
          BY <2>3
        <4>2. validate_lookup(job[w].got, fresh, ledger[k].ref) = "OK"
          BY <4>1 DEF ProofVerdict
        <4>3. job[w].got # "UNBOUND" BY <4>2 DEF validate_lookup
        <4> QED BY <2>1, <4>3
      <3>2. attempts' \in [Keys -> [Seqs -> AttemptRow]]
        <4>1. [attempts[k][i] EXCEPT !.lookup = job[w].got] \in AttemptRow
          BY <1>r, <2>1, <3>1, AttemptType
        <4>2. attempts' = [attempts EXCEPT ![k][i].lookup = job[w].got]
          BY <2>2, <2>3
        <4> QED BY <1>r, <2>1, <4>1, <4>2
      <3>3. job' \in [Workers -> Job] /\ JobShape'
        <4>1. job' = [job EXCEPT ![w] = [@ EXCEPT !.pc = "transition", !.got = "none"]]
          BY <2>2, <2>3, <1>w DEF TypeOK
        <4>2. job[w].pc # "idle" BY <1>3 DEF PersistLookup
        <4> QED BY <1>w, <2>1, <4>1, <4>2, GoOn DEF PCs
      <3>4. TypeOK' BY <1>3, <3>2, <3>3 DEF PersistLookup, TypeOK
      <3> QED BY <1>3, <3>3, <3>4, SameRows DEF PersistLookup
    <2>4. CASE V(fresh) # "OK"
      <3>1. V(fresh) \in RecoveryFailure
        BY <2>4, VerdictType DEF RecoveryFailure
      <3> HIDE DEF V
      <3>2. Fail(w, V(fresh)) /\ attempts' = attempts BY <2>2, <2>4
      <3> QED BY <1>0, <1>3, <3>1, <3>2 DEF PersistLookup
    <2> QED BY <2>3, <2>4
  <1>4. CASE RecoverTransition(w)
    <2> DEFINE answer == Attempt(w).lookup
               s == reconcile_status(answer, NotFoundProvesNoEffect)
               r == ledger[k].ref \/ answer \in {"FOUND_APPLIED", "FOUND_ACCEPTED"}
    <2>1. k \in Keys /\ i \in Seqs /\ caps' = caps
      BY <1>4, <1>k DEF RecoverTransition
    <2>2. s \in RowStatus BY ReconcileType DEF RowStatus, EffectStatus
    <2>3. PICK fresh \in BOOLEAN :
            IF ProofVerdict(w, answer, fresh) = "OK"
            THEN /\ ledger' = [ledger EXCEPT ![k].status = s, ![k].ref =
                      @ \/ answer \in {"FOUND_APPLIED", "FOUND_ACCEPTED"}]
                 /\ recovery' = [recovery EXCEPT ![k] =
                      FinishRow(SyncRow(@, s), i, s, FALSE)]
                 /\ Publish(k, s)
                 /\ CloseAttempt(w)
                 /\ job' = [job EXCEPT ![w] = Idle]
            ELSE /\ Fail(w, ProofVerdict(w, answer, fresh))
                 /\ UNCHANGED <<caseVars, ledger, recovery, attempts, handoff>>
      BY <1>4 DEF RecoverTransition
    <2>4. CASE ProofVerdict(w, answer, fresh) = "OK"
      <3>0. ledger[k].status # "ABSENT"
        BY <2>4 DEF ProofVerdict, AtSource, LOOKUP_ONLY
      <3>1. ledger' \in [Keys -> EffectRow] /\ RowShape'
        <4>1. ledger[k].ref \in BOOLEAN /\ ledger[k].attempts \in {0, 1}
          BY <1>r, <2>1 DEF EffectRow
        <4>2. r \in BOOLEAN BY <4>1, Zenon
        <4>3. ledger' = [ledger EXCEPT ![k] = [@ EXCEPT !.status = s,
                           !.attempts = ledger[k].attempts, !.ref = r]]
          <5> HIDE DEF answer, s
          <5> QED BY <1>r, <2>1, <2>3, <2>4 DEF EffectRow
        <4> HIDE DEF r, s
        <4> QED BY <2>1, <2>2, <3>0, <4>1, <4>2, <4>3, LedgerType
      <3>2. recovery' \in [Keys -> RecoveryRow]
        <4> HIDE DEF s
        <4>1. SyncRow(recovery[k], s) \in RecoveryRow
          BY <1>r, <2>1, <2>2, SyncRowType
        <4>2. recovery' = [recovery EXCEPT ![k] =
                FinishRow(SyncRow(recovery[k], s), i, s, FALSE)]
          BY <2>3, <2>4
        <4> QED BY <2>1, <4>1, <4>2, FinishType
      <3>3. /\ caseOpen' \in BOOLEAN /\ revision' \in Nat
            /\ mutations' \in 0..MaxMutations
            /\ handoff' \in [Keys -> SUBSET WorkKinds]
        BY <2>1, <2>3, <2>4, PublishType
      <3>4. attempts' \in [Keys -> [Seqs -> AttemptRow]]
        BY <1>w, <2>1, <2>3, <2>4, CloseType
      <3>5. job' \in [Workers -> Job] /\ JobShape'
        BY <1>w, <2>1, <2>3, <2>4, GoIdle
      <3>6. TypeOK'
        BY <1>4, <3>1, <3>2, <3>3, <3>4, <3>5 DEF RecoverTransition, TypeOK
      <3> QED BY <3>1, <3>5, <3>6
    <2>5. CASE ProofVerdict(w, answer, fresh) # "OK"
      <3> DEFINE f == ProofVerdict(w, answer, fresh)
      <3>1. f \in RecoveryFailure BY <2>5, VerdictType
      <3>2. /\ Fail(w, f)
            /\ UNCHANGED <<caseVars, ledger, recovery, attempts, handoff>>
        BY <2>3, <2>5
      <3> HIDE DEF f
      <3> QED BY <1>0, <1>4, <3>1, <3>2 DEF RecoverTransition
    <2> QED BY <2>4, <2>5
  <1>5. CASE Resume(w)
    <2>1. k \in Keys /\ i \in Seqs /\ caps' = caps BY <1>5, <1>k DEF Resume
    <2>2. CASE ResumeAllowed(k)
      <3> DEFINE j == [job[w] EXCEPT !.pc = "dispatch", !.cap = ledger[k].cap]
      <3>1. ledger[k].cap \in Caps /\ caps[ledger[k].cap].key = k
        BY <2>1, <2>2 DEF ResumeAllowed, RowShape
      <3>2. /\ j \in Job /\ j.pc = "dispatch" /\ j.cap = ledger[k].cap
            /\ j.key = k
        BY <1>w, <3>1 DEF Job, PCs
      <3>3. job' = [job EXCEPT ![w] = j] BY <1>w, <1>5, <2>2 DEF Resume, TypeOK
      <3> HIDE DEF j
      <3>4. job' \in [Workers -> Job] /\ JobShape'
        BY <1>w, <2>1, <3>1, <3>2, <3>3, JobOnly
      <3> QED BY <1>5, <3>4, SameRows DEF Resume, TypeOK
    <2>3. CASE ~ResumeAllowed(k)
      BY <1>0, <1>5, <2>3 DEF Resume, RecoveryFailure
    <2> QED BY <2>2, <2>3
  <1>6. CASE FinishResume(w)
    <2>1. k \in Keys /\ i \in Seqs /\ caps' = caps BY <1>6, <1>k DEF FinishResume
    <2>2. /\ recovery' \in [Keys -> RecoveryRow]
          /\ attempts' \in [Keys -> [Seqs -> AttemptRow]]
      <3>1. CASE Owned(w)
        <4>1. recovery[k] \in RecoveryRow BY <1>r, <2>1
        <4> QED BY <1>w, <1>6, <2>1, <3>1, <4>1, CloseType, FinishType
             DEF FinishResume
      <3>2. CASE ~Owned(w) BY <1>r, <1>6, <3>2 DEF FinishResume
      <3> QED BY <3>1, <3>2
    <2>3. job' \in [Workers -> Job] /\ JobShape'
      BY <1>w, <1>6, <2>1, GoIdle DEF FinishResume
    <2>4. TypeOK' BY <1>6, <2>2, <2>3 DEF FinishResume, TypeOK
    <2> QED BY <1>6, <2>3, <2>4, SameRows DEF FinishResume
  <1>7. CASE FinishError(w)
    <2>1. k \in Keys /\ i \in Seqs /\ caps' = caps BY <1>7, <1>k DEF FinishError
    <2>2. job' \in [Workers -> Job] /\ JobShape'
      BY <1>w, <1>7, <2>1, GoIdle DEF FinishError
    <2>3. CASE ~Owned(w)
      <3>1. TypeOK' BY <1>7, <2>2, <2>3 DEF FinishError, TypeOK
      <3> QED BY <1>7, <2>2, <2>3, <3>1, SameRows DEF FinishError
    <2>4. CASE Owned(w) /\ AtSource(w)
      <3>0. "UNKNOWN" \in RowStatus /\ ledger[k].status # "ABSENT"
        BY <2>4 DEF AtSource, LOOKUP_ONLY, RowStatus, EffectStatus
      <3>1. ledger' \in [Keys -> EffectRow] /\ RowShape'
        <4>1. ledger[k].ref \in BOOLEAN /\ ledger[k].attempts \in {0, 1}
          BY <1>r, <2>1 DEF EffectRow
        <4>2. ledger' = [ledger EXCEPT ![k] = [@ EXCEPT !.status = "UNKNOWN",
                  !.attempts = ledger[k].attempts, !.ref = ledger[k].ref]]
          BY <1>r, <1>7, <2>1, <2>4 DEF FinishError, EffectRow
        <4> QED BY <2>1, <3>0, <4>1, <4>2, LedgerType
      <3>2. recovery' \in [Keys -> RecoveryRow]
        <4>1. SyncRow(recovery[k], "UNKNOWN") \in RecoveryRow
          BY <1>r, <2>1, <3>0, SyncRowType
        <4> QED BY <1>7, <2>1, <2>4, <4>1, FinishType DEF FinishError
      <3>3. /\ caseOpen' \in BOOLEAN /\ revision' \in Nat
            /\ mutations' \in 0..MaxMutations
            /\ handoff' \in [Keys -> SUBSET WorkKinds]
        BY <1>7, <2>1, <2>4, PublishType DEF FinishError
      <3>4. attempts' \in [Keys -> [Seqs -> AttemptRow]]
        BY <1>w, <1>7, <2>1, <2>4, CloseType DEF FinishError
      <3>5. TypeOK'
        BY <1>7, <2>2, <3>1, <3>2, <3>3, <3>4 DEF FinishError, TypeOK
      <3> QED BY <2>2, <3>1, <3>5
    <2>5. CASE Owned(w) /\ ~AtSource(w)
      <3>0. recovery[k] \in RecoveryRow BY <1>r, <2>1
      <3>1. recovery' \in [Keys -> RecoveryRow]
        BY <1>7, <2>1, <2>5, <3>0, FinishType DEF FinishError
      <3>2. attempts' \in [Keys -> [Seqs -> AttemptRow]]
        BY <1>w, <1>7, <2>1, <2>5, CloseType DEF FinishError
      <3>3. TypeOK' BY <1>7, <2>2, <2>5, <3>1, <3>2 DEF FinishError, TypeOK
      <3> QED BY <1>7, <2>2, <2>5, <3>3, SameRows DEF FinishError
    <2> QED BY <2>3, <2>4, <2>5
  <1> QED BY <1>1, <1>2, <1>3, <1>4, <1>5, <1>6, <1>7 DEF RecovererStep

LEMMA TypeEscalates ==
  ASSUME TypeInv, NEW k \in Keys, ClaimEscalates(k)
  PROVE  TypeInv'
  <1> USE DEF TypeInv
  <1>1. recovery \in [Keys -> RecoveryRow] BY DEF TypeOK
  <1>2. recovery' \in [Keys -> RecoveryRow]
    BY <1>1 DEF ClaimEscalates, MarkExhausted, RecoveryRow
  <1>3. TypeOK' BY <1>2 DEF ClaimEscalates, TypeOK
  <1> QED BY <1>3, SameJobs, SameRows DEF ClaimEscalates

LEMMA TypeNext ==
  ASSUME TypeInv, [Next]_vars
  PROVE  TypeInv'
  <1>1. CASE UNCHANGED vars
    BY <1>1 DEF vars, TypeInv, TypeOK, JobShape, RowShape
  <1>2. CASE Next
    BY <1>2, TypeAuthorize, TypeDeadline, TypeExecutor, TypeDispatch, TypeClaim,
       TypeEscalates, TypeRecoverer DEF Next
  <1> QED BY <1>1, <1>2

LEMMA TypeAlways == Spec => []TypeInv
  <1>1. TypeInv /\ [Next]_vars => TypeInv' BY TypeNext
  <1> QED BY <1>1, TypeInit, PTL DEF Spec

(***************************************************************************)
(* Every row and thread keeps its shape; in particular claim() never goes  *)
(* beyond RecoveryPolicy.max_attempts and a dispatch is counted once.      *)
(***************************************************************************)
THEOREM TypeCorrect == Spec => []TypeOK
  <1>1. TypeInv => TypeOK BY DEF TypeInv
  <1> QED BY <1>1, TypeAlways, PTL
-----------------------------------------------------------------------------
(***************************************************************************)
(* What any step does to one ledger row: nothing, or one of four moves.    *)
(* The invariants below rest on this lemma instead of on the actions.      *)
(***************************************************************************)
Outcomes == {"ACCEPTED", "APPLIED", "FAILED_CONFIRMED", "UNKNOWN"}

LedgerMove(k) ==
  \/ ledger'[k] = ledger[k]
  \/ /\ ledger[k].status = "ABSENT"
     /\ ledger'[k].status \in {"PREPARED", "NOOP"}
     /\ ledger'[k].attempts = 0
  \/ /\ ledger[k].status = "PREPARED"
     /\ ledger'[k].status = "DISPATCHED"
     /\ ledger'[k].attempts = 1
  \/ /\ ledger[k].status \in LOOKUP_ONLY
     /\ ledger'[k].status \in Outcomes
     /\ ledger'[k].attempts = ledger[k].attempts

\* The steps that write the ledger.
LedgerWrites ==
  \/ \E w \in Executors : PrepareInserts(w)
  \/ \E w \in Workers : DispatchCommits(w) \/ Transition(w)
  \/ \E w \in Recoverers : RecoverTransition(w) \/ FinishError(w)

LEMMA OtherwiseKept ==
  ASSUME [Next]_vars, ~LedgerWrites
  PROVE  ledger' = ledger
BY DEF LedgerWrites, Next, vars, CaseMutates, CloseCase, Authorize,
  request_approval, decide_approval, issue_capability, ExecuteReplays,
  ExecuteStarts, ExecutorStep, VerifyFresh, VerifyStale, PrepareReplays,
  PrepareRaises, DispatchStep, DispatchRaises, Send, ReceiptArrives, CallFails,
  TransitionRaises, Crash, Claim, ClaimEscalates, RecovererStep, LookupAnswers,
  LookupRaises, PersistLookup, Resume, FinishResume, Deadline, ApprovalExpires,
  CapabilityExpires, GraceElapses, BackoffElapses, LeaseExpires, External,
  RemoteHandles, RemoteCompletes, RequestLost

LEMMA LedgerSteps ==
  ASSUME TypeInv, [Next]_vars, NEW k \in Keys
  PROVE  LedgerMove(k)
  <1> USE DEF TypeInv
  <1>r. ledger \in [Keys -> EffectRow] BY DEF TypeOK
  <1>1. CASE ~LedgerWrites BY <1>1, OtherwiseKept DEF LedgerMove
  <1>2. ASSUME NEW w \in Executors, PrepareInserts(w) PROVE LedgerMove(k)
    <2>1. ledger[caps[job[w].cap].key].status = "ABSENT"
      BY <1>2 DEF PrepareInserts, PrepareCAS, NothingExists
    <2>2. ledger' = [ledger EXCEPT ![caps[job[w].cap].key] =
            [status |-> IF caps[job[w].cap].key \in Noops THEN "NOOP" ELSE "PREPARED",
             cap |-> job[w].cap, prepared |-> revision', attempts |-> 0,
             ref |-> FALSE]]
      BY <1>2 DEF PrepareInserts
    <2> QED BY <1>r, <2>1, <2>2 DEF LedgerMove
  <1>3. ASSUME NEW w \in Workers, DispatchCommits(w) PROVE LedgerMove(k)
    BY <1>r, <1>3 DEF DispatchCommits, DispatchAllowed, LedgerMove, EffectRow
  <1>4. ASSUME NEW w \in Workers, Transition(w) PROVE LedgerMove(k)
    <2>1. job[w].got \in Outcomes
      BY <1>4 DEF Transition, JobShape, ReceiptOutcome, Outcomes
    <2>2. \/ k # job[w].key /\ ledger'[k] = ledger[k]
          \/ /\ k = job[w].key /\ ledger[k].status = "DISPATCHED"
             /\ ledger'[k].status = job[w].got
             /\ ledger'[k].attempts = ledger[k].attempts
      BY <1>r, <1>4 DEF Transition, TransitionCAS, EffectRow
    <2> QED BY <2>1, <2>2 DEF LedgerMove, LOOKUP_ONLY
  <1>5. ASSUME NEW w \in Recoverers, RecoverTransition(w) PROVE LedgerMove(k)
    <2> DEFINE answer == Attempt(w).lookup
               s == reconcile_status(answer, NotFoundProvesNoEffect)
    <2>1. s \in Outcomes BY ReconcileType DEF Outcomes
    <2>2. PICK fresh \in BOOLEAN :
            \/ ledger' = ledger
            \/ /\ ProofVerdict(w, answer, fresh) = "OK"
               /\ ledger' = [ledger EXCEPT ![job[w].key].status = s,
                    ![job[w].key].ref =
                      @ \/ answer \in {"FOUND_APPLIED", "FOUND_ACCEPTED"}]
      BY <1>5 DEF RecoverTransition
    <2>3. CASE ledger' = ledger BY <2>3 DEF LedgerMove
    <2>4. CASE ledger' # ledger
      <3>1. ledger[job[w].key].status \in LOOKUP_ONLY
        BY <2>2, <2>4 DEF ProofVerdict, AtSource
      <3> HIDE DEF s, answer
      <3>2. \/ k # job[w].key /\ ledger'[k] = ledger[k]
            \/ /\ k = job[w].key /\ ledger'[k].status = s
               /\ ledger'[k].attempts = ledger[k].attempts
        BY <1>r, <2>2, <2>4 DEF EffectRow
      <3> QED BY <2>1, <3>1, <3>2 DEF LedgerMove
    <2> QED BY <2>3, <2>4
  <1>6. ASSUME NEW w \in Recoverers, FinishError(w) PROVE LedgerMove(k)
    <2>1. \/ ledger' = ledger
          \/ /\ AtSource(w)
             /\ ledger' = [ledger EXCEPT ![job[w].key].status = "UNKNOWN"]
      BY <1>6 DEF FinishError
    <2> QED BY <1>r, <2>1 DEF LedgerMove, AtSource, EffectRow, Outcomes
  <1> QED BY <1>1, <1>2, <1>3, <1>4, <1>5, <1>6 DEF LedgerWrites

(***************************************************************************)
(* A ledger row never moves back and an outcome is final: transition,      *)
(* recover_transition and finish_error compare before they set.            *)
(***************************************************************************)
THEOREM NeverRegresses == Spec => LedgerNeverRegresses
  <1>1. ASSUME TypeInv, [Next]_vars, NEW k \in Keys
        PROVE  /\ Rank(ledger'[k].status) >= Rank(ledger[k].status)
               /\ ledger[k].status \in Settled \cup {"NOOP"} =>
                    ledger'[k].status = ledger[k].status
    <2>1. LedgerMove(k) BY <1>1, LedgerSteps
    <2>2. ledger[k].status \in RowStatus BY <1>1 DEF TypeInv, TypeOK, EffectRow
    <2> QED BY <2>1, <2>2 DEF LedgerMove, Rank, Settled, LOOKUP_ONLY, Outcomes,
               RowStatus, EffectStatus
  <1>2. TypeInv /\ [Next]_vars =>
          [\A k \in Keys :
             /\ Rank(ledger'[k].status) >= Rank(ledger[k].status)
             /\ ledger[k].status \in Settled \cup {"NOOP"} =>
                  ledger'[k].status = ledger[k].status]_vars
    BY <1>1
  <1> QED BY <1>2, TypeAlways, PTL DEF Spec, LedgerNeverRegresses
-----------------------------------------------------------------------------
(***************************************************************************)
(* At most one send. The counter alone is not inductive: a thread at its   *)
(* send step is about to raise it, so there must be at most one such       *)
(* thread, it must not exist before DISPATCHED is committed, and nothing   *)
(* may have been sent while it exists.                                     *)
(***************************************************************************)
Unsent == {"ABSENT", "PREPARED", "NOOP"}

SendInv ==
  \A k \in Keys :
    /\ ledger[k].status \in Unsent =>
         /\ sends[k] = 0 /\ ~inflight[k] /\ remote[k] = "none"
         /\ \A w \in Workers : ~Sender(w, k)
    /\ ledger[k].status \notin Unsent => ledger[k].attempts = 1
    /\ sends[k] <= 1
    /\ \A w \in Workers : Sender(w, k) => sends[k] = 0
    /\ \A v, w \in Workers : Sender(v, k) /\ Sender(w, k) => v = w

\* No thread reaches its send step and nothing is sent.
QuietStep ==
  /\ sends' = sends
  /\ \A w \in Workers, k \in Keys : Sender(w, k)' => Sender(w, k)
  /\ \A k \in Keys : /\ inflight'[k] => inflight[k]
                     /\ remote'[k] # "none" =>
                          \/ remote[k] # "none" \/ inflight[k]
                          \/ ledger[k].status \in LOOKUP_ONLY

\* A thread that does not go to its send step.
LEMMA NotASender ==
  ASSUME TypeInv, NEW w \in Workers, NEW j, job' = [job EXCEPT ![w] = j],
         j.pc # "send"
  PROVE  \A v \in Workers, k \in Keys : Sender(v, k)' => Sender(v, k)
BY DEF TypeInv, TypeOK, Sender

LEMMA FailIsQuiet ==
  ASSUME TypeInv, NEW w \in Workers, NEW f, Fail(w, f)
  PROVE  \A v \in Workers, k \in Keys : Sender(v, k)' => Sender(v, k)
  <1> DEFINE j == IF job[w].seq = 0 THEN Idle
                  ELSE [job[w] EXCEPT !.pc = "error", !.got = f]
  <1>1. j.pc # "send" BY DEF TypeInv, TypeOK, Job
  <1>2. job' = [job EXCEPT ![w] = j] BY DEF Fail
  <1> HIDE DEF j
  <1> QED BY <1>1, <1>2, NotASender

\* Threads that change neither the wire nor the counters.
LEMMA WireKept ==
  ASSUME sends' = sends, inflight' = inflight, remote' = remote,
         \A v \in Workers, k \in Keys : Sender(v, k)' => Sender(v, k)
  PROVE  QuietStep
BY DEF QuietStep

LEMMA QuietSteps ==
  ASSUME TypeInv, [Next]_vars,
         \A w \in Workers : ~DispatchCommits(w) /\ ~Send(w)
  PROVE  QuietStep
  <1> USE DEF TypeInv
  <1>0. ASSUME job' = job, sends' = sends, inflight' = inflight, remote' = remote
        PROVE  QuietStep
    BY <1>0 DEF QuietStep, Sender
  <1>1. CASE UNCHANGED vars BY <1>0, <1>1 DEF vars
  <1>2. CASE CaseMutates \/ CloseCase \/ Authorize \/ Deadline
             \/ (\E c \in Caps : ExecuteReplays(c))
             \/ (\E k \in Keys : ClaimEscalates(k))
    BY <1>0, <1>2 DEF CaseMutates, CloseCase, Authorize, request_approval,
      decide_approval, issue_capability, Deadline, ApprovalExpires,
      CapabilityExpires, GraceElapses, BackoffElapses, LeaseExpires,
      ExecuteReplays, ClaimEscalates
  <1>3. CASE External
    <2>1. job' = job /\ sends' = sends BY <1>3 DEF External, RemoteHandles,
            RemoteCompletes, RequestLost
    <2>2. ASSUME NEW k \in Keys
          PROVE  /\ inflight'[k] => inflight[k]
                 /\ remote'[k] # "none" => remote[k] # "none" \/ inflight[k]
      BY <1>3 DEF External, RemoteHandles, RemoteCompletes, RequestLost, TypeOK
    <2> QED BY <2>1, <2>2 DEF QuietStep, Sender
  <1>4. ASSUME NEW w \in Executors,
               ExecutorStep(w) \/ (\E c \in Caps : ExecuteStarts(w, c))
        PROVE  QuietStep
    <2>1. job[w] \in Job BY DEF TypeOK
    <2>2. \E j : job' = [job EXCEPT ![w] = j] /\ j.pc # "send"
      <3>1. CASE VerifyFresh(w)
        <4>1. [job[w] EXCEPT !.pc = "prepare"].pc = "prepare" BY <2>1 DEF Job
        <4>2. job' = [job EXCEPT ![w] = [job[w] EXCEPT !.pc = "prepare"]]
          BY <3>1 DEF VerifyFresh, Goto
        <4> QED BY <4>1, <4>2
      <3>2. CASE VerifyStale(w) \/ PrepareReplays(w) \/ PrepareRaises(w)
        <4>1. job' = [job EXCEPT ![w] = Idle]
          BY <3>2 DEF VerifyStale, PrepareReplays, PrepareRaises
        <4>2. Idle.pc # "send" OBVIOUS
        <4> QED BY <4>1, <4>2
      <3>3. CASE PrepareInserts(w)
        <4> DEFINE j == IF caps[job[w].cap].key \in Noops THEN Idle
                        ELSE [job[w] EXCEPT !.pc = "dispatch"]
        <4>1. job' = [job EXCEPT ![w] = j]
          BY <3>3 DEF PrepareInserts, AfterPrepare
        <4>2. j.pc # "send" BY <2>1 DEF Job
        <4> QED BY <4>1, <4>2
      <3>4. ASSUME NEW c \in Caps, ExecuteStarts(w, c)
            PROVE  \E j : job' = [job EXCEPT ![w] = j] /\ j.pc # "send"
        <4> DEFINE j == [Idle EXCEPT !.pc = "verify", !.cap = c,
                                     !.key = caps[c].key]
        <4>1. job' = [job EXCEPT ![w] = j] BY <3>4 DEF ExecuteStarts
        <4>2. j.pc # "send" OBVIOUS
        <4> QED BY <4>1, <4>2
      <3> QED BY <1>4, <3>1, <3>2, <3>3, <3>4 DEF ExecutorStep
    <2>3. \A v \in Workers, k \in Keys : Sender(v, k)' => Sender(v, k)
      BY <2>2, NotASender
    <2> QED BY <1>4, <2>3, WireKept DEF ExecutorStep, ExecuteStarts, VerifyFresh,
         VerifyStale, PrepareReplays, PrepareRaises, PrepareInserts
  <1>5. ASSUME NEW w \in Workers, DispatchStep(w) \/ Crash(w)
        PROVE  QuietStep
    <2>1. job[w] \in Job BY DEF TypeOK
    <2>2. CASE DispatchRaises(w) \/ TransitionRaises(w)
      BY <2>2, FailIsQuiet, WireKept DEF DispatchRaises, TransitionRaises
    <2>3. CASE ReceiptArrives(w) \/ CallFails(w)
      <3>1. PICK g : job' = [job EXCEPT ![w].pc = "settle", ![w].got = g]
        BY <2>3 DEF ReceiptArrives, CallFails
      <3> DEFINE j == [job[w] EXCEPT !.pc = "settle", !.got = g]
      <3>2. job' = [job EXCEPT ![w] = j] /\ j.pc # "send"
        BY <2>1, <3>1 DEF TypeOK, Job
      <3> HIDE DEF j
      <3>3. \A v \in Workers, k \in Keys : Sender(v, k)' => Sender(v, k)
        BY <3>2, NotASender
      <3> QED BY <2>3, <3>3, WireKept DEF ReceiptArrives, CallFails
    <2>4. CASE Transition(w)
      <3> DEFINE j == IF job[w].seq = 0 THEN Idle
                      ELSE [job[w] EXCEPT !.pc = "finish", !.got = "none"]
      <3>1. job' = [job EXCEPT ![w] = j] BY <2>4 DEF Transition
      <3>2. j.pc # "send" BY <2>1 DEF Job
      <3> HIDE DEF j
      <3>3. \A v \in Workers, k \in Keys : Sender(v, k)' => Sender(v, k)
        BY <3>1, <3>2, NotASender
      <3> QED BY <2>4, <3>3, WireKept DEF Transition
    <2>5. CASE Crash(w)
      <3>1. job' = [job EXCEPT ![w] = Idle] /\ Idle.pc # "send"
        BY <2>5 DEF Crash
      <3>2. \A v \in Workers, k \in Keys : Sender(v, k)' => Sender(v, k)
        BY <3>1, NotASender
      <3> QED BY <2>5, <3>2, WireKept DEF Crash
    <2> QED BY <1>5, <2>2, <2>3, <2>4, <2>5 DEF DispatchStep
  <1>6. ASSUME NEW w \in Recoverers, NEW k \in Keys, Claim(w, k)
        PROVE  QuietStep
    <2> DEFINE pc == IF ledger[k].status = "PREPARED" THEN "resume" ELSE "lookup"
               j == [Idle EXCEPT !.key = k, !.seq = recovery[k].count + 1,
                                 !.pc = pc]
    <2>1. job' = [job EXCEPT ![w] = j] BY <1>6 DEF Claim
    <2>2. j.pc # "send" OBVIOUS
    <2> HIDE DEF j
    <2>3. \A v \in Workers, l \in Keys : Sender(v, l)' => Sender(v, l)
      BY <2>1, <2>2, NotASender
    <2> QED BY <1>6, <2>3, WireKept DEF Claim
  <1>7. ASSUME NEW w \in Recoverers, RecovererStep(w) PROVE QuietStep
    <2>1. w \in Workers /\ job[w] \in Job BY DEF TypeOK
    <2>2. \/ \E f : Fail(w, f)
          \/ \E j : job' = [job EXCEPT ![w] = j] /\ j.pc # "send"
      <3>1. CASE LookupAnswers(w)
        <4>1. PICK a : job' = [job EXCEPT ![w].pc = "persist", ![w].got = a]
          BY <3>1 DEF LookupAnswers
        <4> DEFINE j == [job[w] EXCEPT !.pc = "persist", !.got = a]
        <4>2. job' = [job EXCEPT ![w] = j] /\ j.pc # "send"
          BY <2>1, <4>1 DEF TypeOK, Job
        <4> QED BY <4>2
      <3>2. CASE LookupRaises(w) BY <3>2 DEF LookupRaises
      <3>3. CASE PersistLookup(w)
        <4>1. \/ \E f : Fail(w, f)
              \/ job' = [job EXCEPT ![w].pc = "transition", ![w].got = "none"]
          BY <3>3 DEF PersistLookup
        <4> DEFINE j == [job[w] EXCEPT !.pc = "transition", !.got = "none"]
        <4>2. [job EXCEPT ![w].pc = "transition", ![w].got = "none"]
                = [job EXCEPT ![w] = j] /\ j.pc # "send"
          BY <2>1 DEF TypeOK, Job
        <4> QED BY <4>1, <4>2
      <3>4. CASE RecoverTransition(w)
        <4>1. (\E f : Fail(w, f)) \/ job' = [job EXCEPT ![w] = Idle]
          BY <3>4 DEF RecoverTransition
        <4>2. Idle.pc # "send" OBVIOUS
        <4> QED BY <4>1, <4>2
      <3>5. CASE Resume(w)
        <4>1. \/ Fail(w, "RECOVERY_STALE")
              \/ job' = [job EXCEPT ![w].pc = "dispatch",
                                    ![w].cap = ledger[job[w].key].cap]
          BY <3>5 DEF Resume
        <4> DEFINE j == [job[w] EXCEPT !.pc = "dispatch",
                                       !.cap = ledger[job[w].key].cap]
        <4>2. [job EXCEPT ![w].pc = "dispatch", ![w].cap = ledger[job[w].key].cap]
                = [job EXCEPT ![w] = j] /\ j.pc # "send"
          BY <2>1 DEF TypeOK, Job
        <4> QED BY <4>1, <4>2
      <3>6. CASE FinishResume(w) \/ FinishError(w)
        <4>1. job' = [job EXCEPT ![w] = Idle] /\ Idle.pc # "send"
          BY <3>6 DEF FinishResume, FinishError
        <4> QED BY <4>1
      <3> QED BY <1>7, <3>1, <3>2, <3>3, <3>4, <3>5, <3>6 DEF RecovererStep
    <2>3. \A v \in Workers, k \in Keys : Sender(v, k)' => Sender(v, k)
      BY <2>1, <2>2, NotASender, FailIsQuiet
    <2>4. CASE LookupAnswers(w)
      <3>1. \A k \in Keys : remote'[k] # remote[k] =>
              ledger[k].status \in LOOKUP_ONLY
        BY <2>4 DEF LookupAnswers, AtSource, TypeOK
      <3> QED BY <2>3, <2>4, <3>1 DEF LookupAnswers, QuietStep
    <2>5. CASE ~LookupAnswers(w)
      BY <1>7, <2>3, <2>5, WireKept DEF RecovererStep, LookupRaises,
        PersistLookup, RecoverTransition, Resume, FinishResume, FinishError
    <2> QED BY <2>4, <2>5
  <1> QED BY <1>1, <1>2, <1>3, <1>4, <1>5, <1>6, <1>7 DEF Next

LEMMA SendInit == Init => SendInv
BY DEF Init, SendInv, Sender, Unsent

LEMMA SendNext ==
  ASSUME TypeInv, SendInv, [Next]_vars
  PROVE  SendInv'
  <1> SUFFICES ASSUME NEW k \in Keys
               PROVE  /\ ledger'[k].status \in Unsent =>
                           /\ sends'[k] = 0 /\ ~inflight'[k]
                           /\ remote'[k] = "none"
                           /\ \A w \in Workers : ~Sender(w, k)'
                      /\ ledger'[k].status \notin Unsent =>
                           ledger'[k].attempts = 1
                      /\ sends'[k] <= 1
                      /\ \A w \in Workers : Sender(w, k)' => sends'[k] = 0
                      /\ \A v, w \in Workers :
                           Sender(v, k)' /\ Sender(w, k)' => v = w
    BY DEF SendInv
  <1>1. /\ ledger'[k].status \in Unsent => ledger[k].status \in Unsent
        /\ ledger'[k].status \notin Unsent => ledger'[k].attempts = 1
    BY LedgerSteps DEF LedgerMove, SendInv, Unsent, LOOKUP_ONLY, Outcomes
  <1>2. CASE \A w \in Workers : ~DispatchCommits(w) /\ ~Send(w)
    <2>1. QuietStep BY <1>2, QuietSteps
    <2>2. ledger[k].status \in Unsent => ledger[k].status \notin LOOKUP_ONLY
      BY DEF Unsent, LOOKUP_ONLY
    <2> QED BY <1>1, <2>1, <2>2 DEF QuietStep, SendInv
  <1>3. ASSUME NEW w \in Workers, DispatchCommits(w)
        PROVE  /\ ledger'[k].status \in Unsent =>
                    /\ sends'[k] = 0 /\ ~inflight'[k] /\ remote'[k] = "none"
                    /\ \A v \in Workers : ~Sender(v, k)'
               /\ sends'[k] <= 1
               /\ \A v \in Workers : Sender(v, k)' => sends'[k] = 0
               /\ \A u, v \in Workers : Sender(u, k)' /\ Sender(v, k)' => u = v
    <2>1. /\ sends' = sends /\ inflight' = inflight /\ remote' = remote
          /\ job' = [job EXCEPT ![w].pc = "send"]
          /\ ledger[job[w].key].status = "PREPARED"
          /\ ledger'[job[w].key].status = "DISPATCHED"
      <3>1. ledger \in [Keys -> EffectRow] /\ job[w].key \in Keys
        BY <1>3 DEF TypeInv, TypeOK, JobShape, DispatchCommits
      <3> QED BY <1>3, <3>1 DEF DispatchCommits, DispatchAllowed, Goto, EffectRow
    <2>2. \A v \in Workers :
            Sender(v, k)' => Sender(v, k) \/ (v = w /\ k = job[w].key)
      BY <2>1 DEF Sender, TypeInv, TypeOK, Job
    <2>3. CASE k = job[w].key
      BY <2>1, <2>2, <2>3 DEF SendInv, Unsent
    <2>4. CASE k # job[w].key
      BY <1>1, <2>1, <2>2, <2>4 DEF SendInv
    <2> QED BY <2>3, <2>4
  <1>4. ASSUME NEW w \in Workers, Send(w)
        PROVE  /\ ledger'[k].status \in Unsent =>
                    /\ sends'[k] = 0 /\ ~inflight'[k] /\ remote'[k] = "none"
                    /\ \A v \in Workers : ~Sender(v, k)'
               /\ sends'[k] <= 1
               /\ \A v \in Workers : Sender(v, k)' => sends'[k] = 0
               /\ \A u, v \in Workers : Sender(u, k)' /\ Sender(v, k)' => u = v
    <2>1. /\ job[w].key \in Keys /\ Sender(w, job[w].key)
          /\ sends' = [sends EXCEPT ![job[w].key] = @ + 1]
          /\ inflight' = [inflight EXCEPT ![job[w].key] = TRUE]
          /\ job' = [job EXCEPT ![w].pc = "wait"]
          /\ ledger' = ledger /\ remote' = remote
      BY <1>4 DEF Send, Sender, Goto, TypeInv, JobShape
    <2>2. \A v \in Workers : Sender(v, k)' => Sender(v, k) /\ v # w
      BY <2>1 DEF Sender, TypeInv, TypeOK, Job
    <2>3. sends[job[w].key] = 0 BY <2>1 DEF SendInv
    <2>4. CASE k = job[w].key
      <3>1. \A v \in Workers : ~Sender(v, k)' BY <2>1, <2>2, <2>4 DEF SendInv
      <3>2. sends'[k] = 1 BY <2>1, <2>3, <2>4 DEF TypeInv, TypeOK
      <3>3. ledger[k].status \notin Unsent BY <2>1, <2>4 DEF SendInv
      <3> QED BY <2>1, <3>1, <3>2, <3>3
    <2>5. CASE k # job[w].key
      <3>1. sends'[k] = sends[k] /\ inflight'[k] = inflight[k]
        BY <2>1, <2>5 DEF TypeInv, TypeOK
      <3> QED BY <2>1, <2>2, <3>1 DEF SendInv
    <2> QED BY <2>4, <2>5
  <1> QED BY <1>1, <1>2, <1>3, <1>4

LEMMA SendAlways == Spec => []SendInv
  <1>1. TypeInv /\ SendInv /\ [Next]_vars => SendInv' BY SendNext
  <1> QED BY <1>1, SendInit, TypeAlways, PTL DEF Spec

(***************************************************************************)
(* However many capabilities, executors, resumed recoveries and crashes    *)
(* there are, adapter.dispatch is called at most once for an effect.       *)
(***************************************************************************)
THEOREM SentAtMostOnce == Spec => []AtMostOneSend
  <1>1. SendInv => AtMostOneSend BY DEF SendInv, AtMostOneSend
  <1> QED BY <1>1, SendAlways, PTL

(***************************************************************************)
(* Nothing reaches the wire, and nothing happens remotely, before the row  *)
(* that says so is committed.                                              *)
(***************************************************************************)
THEOREM WriteAhead == Spec => []LedgerBeforeWire
  <1>1. TypeInv /\ SendInv => LedgerBeforeWire
    BY DEF SendInv, LedgerBeforeWire, Unsent, TypeInv, TypeOK
  <1> QED BY <1>1, SendAlways, TypeAlways, PTL

USE DEF Workers, Seqs, Idle, RecoveryPCs, caseVars

(***************************************************************************)
(* Leases and attempts. RecoveryAgrees speaks of some open attempt under a *)
(* live lease; the inductive form names it: the one the token points at.   *)
(***************************************************************************)
RecoveryOK(k) ==
  /\ recovery[k].status = ledger[k].status
  /\ recovery[k].escalated => ledger[k].status \in RECOVERABLE
  /\ \A i \in Seqs : attempts[k][i].open => recovery[k].token = i
  /\ recovery[k].live => /\ recovery[k].token # 0
                         /\ attempts[k][recovery[k].token].open

RecoveryInv == \A k \in Keys : RecoveryOK(k)

\* A step that rewrites the rows of one effect, if any.
LEMMA OneEffect ==
  ASSUME RecoveryInv, NEW k \in Keys, RecoveryOK(k)',
         \A l \in Keys \ {k} : /\ recovery'[l] = recovery[l]
                               /\ attempts'[l] = attempts[l]
                               /\ ledger'[l] = ledger[l]
  PROVE  RecoveryInv'
BY DEF RecoveryInv, RecoveryOK

LEMMA BooksKept ==
  ASSUME RecoveryInv, recovery' = recovery, attempts' = attempts, ledger' = ledger
  PROVE  RecoveryInv'
BY DEF RecoveryInv, RecoveryOK

\* synchronize_effect without a _finish: prepare, dispatch, transition.
LEMMA SyncKeeps ==
  ASSUME TypeInv, RecoveryInv, NEW k \in Keys, NEW s \in RowStatus,
         recovery' = [recovery EXCEPT ![k] = SyncRow(@, s)],
         attempts' = attempts, ledger'[k].status = s,
         \A l \in Keys \ {k} : ledger'[l] = ledger[l]
  PROVE  RecoveryInv'
  <1>1. recovery[k] \in RecoveryRow /\ recovery \in [Keys -> RecoveryRow]
    BY DEF TypeInv, TypeOK
  <1>2. recovery'[k] = SyncRow(recovery[k], s) BY <1>1
  <1>3. /\ recovery'[k].status = s /\ recovery'[k].token = recovery[k].token
        /\ recovery'[k].live = recovery[k].live
        /\ recovery'[k].escalated => s \in RECOVERABLE
    BY <1>1, <1>2 DEF SyncRow, RecoveryRow
  <1>4. RecoveryOK(k) BY DEF RecoveryInv
  <1>5. RecoveryOK(k)' BY <1>3, <1>4 DEF RecoveryOK
  <1>6. \A l \in Keys \ {k} : recovery'[l] = recovery[l] BY <1>1
  <1> QED BY <1>5, <1>6, OneEffect

LEMMA FinishedRow ==
  ASSUME NEW r \in RecoveryRow, NEW i, NEW s, NEW e \in BOOLEAN
  PROVE  /\ FinishRow(r, i, s, e).status = r.status
         /\ FinishRow(r, i, s, e).live = FALSE
         /\ FinishRow(r, i, s, e).escalated => s \in RECOVERABLE
  <1> DEFINE esc == /\ s \in RECOVERABLE
                    /\ e \/ i >= MaxAttempts
             row == [r EXCEPT !.token = 0, !.live = FALSE, !.due = FALSE,
                              !.escalated = esc]
  <1>1. FinishRow(r, i, s, e) = row BY Zenon DEF FinishRow
  <1>2. esc => s \in RECOVERABLE OBVIOUS
  <1> HIDE DEF esc
  <1>3. row.status = r.status /\ row.live = FALSE /\ row.escalated = esc
    BY DEF RecoveryRow
  <1> QED BY <1>1, <1>2, <1>3

LEMMA ClosedRow ==
  ASSUME NEW r \in AttemptRow
  PROVE  ~[r EXCEPT !.open = FALSE].open
BY DEF AttemptRow

\* _finish by the owner of the lease: its attempt is the open one.
LEMMA FinishKeeps ==
  ASSUME TypeInv, RecoveryInv, NEW k \in Keys, NEW i \in Seqs,
         recovery[k].token = i, NEW r \in RecoveryRow, NEW e \in BOOLEAN,
         recovery' = [recovery EXCEPT ![k] = FinishRow(r, i, ledger'[k].status, e)],
         attempts' = [attempts EXCEPT ![k][i].open = FALSE],
         r.status = ledger'[k].status,
         \A l \in Keys \ {k} : ledger'[l] = ledger[l]
  PROVE  RecoveryInv'
  <1>1. /\ recovery \in [Keys -> RecoveryRow]
        /\ attempts \in [Keys -> [Seqs -> AttemptRow]]
    BY DEF TypeInv, TypeOK
  <1>2. recovery'[k] = FinishRow(r, i, ledger'[k].status, e) BY <1>1
  <1>3. /\ recovery'[k].status = r.status /\ recovery'[k].live = FALSE
        /\ recovery'[k].escalated => ledger'[k].status \in RECOVERABLE
    <2> DEFINE st == ledger'[k].status
               row == FinishRow(r, i, st, e)
    <2> HIDE DEF st
    <2>1. /\ row.status = r.status /\ row.live = FALSE
          /\ row.escalated => st \in RECOVERABLE
      BY FinishedRow
    <2>2. recovery'[k] = row BY <1>2 DEF st
    <2> QED BY <2>1, <2>2, Zenon DEF st
  <1>4. \A j \in Seqs : ~attempts'[k][j].open
    <2>1. \A j \in Seqs : attempts[k][j].open => j = i
      BY DEF RecoveryInv, RecoveryOK
    <2>2. ~[attempts[k][i] EXCEPT !.open = FALSE].open BY <1>1, ClosedRow
    <2>3. attempts'[k] = [attempts[k] EXCEPT ![i] =
                            [attempts[k][i] EXCEPT !.open = FALSE]]
      BY <1>1
    <2> QED BY <1>1, <2>1, <2>2, <2>3
  <1>5. RecoveryOK(k)' BY <1>3, <1>4 DEF RecoveryOK
  <1>6. \A l \in Keys \ {k} : recovery'[l] = recovery[l] /\ attempts'[l] = attempts[l]
    BY <1>1
  <1> QED BY <1>5, <1>6, OneEffect

LEMMA ClaimKeeps ==
  ASSUME TypeInv, RecoveryInv, NEW w \in Recoverers, NEW k \in Keys, Claim(w, k)
  PROVE  RecoveryInv'
  <1> DEFINE seq == recovery[k].count + 1
             t == recovery[k].token
  <1>1. /\ recovery \in [Keys -> RecoveryRow]
        /\ attempts \in [Keys -> [Seqs -> AttemptRow]]
    BY DEF TypeInv, TypeOK
  <1>2. seq \in Seqs /\ t \in {0} \cup Seqs
    BY <1>1, PolicyAssumption DEF Claim, Exhausted, RecoveryRow
  <1>3. /\ recovery' = [recovery EXCEPT ![k] =
             [@ EXCEPT !.token = seq, !.live = TRUE, !.count = seq]]
        /\ attempts' = [attempts EXCEPT ![k] = [Abandon(k) EXCEPT ![seq] =
             [source |-> ledger[k].status, open |-> TRUE, lookup |-> "none"]]]
        /\ ledger' = ledger
    BY DEF Claim
  <1>4. RecoveryOK(k) BY DEF RecoveryInv
  <1>5. Abandon(k) \in [Seqs -> AttemptRow] /\ \A j \in Seqs : ~Abandon(k)[j].open
    <2>1. CASE t = 0 BY <1>1, <1>4, <2>1 DEF Abandon, RecoveryOK
    <2>2. CASE t # 0
      <3>1. Abandon(k) = [attempts[k] EXCEPT ![t].open = FALSE]
        BY <2>2 DEF Abandon
      <3>2. [attempts[k][t] EXCEPT !.open = FALSE] \in AttemptRow
        BY <1>1, <1>2, <2>2, AttemptType
      <3>3. \A j \in Seqs : attempts[k][j].open => j = t BY <1>4 DEF RecoveryOK
      <3>4. ~[attempts[k][t] EXCEPT !.open = FALSE].open
        BY <1>1, <1>2, <2>2, ClosedRow
      <3> HIDE DEF t
      <3>5. Abandon(k) \in [Seqs -> AttemptRow]
        BY <1>1, <1>2, <2>2, <3>1, <3>2
      <3>6. \A j \in Seqs : Abandon(k)[j] =
              IF j = t THEN [attempts[k][t] EXCEPT !.open = FALSE]
              ELSE attempts[k][j]
        BY <1>1, <1>2, <2>2, <3>1
      <3> QED BY <3>3, <3>4, <3>5, <3>6
    <2> QED BY <2>1, <2>2
  <1> HIDE DEF seq, t
  <1>6. /\ attempts'[k][seq].open
        /\ \A j \in Seqs : attempts'[k][j].open => j = seq
    BY <1>1, <1>2, <1>3, <1>5
  <1>7. /\ recovery'[k].token = seq /\ recovery'[k].status = recovery[k].status
        /\ recovery'[k].escalated = recovery[k].escalated
    BY <1>1, <1>3 DEF RecoveryRow
  <1>8. RecoveryOK(k)'
    BY <1>2, <1>3, <1>4, <1>6, <1>7, PolicyAssumption DEF RecoveryOK
  <1>9. \A l \in Keys \ {k} : recovery'[l] = recovery[l] /\ attempts'[l] = attempts[l]
    BY <1>1, <1>3
  <1> QED BY <1>3, <1>8, <1>9, OneEffect

\* The steps that write the recovery index or an attempt.
RecoveryWrites ==
  \/ LedgerWrites
  \/ \E w \in Recoverers : \/ \E k \in Keys : Claim(w, k)
                           \/ PersistLookup(w) \/ FinishResume(w)
  \/ \E k \in Keys : \/ ClaimEscalates(k) \/ GraceElapses(k)
                     \/ BackoffElapses(k) \/ LeaseExpires(k)

LEMMA OtherwiseQuiet ==
  ASSUME [Next]_vars, ~RecoveryWrites
  PROVE  /\ recovery' = recovery /\ attempts' = attempts
         /\ ledger' = ledger /\ handoff' = handoff
BY DEF RecoveryWrites, LedgerWrites, Next, vars, CaseMutates, CloseCase, Authorize,
  request_approval, decide_approval, issue_capability, ExecuteReplays,
  ExecuteStarts, ExecutorStep, VerifyFresh, VerifyStale, PrepareReplays,
  PrepareRaises, DispatchStep, DispatchRaises, Send, ReceiptArrives, CallFails,
  TransitionRaises, Crash, RecovererStep, LookupAnswers, LookupRaises, Resume,
  Deadline, ApprovalExpires, CapabilityExpires, External, RemoteHandles,
  RemoteCompletes, RequestLost

\* A step that moves only a deadline, the lease or the escalation of one row.
LEMMA RowKeeps ==
  ASSUME TypeInv, RecoveryInv, NEW k \in Keys, NEW r \in RecoveryRow,
         recovery' = [recovery EXCEPT ![k] = r],
         r.status = recovery[k].status, r.token = recovery[k].token,
         r.live => recovery[k].live,
         r.escalated => ledger[k].status \in RECOVERABLE,
         attempts' = attempts, ledger' = ledger
  PROVE  RecoveryInv'
  <1>1. recovery \in [Keys -> RecoveryRow] BY DEF TypeInv, TypeOK
  <1>2. recovery'[k] = r /\ \A l \in Keys \ {k} : recovery'[l] = recovery[l]
    BY <1>1
  <1>3. RecoveryOK(k)' BY <1>2 DEF RecoveryInv, RecoveryOK
  <1> QED BY <1>2, <1>3, OneEffect

LEMMA DeadlineKeeps ==
  ASSUME TypeInv, RecoveryInv, NEW k \in Keys,
         \/ ClaimEscalates(k) \/ GraceElapses(k)
         \/ BackoffElapses(k) \/ LeaseExpires(k)
  PROVE  RecoveryInv'
  <1>1. recovery[k] \in RecoveryRow /\ RecoveryOK(k)
    BY DEF TypeInv, TypeOK, RecoveryInv
  <1>2. CASE ClaimEscalates(k)
    <2> DEFINE r == [recovery[k] EXCEPT !.escalated = TRUE]
    <2>1. /\ r \in RecoveryRow /\ r.status = recovery[k].status
          /\ r.token = recovery[k].token /\ r.live = recovery[k].live
      BY <1>1 DEF RecoveryRow
    <2>2. /\ recovery' = [recovery EXCEPT ![k] = r] /\ attempts' = attempts
          /\ ledger' = ledger /\ ledger[k].status \in RECOVERABLE
      BY <1>2 DEF ClaimEscalates, MarkExhausted
    <2> HIDE DEF r
    <2> QED BY <2>1, <2>2, RowKeeps
  <1>3. CASE GraceElapses(k)
    <2> DEFINE r == [recovery[k] EXCEPT !.graceOver = TRUE]
    <2>1. /\ r \in RecoveryRow /\ r.status = recovery[k].status
          /\ r.token = recovery[k].token /\ r.live = recovery[k].live
          /\ r.escalated = recovery[k].escalated
      BY <1>1 DEF RecoveryRow
    <2>2. /\ recovery' = [recovery EXCEPT ![k] = r] /\ attempts' = attempts
          /\ ledger' = ledger
      BY <1>3 DEF GraceElapses
    <2> HIDE DEF r
    <2> QED BY <1>1, <2>1, <2>2, RowKeeps DEF RecoveryOK
  <1>4. CASE BackoffElapses(k)
    <2> DEFINE r == [recovery[k] EXCEPT !.due = TRUE]
    <2>1. /\ r \in RecoveryRow /\ r.status = recovery[k].status
          /\ r.token = recovery[k].token /\ r.live = recovery[k].live
          /\ r.escalated = recovery[k].escalated
      BY <1>1 DEF RecoveryRow
    <2>2. /\ recovery' = [recovery EXCEPT ![k] = r] /\ attempts' = attempts
          /\ ledger' = ledger
      BY <1>4 DEF BackoffElapses
    <2> HIDE DEF r
    <2> QED BY <1>1, <2>1, <2>2, RowKeeps DEF RecoveryOK
  <1>5. CASE LeaseExpires(k)
    <2> DEFINE r == [recovery[k] EXCEPT !.live = FALSE]
    <2>1. /\ r \in RecoveryRow /\ r.status = recovery[k].status
          /\ r.token = recovery[k].token /\ ~r.live
          /\ r.escalated = recovery[k].escalated
      BY <1>1 DEF RecoveryRow
    <2>2. /\ recovery' = [recovery EXCEPT ![k] = r] /\ attempts' = attempts
          /\ ledger' = ledger
      BY <1>5 DEF LeaseExpires
    <2> HIDE DEF r
    <2> QED BY <1>1, <2>1, <2>2, RowKeeps DEF RecoveryOK
  <1> QED BY <1>2, <1>3, <1>4, <1>5

\* Annotating an attempt with its lookup leaves it open or closed.
LEMMA PersistKeeps ==
  ASSUME TypeInv, RecoveryInv, NEW w \in Recoverers, PersistLookup(w)
  PROVE  RecoveryInv'
  <1> DEFINE k == job[w].key
             i == job[w].seq
  <1>1. /\ attempts \in [Keys -> [Seqs -> AttemptRow]]
        /\ k \in Keys /\ i \in Seqs
    BY DEF TypeInv, TypeOK, JobShape, PersistLookup
  <1>2. recovery' = recovery /\ ledger' = ledger BY DEF PersistLookup
  <1>3. \/ attempts' = attempts
        \/ attempts' = [attempts EXCEPT ![k][i].lookup = job[w].got]
    BY DEF PersistLookup
  <1>4. \A l \in Keys, j \in Seqs : attempts'[l][j].open = attempts[l][j].open
    <2> HIDE DEF k, i
    <2>1. \A a \in AttemptRow : [a EXCEPT !.lookup = job[w].got].open = a.open
      BY DEF AttemptRow
    <2>2. \A l \in Keys, j \in Seqs :
            \/ attempts'[l][j] = attempts[l][j]
            \/ attempts'[l][j] = [attempts[l][j] EXCEPT !.lookup = job[w].got]
      <3>1. CASE attempts' = attempts BY <3>1
      <3>2. CASE attempts' = [attempts EXCEPT ![k][i].lookup = job[w].got]
        BY <1>1, <3>2
      <3> QED BY <1>3, <3>1, <3>2
    <2>3. \A l \in Keys, j \in Seqs : attempts[l][j] \in AttemptRow BY <1>1
    <2> QED BY <2>1, <2>2, <2>3, Zenon
  <1>5. \A l \in Keys : recovery[l].token \in {0} \cup Seqs
    BY DEF TypeInv, TypeOK, RecoveryRow
  <1> QED BY <1>2, <1>4, <1>5 DEF RecoveryInv, RecoveryOK

\* The owner of a claim that has finished, with the row it leaves.
LEMMA OwnerFinishes ==
  ASSUME TypeInv, RecoveryInv, NEW w \in Recoverers, job[w].pc \in RecoveryPCs,
         Owned(w), CloseAttempt(w), NEW r \in RecoveryRow, NEW e \in BOOLEAN,
         recovery' = [recovery EXCEPT ![job[w].key] =
                        FinishRow(r, job[w].seq, ledger'[job[w].key].status, e)],
         r.status = ledger'[job[w].key].status,
         \A l \in Keys \ {job[w].key} : ledger'[l] = ledger[l]
  PROVE  RecoveryInv'
  <1>1. job[w].key \in Keys /\ job[w].seq \in Seqs
    BY DEF TypeInv, JobShape
  <1>2. /\ recovery[job[w].key].token = job[w].seq
        /\ attempts' = [attempts EXCEPT ![job[w].key][job[w].seq].open = FALSE]
    BY DEF Owned, LeaseHeld, CloseAttempt
  <1> QED BY <1>1, <1>2, FinishKeeps

LEMMA RecovererKeeps ==
  ASSUME TypeInv, RecoveryInv, NEW w \in Recoverers,
         RecoverTransition(w) \/ FinishError(w) \/ FinishResume(w)
  PROVE  RecoveryInv'
  <1> DEFINE k == job[w].key
  <1>k. k \in Keys /\ job[w].pc \in RecoveryPCs
    BY DEF RecoverTransition, FinishError, FinishResume, TypeInv, JobShape
  <1>r. /\ recovery \in [Keys -> RecoveryRow] /\ ledger \in [Keys -> EffectRow]
        /\ FALSE \in BOOLEAN
    BY DEF TypeInv, TypeOK
  <1>s. ASSUME NEW s \in RowStatus
        PROVE  SyncRow(recovery[k], s) \in RecoveryRow /\ SyncRow(recovery[k], s).status = s
    <2>1. SyncRow(recovery[k], s) \in RecoveryRow
      BY <1>k, <1>r, SyncRowType
    <2>2. recovery[k] \in RecoveryRow BY <1>k, <1>r
    <2> QED BY <2>1, <2>2 DEF SyncRow, RecoveryRow
  <1>1. CASE RecoverTransition(w)
    <2> DEFINE answer == Attempt(w).lookup
               s == reconcile_status(answer, NotFoundProvesNoEffect)
    <2>1. PICK fresh \in BOOLEAN :
            IF ProofVerdict(w, answer, fresh) = "OK"
            THEN /\ ledger' = [ledger EXCEPT ![k].status = s, ![k].ref =
                      @ \/ answer \in {"FOUND_APPLIED", "FOUND_ACCEPTED"}]
                 /\ recovery' = [recovery EXCEPT ![k] =
                      FinishRow(SyncRow(@, s), job[w].seq, s, FALSE)]
                 /\ CloseAttempt(w)
            ELSE UNCHANGED <<ledger, recovery, attempts>>
      BY <1>1 DEF RecoverTransition
    <2>2. CASE ProofVerdict(w, answer, fresh) = "OK"
      <3>1. Owned(w) BY <2>2 DEF ProofVerdict
      <3>2. s \in RowStatus BY ReconcileType DEF RowStatus, EffectStatus
      <3> HIDE DEF s, answer
      <3>3. ledger'[k].status = s /\ \A l \in Keys \ {k} : ledger'[l] = ledger[l]
        BY <1>k, <1>r, <2>1, <2>2 DEF EffectRow
      <3>4. recovery' = [recovery EXCEPT ![k] =
              FinishRow(SyncRow(recovery[k], s), job[w].seq, s, FALSE)]
        BY <2>1, <2>2
      <3>5. SyncRow(recovery[k], s) \in RecoveryRow /\ SyncRow(recovery[k], s).status = s
        BY <1>s, <3>2
      <3> QED BY <1>k, <1>r, <2>1, <2>2, <3>1, <3>3, <3>4, <3>5, OwnerFinishes
    <2>3. CASE ProofVerdict(w, answer, fresh) # "OK"
      BY <2>1, <2>3, BooksKept
    <2> QED BY <2>2, <2>3
  <1>2. CASE FinishResume(w)
    <2>1. CASE Owned(w)
      <3>1. recovery[k] \in RecoveryRow /\ recovery[k].status = ledger[k].status
        BY <1>k, <1>r DEF RecoveryInv, RecoveryOK
      <3>2. /\ recovery' = [recovery EXCEPT ![k] =
                 FinishRow(recovery[k], job[w].seq, ledger'[k].status, FALSE)]
            /\ CloseAttempt(w) /\ ledger' = ledger
        BY <1>2, <2>1 DEF FinishResume
      <3> QED BY <1>k, <1>r, <2>1, <3>1, <3>2, OwnerFinishes
    <2>2. CASE ~Owned(w) BY <1>2, <2>2, BooksKept DEF FinishResume
    <2> QED BY <2>1, <2>2
  <1>3. CASE FinishError(w)
    <2> DEFINE e == escalates(job[w].got)
    <2>e. e \in BOOLEAN BY DEF escalates
    <2>1. CASE ~Owned(w) BY <1>3, <2>1, BooksKept DEF FinishError
    <2>2. CASE Owned(w) /\ AtSource(w)
      <3>1. "UNKNOWN" \in RowStatus BY DEF RowStatus, EffectStatus
      <3>2. /\ recovery' = [recovery EXCEPT ![k] =
                 FinishRow(SyncRow(recovery[k], "UNKNOWN"), job[w].seq, "UNKNOWN", e)]
            /\ CloseAttempt(w)
            /\ ledger' = [ledger EXCEPT ![k].status = "UNKNOWN"]
        BY <1>3, <2>2 DEF FinishError
      <3> HIDE DEF e
      <3>3. ledger'[k].status = "UNKNOWN" /\ \A l \in Keys \ {k} : ledger'[l] = ledger[l]
        BY <1>k, <1>r, <3>2 DEF EffectRow
      <3>4. /\ SyncRow(recovery[k], "UNKNOWN") \in RecoveryRow
            /\ SyncRow(recovery[k], "UNKNOWN").status = "UNKNOWN"
        BY <1>s, <3>1
      <3> QED BY <1>k, <2>e, <2>2, <3>2, <3>3, <3>4, OwnerFinishes
    <2>3. CASE Owned(w) /\ ~AtSource(w)
      <3>1. recovery[k] \in RecoveryRow /\ recovery[k].status = ledger[k].status
        BY <1>k, <1>r DEF RecoveryInv, RecoveryOK
      <3>2. /\ recovery' = [recovery EXCEPT ![k] =
                 FinishRow(recovery[k], job[w].seq, ledger'[k].status, e)]
            /\ CloseAttempt(w) /\ ledger' = ledger
        BY <1>3, <2>3 DEF FinishError
      <3> HIDE DEF e
      <3> QED BY <1>k, <2>e, <2>3, <3>1, <3>2, OwnerFinishes
    <2> QED BY <2>1, <2>2, <2>3
  <1> QED BY <1>1, <1>2, <1>3

LEMMA RecoveryInit == Init => RecoveryInv
BY DEF Init, RecoveryInv, RecoveryOK

LEMMA RecoveryNext ==
  ASSUME TypeInv, RecoveryInv, [Next]_vars
  PROVE  RecoveryInv'
  <1>r. ledger \in [Keys -> EffectRow] BY DEF TypeInv, TypeOK
  <1>1. CASE ~RecoveryWrites BY <1>1, OtherwiseQuiet, BooksKept
  <1>2. ASSUME NEW w \in Executors, PrepareInserts(w) PROVE RecoveryInv'
    <2> DEFINE k == caps[job[w].cap].key
               s == IF k \in Noops THEN "NOOP" ELSE "PREPARED"
    <2>1. k \in Keys BY <1>2 DEF PrepareInserts, TypeInv, JobShape
    <2>2. s \in RowStatus BY DEF RowStatus, EffectStatus
    <2>3. /\ recovery' = [recovery EXCEPT ![k] = SyncRow(@, s)]
          /\ attempts' = attempts
          /\ ledger' = [ledger EXCEPT ![k] = [status |-> s, cap |-> job[w].cap,
               prepared |-> revision', attempts |-> 0, ref |-> FALSE]]
      BY <1>2 DEF PrepareInserts
    <2> HIDE DEF s
    <2>4. ledger'[k].status = s /\ \A l \in Keys \ {k} : ledger'[l] = ledger[l]
      BY <1>r, <2>1, <2>3
    <2> QED BY <2>1, <2>2, <2>3, <2>4, SyncKeeps
  <1>3. ASSUME NEW w \in Workers, DispatchCommits(w) PROVE RecoveryInv'
    <2> DEFINE k == job[w].key
    <2>1. k \in Keys /\ "DISPATCHED" \in RowStatus
      BY <1>3 DEF DispatchCommits, TypeInv, JobShape, RowStatus, EffectStatus
    <2>2. /\ recovery' = [recovery EXCEPT ![k] = SyncRow(@, "DISPATCHED")]
          /\ attempts' = attempts
          /\ ledger' = [ledger EXCEPT ![k].status = "DISPATCHED", ![k].attempts = 1]
      BY <1>3 DEF DispatchCommits
    <2>3. /\ ledger'[k].status = "DISPATCHED"
          /\ \A l \in Keys \ {k} : ledger'[l] = ledger[l]
      BY <1>r, <2>1, <2>2 DEF EffectRow
    <2> QED BY <2>1, <2>2, <2>3, SyncKeeps
  <1>4. ASSUME NEW w \in Workers, Transition(w) PROVE RecoveryInv'
    <2> DEFINE k == job[w].key
               s == job[w].got
    <2>1. k \in Keys /\ s \in RowStatus
      BY <1>4 DEF Transition, TypeInv, JobShape, RowStatus, EffectStatus,
        ReceiptOutcome
    <2>2. /\ recovery' = [recovery EXCEPT ![k] = SyncRow(@, s)]
          /\ attempts' = attempts
          /\ \A l \in Keys \ {k} : ledger'[l] = ledger[l]
          /\ ledger'[k].status = s
      BY <1>r, <1>4, <2>1 DEF Transition, EffectRow
    <2> QED BY <2>1, <2>2, SyncKeeps
  <1> QED BY <1>1, <1>2, <1>3, <1>4, ClaimKeeps, DeadlineKeeps, PersistKeeps,
       RecovererKeeps DEF RecoveryWrites, LedgerWrites

LEMMA RecoveryAlways == Spec => []RecoveryInv
  <1>1. TypeInv /\ RecoveryInv /\ [Next]_vars => RecoveryInv' BY RecoveryNext
  <1> QED BY <1>1, RecoveryInit, TypeAlways, PTL DEF Spec

(***************************************************************************)
(* However senders, recoverers, crashes and expired leases interleave, the *)
(* recovery bookkeeping agrees with the ledger: at most one attempt of an  *)
(* effect is open, the one the lease carries; the index shows the ledger's *)
(* status; only an unresolved effect is marked for an operator.            *)
(***************************************************************************)
THEOREM LeaseDiscipline == Spec => []RecoveryAgrees
  <1>1. ASSUME TypeInv, RecoveryInv PROVE RecoveryAgrees
    <2>1. ASSUME NEW k \in Keys
          PROVE  /\ DOMAIN attempts[k] = Seqs
                 /\ recovery[k].token \in {0} \cup Seqs
                 /\ RecoveryOK(k)
      BY <1>1 DEF TypeInv, TypeOK, RecoveryRow, RecoveryInv
    <2>2. LeaseAndAttemptAgree BY <2>1 DEF RecoveryOK, LeaseAndAttemptAgree
    <2>3. IndexNeverLags /\ EscalatedIsUnresolved
      BY <2>1 DEF RecoveryOK, IndexNeverLags, EscalatedIsUnresolved
    <2> QED BY <2>2, <2>3 DEF RecoveryAgrees
  <1> QED BY <1>1, TypeAlways, RecoveryAlways, PTL

-----------------------------------------------------------------------------
(***************************************************************************)
(* The work an effect leaves behind. What a step publishes for the status  *)
(* it writes is never withdrawn, so the work of ACCEPTED, which publishes  *)
(* nothing itself, is the recheck that DISPATCHED or UNKNOWN published.    *)
(***************************************************************************)
HandoffMove(k) ==
  /\ handoff[k] \subseteq handoff'[k]
  /\ \/ ledger'[k].status = ledger[k].status
     \/ effect_handoff(ledger'[k].status, k \in Verifiable) \subseteq handoff'[k]

\* Only the rows of k are written, and effect_handoff runs in the same step.
LEMMA PublishedWith ==
  ASSUME TypeInv, NEW k \in Keys, NEW s, NEW extra,
         handoff' = [handoff EXCEPT ![k] =
           @ \cup effect_handoff(s, k \in Verifiable) \cup extra],
         ledger'[k].status = s, \A l \in Keys \ {k} : ledger'[l] = ledger[l],
         NEW l \in Keys
  PROVE  HandoffMove(l)
  <1>1. handoff \in [Keys -> SUBSET WorkKinds] BY DEF TypeInv, TypeOK
  <1> DEFINE new == effect_handoff(s, k \in Verifiable)
  <1>2. CASE l = k
    <2>1. new = effect_handoff(ledger'[l].status, l \in Verifiable) BY <1>2
    <2> HIDE DEF new
    <2> QED BY <1>1, <1>2, <2>1 DEF HandoffMove
  <1>3. CASE l # k BY <1>1, <1>3 DEF HandoffMove
  <1> QED BY <1>2, <1>3

LEMMA PublishMoves ==
  ASSUME TypeInv, NEW k \in Keys, NEW s, Publish(k, s),
         ledger'[k].status = s, \A l \in Keys \ {k} : ledger'[l] = ledger[l],
         NEW l \in Keys
  PROVE  HandoffMove(l)
  <1>1. PICK f \in BOOLEAN :
          handoff' = [handoff EXCEPT ![k] =
            @ \cup effect_handoff(s, k \in Verifiable)
              \cup (IF f THEN {"OPERATOR_FOLLOWUP"} ELSE {})]
    BY DEF Publish
  <1> QED BY <1>1, PublishedWith

\* The ledger row that each writer leaves, and the handoff it publishes.
LEMMA HandoffSteps ==
  ASSUME TypeInv, [Next]_vars, NEW l \in Keys
  PROVE  HandoffMove(l)
  <1>r. ledger \in [Keys -> EffectRow] BY DEF TypeInv, TypeOK
  <1>0. ASSUME handoff' = handoff, ledger' = ledger PROVE HandoffMove(l)
    BY <1>0 DEF HandoffMove
  <1>1. CASE ~LedgerWrites
    <2>1. handoff' = handoff
      BY <1>1, OtherwiseQuiet DEF RecoveryWrites, Claim, PersistLookup,
        FinishResume, ClaimEscalates, GraceElapses, BackoffElapses, LeaseExpires
    <2> QED BY <1>0, <1>1, <2>1, OtherwiseKept
  <1>2. ASSUME NEW w \in Executors, PrepareInserts(w) PROVE HandoffMove(l)
    <2> DEFINE k == caps[job[w].cap].key
               s == IF k \in Noops THEN "NOOP" ELSE "PREPARED"
    <2>1. k \in Keys BY <1>2 DEF PrepareInserts, TypeInv, JobShape
    <2>2. /\ handoff' = [handoff EXCEPT ![k] =
               @ \cup effect_handoff(s, k \in Verifiable)]
          /\ ledger' = [ledger EXCEPT ![k] = [status |-> s, cap |-> job[w].cap,
               prepared |-> revision', attempts |-> 0, ref |-> FALSE]]
      BY <1>2 DEF PrepareInserts
    <2> HIDE DEF s
    <2>3. ledger'[k].status = s /\ \A m \in Keys \ {k} : ledger'[m] = ledger[m]
      BY <1>r, <2>1, <2>2
    <2>4. handoff' = [handoff EXCEPT ![k] =
            @ \cup effect_handoff(s, k \in Verifiable) \cup {}]
      BY <2>2
    <2> QED BY <2>1, <2>3, <2>4, PublishedWith
  <1>3. ASSUME NEW w \in Workers, DispatchCommits(w) PROVE HandoffMove(l)
    <2> DEFINE k == job[w].key
    <2>1. k \in Keys /\ Publish(k, "DISPATCHED")
      BY <1>3 DEF DispatchCommits, TypeInv, JobShape
    <2>2. /\ ledger'[k].status = "DISPATCHED"
          /\ \A m \in Keys \ {k} : ledger'[m] = ledger[m]
      BY <1>r, <1>3, <2>1 DEF DispatchCommits, EffectRow
    <2> QED BY <2>1, <2>2, PublishMoves
  <1>4. ASSUME NEW w \in Workers, Transition(w) PROVE HandoffMove(l)
    <2> DEFINE k == job[w].key
    <2>1. k \in Keys /\ Publish(k, job[w].got)
      BY <1>4 DEF Transition, TypeInv, JobShape
    <2>2. /\ ledger'[k].status = job[w].got
          /\ \A m \in Keys \ {k} : ledger'[m] = ledger[m]
      BY <1>r, <1>4, <2>1 DEF Transition, EffectRow
    <2> QED BY <2>1, <2>2, PublishMoves
  <1>5. ASSUME NEW w \in Recoverers, RecoverTransition(w) PROVE HandoffMove(l)
    <2> DEFINE k == job[w].key
               answer == Attempt(w).lookup
               s == reconcile_status(answer, NotFoundProvesNoEffect)
    <2>1. k \in Keys BY <1>5 DEF RecoverTransition, TypeInv, JobShape
    <2>2. \/ UNCHANGED <<ledger, handoff>>
          \/ /\ ledger' = [ledger EXCEPT ![k].status = s, ![k].ref =
                  @ \/ answer \in {"FOUND_APPLIED", "FOUND_ACCEPTED"}]
             /\ Publish(k, s)
      BY <1>5 DEF RecoverTransition
    <2>3. CASE UNCHANGED <<ledger, handoff>> BY <1>0, <2>3
    <2>4. CASE ~UNCHANGED <<ledger, handoff>>
      <3> HIDE DEF s, answer
      <3>1. ledger'[k].status = s /\ \A m \in Keys \ {k} : ledger'[m] = ledger[m]
        BY <1>r, <2>1, <2>2, <2>4 DEF EffectRow
      <3> QED BY <2>1, <2>2, <2>4, <3>1, PublishMoves
    <2> QED BY <2>3, <2>4
  <1>6. ASSUME NEW w \in Recoverers, FinishError(w) PROVE HandoffMove(l)
    <2> DEFINE k == job[w].key
    <2>1. k \in Keys BY <1>6 DEF FinishError, TypeInv, JobShape
    <2>2. \/ UNCHANGED <<ledger, handoff>>
          \/ /\ ledger' = [ledger EXCEPT ![k].status = "UNKNOWN"]
             /\ Publish(k, "UNKNOWN")
      BY <1>6 DEF FinishError
    <2>3. CASE UNCHANGED <<ledger, handoff>> BY <1>0, <2>3
    <2>4. CASE ~UNCHANGED <<ledger, handoff>>
      <3>1. /\ ledger'[k].status = "UNKNOWN"
            /\ \A m \in Keys \ {k} : ledger'[m] = ledger[m]
        BY <1>r, <2>1, <2>2, <2>4 DEF EffectRow
      <3> QED BY <2>1, <2>2, <2>4, <3>1, PublishMoves
    <2> QED BY <2>3, <2>4
  <1> QED BY <1>1, <1>2, <1>3, <1>4, <1>5, <1>6 DEF LedgerWrites

(***************************************************************************)
(* No effect is forgotten: whichever thread wrote the status of an effect, *)
(* and whoever crashed since, the work item of its next step was published *)
(* in a transaction that committed.                                        *)
(***************************************************************************)
THEOREM NextStepPublished == Spec => []NoEffectIsForgotten
  <1>1. Init => NoEffectIsForgotten BY DEF Init, NoEffectIsForgotten, LOOKUP_ONLY
  <1>2. ASSUME TypeInv, NoEffectIsForgotten, [Next]_vars
        PROVE  NoEffectIsForgotten'
    <2> SUFFICES ASSUME NEW k \in Keys
                 PROVE  /\ ledger'[k].status \in LOOKUP_ONLY =>
                             "RECOVERY_RECHECK" \in handoff'[k]
                        /\ ledger'[k].status = "APPLIED" =>
                             (IF k \in Verifiable THEN "VERIFICATION_REQUIRED"
                              ELSE "OPERATOR_FOLLOWUP") \in handoff'[k]
                        /\ ledger'[k].status = "FAILED_CONFIRMED" =>
                             "OPERATOR_FOLLOWUP" \in handoff'[k]
      BY DEF NoEffectIsForgotten
    <2>1. HandoffMove(k) /\ LedgerMove(k)
      BY <1>2, HandoffSteps, LedgerSteps
    <2>2. CASE ledger'[k].status = ledger[k].status
      BY <1>2, <2>1, <2>2 DEF HandoffMove, NoEffectIsForgotten
    <2>3. CASE ledger'[k].status # ledger[k].status
      <3>1. effect_handoff(ledger'[k].status, k \in Verifiable) \subseteq handoff'[k]
        BY <2>1, <2>3 DEF HandoffMove
      <3>2. ledger'[k].status = "ACCEPTED" => "RECOVERY_RECHECK" \in handoff'[k]
        BY <1>2, <2>1, <2>3 DEF LedgerMove, HandoffMove, NoEffectIsForgotten, Outcomes
      <3> DEFINE s == ledger'[k].status
      <3>3. s \in {"UNKNOWN", "DISPATCHED"} => "RECOVERY_RECHECK" \in handoff'[k]
        BY <3>1 DEF effect_handoff
      <3>4. s = "APPLIED" /\ k \in Verifiable =>
              "VERIFICATION_REQUIRED" \in handoff'[k]
        BY <3>1 DEF effect_handoff
      <3>5. s = "APPLIED" /\ k \notin Verifiable =>
              "OPERATOR_FOLLOWUP" \in handoff'[k]
        BY <3>1 DEF effect_handoff
      <3>6. s = "FAILED_CONFIRMED" => "OPERATOR_FOLLOWUP" \in handoff'[k]
        BY <3>1 DEF effect_handoff
      <3> HIDE DEF s
      <3> QED BY <3>2, <3>3, <3>4, <3>5, <3>6 DEF s, LOOKUP_ONLY
    <2> QED BY <2>2, <2>3
  <1>3. TypeInv /\ NoEffectIsForgotten /\ [Next]_vars => NoEffectIsForgotten'
    BY <1>2
  <1> QED BY <1>1, <1>3, TypeAlways, PTL DEF Spec

-----------------------------------------------------------------------------
(***************************************************************************)
(* A settled row is true. What a row may claim was learnt earlier, by a    *)
(* thread that may have been slow since, or from a proof a dead thread     *)
(* persisted: the invariant therefore asks the same of a thread's last     *)
(* answer and of every attempt's lookup as of the row, and holds because   *)
(* what such an answer says of the external system can no longer change.   *)
(***************************************************************************)
FinalStates == {"applied", "rejected", "closed"}

\* What the value v says of the state r of the external system.
Proven(r, v) ==
  /\ v \in {"APPLIED", "FOUND_APPLIED"} => r = "applied"
  /\ v = "FAILED_CONFIRMED" => r \in {"rejected", "closed"}
  /\ v = "FOUND_FAILED_NO_EFFECT" => r = "rejected"
  /\ v = "NOT_FOUND" /\ NotFoundProvesNoEffect => r = "closed"

TruthInv ==
  /\ \A k \in Keys : Proven(remote[k], ledger[k].status)
  /\ \A k \in Keys, i \in Seqs : Proven(remote[k], attempts[k][i].lookup)
  /\ \A w \in Workers :
       job[w].key \in Keys => Proven(remote[job[w].key], job[w].got)

\* Values that say nothing of the external system.
Neutral == {"none", "UNKNOWN"} \cup RecoveryFailure

LEMMA NeutralProven ==
  ASSUME NEW r, NEW v \in Neutral \cup {"ABSENT", "PREPARED", "DISPATCHED",
                                        "NOOP", "ACCEPTED"}
  PROVE  Proven(r, v)
BY DEF Neutral, RecoveryFailure, Proven

LEMMA OtherwiseStill ==
  ASSUME [Next]_vars, ~External, \A w \in Recoverers : ~LookupAnswers(w)
  PROVE  remote' = remote
BY DEF Next, vars, CaseMutates, CloseCase, Authorize,
  request_approval, decide_approval, issue_capability, ExecuteReplays,
  ExecuteStarts, ExecutorStep, VerifyFresh, VerifyStale, PrepareInserts,
  PrepareReplays, PrepareRaises, DispatchStep, DispatchCommits, DispatchRaises,
  Send, ReceiptArrives, CallFails, Transition, TransitionRaises, Crash, Claim,
  ClaimEscalates, RecovererStep, LookupRaises, PersistLookup, RecoverTransition,
  Resume, FinishResume, FinishError, Deadline, ApprovalExpires,
  CapabilityExpires, GraceElapses, BackoffElapses, LeaseExpires

\* What the external system did to an effect stays done.
LEMMA FinalStays ==
  ASSUME TypeInv, [Next]_vars, NEW k \in Keys, remote[k] \in FinalStates
  PROVE  remote'[k] = remote[k]
  <1>t. remote \in [Keys -> RemoteStates] BY DEF TypeInv, TypeOK
  <1>1. CASE ~External /\ \A w \in Recoverers : ~LookupAnswers(w)
    BY <1>1, OtherwiseStill
  <1>2. CASE External
    BY <1>t, <1>2 DEF External, RemoteHandles, RemoteCompletes, RequestLost,
      FinalStates
  <1>3. ASSUME NEW w \in Recoverers, LookupAnswers(w) PROVE remote'[k] = remote[k]
    <2>1. PICK answer \in Answers(job[w].key) :
            remote' = IF answer = "NOT_FOUND" /\ NotFoundProvesNoEffect
                      THEN [remote EXCEPT ![job[w].key] = "closed"] ELSE remote
      BY <1>3 DEF LookupAnswers
    <2>2. answer = "NOT_FOUND" /\ NotFoundProvesNoEffect =>
            remote[job[w].key] \in {"none", "closed"}
      BY DEF Answers
    <2> QED BY <1>t, <2>1, <2>2 DEF FinalStates
  <1> QED BY <1>1, <1>2, <1>3

LEMMA ProvenStays ==
  ASSUME TypeInv, [Next]_vars, NEW k \in Keys, NEW v,
         Proven(remote[k], v)
  PROVE  Proven(remote'[k], v)
BY FinalStays DEF Proven, FinalStates

\* What a thread knows: what it knew, nothing, or what it was just told.
KnowledgeMove(w) ==
  \/ job'[w].key = job[w].key /\ job'[w].got = job[w].got
  \/ job'[w].got \in Neutral
  \/ /\ job'[w].key = job[w].key /\ remote' = remote
     /\ job'[w].got \in ReceiptOf(job[w].key)
  \/ /\ job'[w].key = job[w].key
     /\ \E answer \in Answers(job[w].key) :
          /\ job'[w].got = answer
          /\ remote' = IF answer = "NOT_FOUND" /\ NotFoundProvesNoEffect
                       THEN [remote EXCEPT ![job[w].key] = "closed"] ELSE remote

\* One thread goes on, learning nothing about its effect.
LEMMA LearnsNothing ==
  ASSUME TypeInv, NEW v \in Workers, NEW j, job' = [job EXCEPT ![v] = j],
         \/ j.key = job[v].key /\ j.got = job[v].got
         \/ j.got \in Neutral,
         NEW w \in Workers
  PROVE  KnowledgeMove(w)
  <1>1. job'[w] = IF w = v THEN j ELSE job[w] BY DEF TypeInv, TypeOK
  <1> QED BY <1>1 DEF KnowledgeMove

LEMMA IdleLearnsNothing ==
  ASSUME TypeInv, NEW v \in Workers, job' = [job EXCEPT ![v] = Idle],
         NEW w \in Workers
  PROVE  KnowledgeMove(w)
  <1>1. Idle.got \in Neutral BY DEF Neutral
  <1> QED BY <1>1, LearnsNothing

LEMMA GotoLearnsNothing ==
  ASSUME TypeInv, NEW v \in Workers, NEW pc, Goto(v, pc), NEW w \in Workers
  PROVE  KnowledgeMove(w)
  <1>1. job[v] \in Job BY DEF TypeInv, TypeOK
  <1> DEFINE j == [job[v] EXCEPT !.pc = pc]
  <1>2. job' = [job EXCEPT ![v] = j] BY DEF Goto
  <1>3. j.key = job[v].key /\ j.got = job[v].got BY <1>1 DEF Job
  <1> HIDE DEF j
  <1> QED BY <1>2, <1>3, LearnsNothing

LEMMA FailLearnsNothing ==
  ASSUME TypeInv, NEW v \in Workers, NEW f \in RecoveryFailure, Fail(v, f),
         NEW w \in Workers
  PROVE  KnowledgeMove(w)
  <1>1. job[v] \in Job BY DEF TypeInv, TypeOK
  <1> DEFINE j == IF job[v].seq = 0 THEN Idle
                  ELSE [job[v] EXCEPT !.pc = "error", !.got = f]
  <1>2. job' = [job EXCEPT ![v] = j] BY DEF Fail
  <1>3. j.got \in Neutral BY <1>1 DEF Job, Neutral
  <1> HIDE DEF j
  <1> QED BY <1>2, <1>3, LearnsNothing

LEMMA DispatchKnowledge ==
  ASSUME TypeInv, NEW v \in Workers, DispatchStep(v) \/ Crash(v), NEW w \in Workers
  PROVE  KnowledgeMove(w)
  <1>1. job[v] \in Job /\ job \in [Workers -> Job] BY DEF TypeInv, TypeOK
  <1>2. CASE DispatchCommits(v) \/ Send(v)
    BY <1>2, GotoLearnsNothing DEF DispatchCommits, Send
  <1>3. CASE DispatchRaises(v) \/ TransitionRaises(v)
    BY <1>3, FailLearnsNothing DEF DispatchRaises, TransitionRaises, RecoveryFailure
  <1>4. CASE CallFails(v)
    <2> DEFINE j == [job[v] EXCEPT !.pc = "settle", !.got = "UNKNOWN"]
    <2>1. job' = [job EXCEPT ![v] = j] BY <1>1, <1>4 DEF CallFails
    <2>2. j.got \in Neutral BY <1>1 DEF Job, Neutral
    <2> HIDE DEF j
    <2> QED BY <2>1, <2>2, LearnsNothing
  <1>5. CASE Transition(v)
    <2> DEFINE j == IF job[v].seq = 0 THEN Idle
                    ELSE [job[v] EXCEPT !.pc = "finish", !.got = "none"]
    <2>1. job' = [job EXCEPT ![v] = j] BY <1>5 DEF Transition
    <2>2. j.got \in Neutral BY <1>1 DEF Job, Neutral
    <2> HIDE DEF j
    <2> QED BY <2>1, <2>2, LearnsNothing
  <1>6. CASE Crash(v) BY <1>6, IdleLearnsNothing DEF Crash
  <1>7. CASE ReceiptArrives(v)
    <2>1. PICK g \in ReceiptOf(job[v].key) :
            job' = [job EXCEPT ![v].pc = "settle", ![v].got = g]
      BY <1>7 DEF ReceiptArrives
    <2>2. /\ job'[v].key = job[v].key /\ job'[v].got = g
          /\ w # v => job'[w] = job[w]
      BY <1>1, <2>1 DEF Job
    <2>3. remote' = remote BY <1>7 DEF ReceiptArrives
    <2> QED BY <2>2, <2>3 DEF KnowledgeMove
  <1> QED BY <1>2, <1>3, <1>4, <1>5, <1>6, <1>7 DEF DispatchStep

LEMMA RecovererKnowledge ==
  ASSUME TypeInv, NEW v \in Recoverers, RecovererStep(v), NEW w \in Workers
  PROVE  KnowledgeMove(w)
  <1>1. v \in Workers /\ job[v] \in Job /\ job \in [Workers -> Job]
    BY DEF TypeInv, TypeOK
  <1>2. CASE LookupAnswers(v)
    <2>1. PICK answer \in Answers(job[v].key) :
            /\ job' = [job EXCEPT ![v].pc = "persist", ![v].got = answer]
            /\ remote' = IF answer = "NOT_FOUND" /\ NotFoundProvesNoEffect
                         THEN [remote EXCEPT ![job[v].key] = "closed"] ELSE remote
      BY <1>2 DEF LookupAnswers
    <2>2. /\ job'[v].key = job[v].key /\ job'[v].got = answer
          /\ w # v => job'[w] = job[w]
      BY <1>1, <2>1 DEF Job
    <2> QED BY <2>1, <2>2 DEF KnowledgeMove
  <1>3. CASE LookupRaises(v)
    <2>1. PICK f \in RecoveryFailure : Fail(v, f)
      BY <1>3 DEF LookupRaises, RecoveryFailure
    <2> QED BY <1>1, <2>1, FailLearnsNothing
  <1>4. CASE PersistLookup(v)
    <2> DEFINE V(fresh) == IF Owned(v) /\ AtSource(v) /\ Attempt(v).lookup # "none"
                           THEN "LOOKUP_PROOF_CONFLICT"
                           ELSE ProofVerdict(v, job[v].got, fresh)
    <2>1. PICK fresh \in BOOLEAN :
            IF V(fresh) = "OK"
            THEN job' = [job EXCEPT ![v].pc = "transition", ![v].got = "none"]
            ELSE Fail(v, V(fresh))
      BY <1>4 DEF PersistLookup
    <2>2. CASE V(fresh) = "OK"
      <3> DEFINE j == [job[v] EXCEPT !.pc = "transition", !.got = "none"]
      <3>1. job' = [job EXCEPT ![v] = j] BY <1>1, <2>1, <2>2
      <3>2. j.got \in Neutral BY <1>1 DEF Job, Neutral
      <3> HIDE DEF j
      <3> QED BY <1>1, <3>1, <3>2, LearnsNothing
    <2>3. CASE V(fresh) # "OK"
      <3>1. V(fresh) \in RecoveryFailure
        BY <2>3, VerdictType DEF RecoveryFailure
      <3> HIDE DEF V
      <3> QED BY <1>1, <2>1, <2>3, <3>1, FailLearnsNothing
    <2> QED BY <2>2, <2>3
  <1>5. CASE RecoverTransition(v)
    <2>1. PICK fresh \in BOOLEAN :
            IF ProofVerdict(v, Attempt(v).lookup, fresh) = "OK"
            THEN job' = [job EXCEPT ![v] = Idle]
            ELSE Fail(v, ProofVerdict(v, Attempt(v).lookup, fresh))
      BY <1>5 DEF RecoverTransition
    <2> QED BY <1>1, <2>1, VerdictType, FailLearnsNothing, IdleLearnsNothing
  <1>6. CASE Resume(v)
    <2>1. CASE Fail(v, "RECOVERY_STALE")
      BY <1>1, <2>1, FailLearnsNothing DEF RecoveryFailure
    <2>2. CASE ~Fail(v, "RECOVERY_STALE")
      <3> DEFINE j == [job[v] EXCEPT !.pc = "dispatch", !.cap = ledger[job[v].key].cap]
      <3>1. job' = [job EXCEPT ![v] = j] BY <1>1, <1>6, <2>2 DEF Resume
      <3>2. j.key = job[v].key /\ j.got = job[v].got BY <1>1 DEF Job
      <3> HIDE DEF j
      <3> QED BY <1>1, <3>1, <3>2, LearnsNothing
    <2> QED BY <2>1, <2>2
  <1>7. CASE FinishResume(v) \/ FinishError(v)
    BY <1>1, <1>7, IdleLearnsNothing DEF FinishResume, FinishError
  <1> QED BY <1>2, <1>3, <1>4, <1>5, <1>6, <1>7 DEF RecovererStep

LEMMA KnowledgeSteps ==
  ASSUME TypeInv, [Next]_vars, NEW w \in Workers
  PROVE  KnowledgeMove(w)
  <1>0. ASSUME job' = job PROVE KnowledgeMove(w) BY <1>0 DEF KnowledgeMove
  <1>1. CASE UNCHANGED vars BY <1>0, <1>1 DEF vars
  <1>2. CASE CaseMutates \/ CloseCase \/ Authorize \/ Deadline \/ External
             \/ (\E c \in Caps : ExecuteReplays(c))
             \/ (\E k \in Keys : ClaimEscalates(k))
    BY <1>0, <1>2 DEF CaseMutates, CloseCase, Authorize, request_approval,
      decide_approval, issue_capability, Deadline, ApprovalExpires,
      CapabilityExpires, GraceElapses, BackoffElapses, LeaseExpires,
      ExecuteReplays, ClaimEscalates, External, RemoteHandles, RemoteCompletes,
      RequestLost
  <1>3. ASSUME NEW v \in Executors, ExecutorStep(v) PROVE KnowledgeMove(w)
    <2>1. v \in Workers /\ job[v] \in Job BY DEF TypeInv, TypeOK
    <2>2. CASE VerifyFresh(v) BY <2>1, <2>2, GotoLearnsNothing DEF VerifyFresh
    <2>3. CASE VerifyStale(v) \/ PrepareReplays(v) \/ PrepareRaises(v)
      BY <2>1, <2>3, IdleLearnsNothing DEF VerifyStale, PrepareReplays, PrepareRaises
    <2>4. CASE PrepareInserts(v)
      <3> DEFINE j == IF caps[job[v].cap].key \in Noops THEN Idle
                      ELSE [job[v] EXCEPT !.pc = AfterPrepare]
      <3>1. job' = [job EXCEPT ![v] = j] BY <2>4 DEF PrepareInserts
      <3>2. (j.key = job[v].key /\ j.got = job[v].got) \/ j.got \in Neutral
        BY <2>1 DEF Job, Neutral
      <3> HIDE DEF j
      <3> QED BY <2>1, <3>1, <3>2, LearnsNothing
    <2> QED BY <1>3, <2>2, <2>3, <2>4 DEF ExecutorStep
  <1>4. ASSUME NEW v \in Executors, NEW c \in Caps, ExecuteStarts(v, c)
        PROVE  KnowledgeMove(w)
    <2> DEFINE j == [Idle EXCEPT !.pc = "verify", !.cap = c, !.key = caps[c].key]
    <2>1. job' = [job EXCEPT ![v] = j] BY <1>4 DEF ExecuteStarts
    <2>2. j.got \in Neutral BY DEF Neutral
    <2> HIDE DEF j
    <2> QED BY <2>1, <2>2, LearnsNothing
  <1>5. ASSUME NEW v \in Recoverers, NEW k \in Keys, Claim(v, k)
        PROVE  KnowledgeMove(w)
    <2> DEFINE pc == IF ledger[k].status = "PREPARED" THEN "resume" ELSE "lookup"
               j == [Idle EXCEPT !.key = k, !.seq = recovery[k].count + 1,
                                 !.pc = pc]
    <2>1. job' = [job EXCEPT ![v] = j] BY <1>5 DEF Claim
    <2>2. j.got \in Neutral BY DEF Neutral
    <2> HIDE DEF j
    <2> QED BY <2>1, <2>2, LearnsNothing
  <1> QED BY <1>1, <1>2, <1>3, <1>4, <1>5, DispatchKnowledge, RecovererKnowledge
       DEF Next

LEMMA KnowledgeIsTrue ==
  ASSUME TypeInv, TruthInv, [Next]_vars, NEW w \in Workers, job'[w].key \in Keys
  PROVE  Proven(remote'[job'[w].key], job'[w].got)
  <1> DEFINE k == job[w].key
             v == job'[w].got
  <1>t. remote \in [Keys -> RemoteStates] BY DEF TypeInv, TypeOK
  <1>1. KnowledgeMove(w) BY KnowledgeSteps
  <1>2. CASE job'[w].key = k /\ v = job[w].got
    BY <1>2, ProvenStays DEF TruthInv
  <1>3. CASE v \in Neutral BY <1>3, NeutralProven
  <1>4. CASE job'[w].key = k /\ remote' = remote /\ v \in ReceiptOf(k)
    BY <1>4 DEF ReceiptOf, Proven
  <1>5. ASSUME job'[w].key = k, NEW answer \in Answers(k), v = answer,
               remote' = IF answer = "NOT_FOUND" /\ NotFoundProvesNoEffect
                         THEN [remote EXCEPT ![k] = "closed"] ELSE remote
        PROVE  Proven(remote'[k], v)
    <2>1. CASE answer = "NOT_FOUND" /\ NotFoundProvesNoEffect
      <3>1. remote'[k] = "closed" BY <1>t, <1>5, <2>1
      <3> QED BY <1>5, <2>1, <3>1 DEF Proven
    <2>2. CASE ~(answer = "NOT_FOUND" /\ NotFoundProvesNoEffect)
      <3>1. remote' = remote BY <1>5, <2>2
      <3>2. /\ answer \notin {"APPLIED", "FAILED_CONFIRMED"}
            /\ answer = "FOUND_APPLIED" => remote[k] = "applied"
            /\ answer = "FOUND_FAILED_NO_EFFECT" => remote[k] = "rejected"
        BY <1>5 DEF Answers
      <3> QED BY <1>5, <2>2, <3>1, <3>2 DEF Proven
    <2> QED BY <2>1, <2>2
  <1> QED BY <1>1, <1>2, <1>3, <1>4, <1>5 DEF KnowledgeMove

\* An attempt keeps its lookup, loses it to a new claim, or is given the
\* answer of the thread that works on it.
AttemptMove(k, i) ==
  \/ attempts'[k][i].lookup = attempts[k][i].lookup
  \/ attempts'[k][i].lookup = "none"
  \/ \E w \in Workers : job[w].key = k /\ attempts'[k][i].lookup = job[w].got

LEMMA CloseMoves ==
  ASSUME TypeInv, NEW w \in Workers, job[w].key \in Keys, job[w].seq \in Seqs,
         CloseAttempt(w), NEW k \in Keys, NEW i \in Seqs
  PROVE  AttemptMove(k, i)
  <1>1. attempts \in [Keys -> [Seqs -> AttemptRow]] BY DEF TypeInv, TypeOK
  <1>2. \/ attempts'[k][i] = attempts[k][i]
        \/ attempts'[k][i] = [attempts[k][i] EXCEPT !.open = FALSE]
    BY <1>1 DEF CloseAttempt
  <1>3. \A a \in AttemptRow : [a EXCEPT !.open = FALSE].lookup = a.lookup
    BY DEF AttemptRow
  <1> QED BY <1>1, <1>2, <1>3 DEF AttemptMove

LEMMA AttemptSteps ==
  ASSUME TypeInv, [Next]_vars, NEW k \in Keys, NEW i \in Seqs
  PROVE  AttemptMove(k, i)
  <1>t. /\ attempts \in [Keys -> [Seqs -> AttemptRow]]
        /\ recovery \in [Keys -> RecoveryRow]
    BY DEF TypeInv, TypeOK
  <1>0. ASSUME attempts' = attempts PROVE AttemptMove(k, i)
    BY <1>0 DEF AttemptMove
  <1>1. CASE ~RecoveryWrites BY <1>0, <1>1, OtherwiseQuiet
  <1>2. CASE \/ \E w \in Executors : PrepareInserts(w)
             \/ \E w \in Workers : DispatchCommits(w) \/ Transition(w)
             \/ \E l \in Keys : \/ ClaimEscalates(l) \/ GraceElapses(l)
                                \/ BackoffElapses(l) \/ LeaseExpires(l)
    BY <1>0, <1>2 DEF PrepareInserts, DispatchCommits, Transition, ClaimEscalates,
      GraceElapses, BackoffElapses, LeaseExpires
  <1>3. ASSUME NEW w \in Recoverers, NEW l \in Keys, Claim(w, l)
        PROVE  AttemptMove(k, i)
    <2> DEFINE seq == recovery[l].count + 1
               t == recovery[l].token
               new == [source |-> ledger[l].status, open |-> TRUE, lookup |-> "none"]
    <2>1. seq \in Seqs /\ t \in {0} \cup Seqs
      BY <1>3, <1>t, PolicyAssumption DEF Claim, Exhausted, RecoveryRow
    <2>2. attempts' = [attempts EXCEPT ![l] = [Abandon(l) EXCEPT ![seq] = new]]
      BY <1>3 DEF Claim
    <2>3. new.lookup = "none" OBVIOUS
    <2>4. /\ Abandon(l) \in [Seqs -> AttemptRow]
          /\ Abandon(l)[i].lookup = attempts[l][i].lookup
      <3>1. CASE t = 0 BY <1>t, <3>1 DEF Abandon
      <3>2. CASE t # 0
        <4>1. Abandon(l) = [attempts[l] EXCEPT ![t].open = FALSE]
          BY <3>2 DEF Abandon
        <4>2. /\ [attempts[l][t] EXCEPT !.open = FALSE] \in AttemptRow
              /\ [attempts[l][t] EXCEPT !.open = FALSE].lookup = attempts[l][t].lookup
          <5>1. attempts[l][t] \in AttemptRow BY <1>t, <2>1, <3>2
          <5> HIDE DEF t
          <5> QED BY <5>1 DEF AttemptRow
        <4> HIDE DEF t
        <4> QED BY <1>t, <2>1, <3>2, <4>1, <4>2
      <3> QED BY <3>1, <3>2
    <2> HIDE DEF seq, t, new
    <2>5. \/ attempts'[k][i] = attempts[k][i]
          \/ k = l /\ attempts'[k][i] = new
          \/ k = l /\ attempts'[k][i] = Abandon(l)[i]
      BY <1>t, <2>1, <2>2, <2>4
    <2> QED BY <2>3, <2>4, <2>5 DEF AttemptMove
  <1>4. ASSUME NEW w \in Recoverers, PersistLookup(w) PROVE AttemptMove(k, i)
    <2>1. \/ attempts' = attempts
          \/ attempts' = [attempts EXCEPT ![job[w].key][job[w].seq].lookup = job[w].got]
      BY <1>4 DEF PersistLookup
    <2>2. job[w].key \in Keys /\ job[w].seq \in Seqs
      BY <1>4 DEF PersistLookup, TypeInv, JobShape
    <2>3. \A a \in AttemptRow : [a EXCEPT !.lookup = job[w].got].lookup = job[w].got
      BY DEF AttemptRow
    <2>4. CASE attempts' = attempts BY <1>0, <2>4
    <2>5. CASE attempts' = [attempts EXCEPT ![job[w].key][job[w].seq].lookup =
                              job[w].got]
      <3>1. \/ attempts'[k][i] = attempts[k][i]
            \/ /\ k = job[w].key
               /\ attempts'[k][i] = [attempts[k][i] EXCEPT !.lookup = job[w].got]
        BY <1>t, <2>2, <2>5
      <3>2. attempts[k][i] \in AttemptRow BY <1>t
      <3> QED BY <2>3, <3>1, <3>2, Zenon DEF AttemptMove
    <2> QED BY <2>1, <2>4, <2>5
  <1>5. ASSUME NEW w \in Recoverers,
               RecoverTransition(w) \/ FinishError(w) \/ FinishResume(w)
        PROVE  AttemptMove(k, i)
    <2>1. job[w].key \in Keys /\ job[w].seq \in Seqs
      BY <1>5 DEF RecoverTransition, FinishError, FinishResume, TypeInv, JobShape
    <2>2. attempts' = attempts \/ CloseAttempt(w)
      BY <1>5 DEF RecoverTransition, FinishError, FinishResume
    <2> QED BY <1>0, <2>1, <2>2, CloseMoves
  <1> QED BY <1>1, <1>2, <1>3, <1>4, <1>5 DEF RecoveryWrites, LedgerWrites

LEMMA AttemptIsTrue ==
  ASSUME TypeInv, TruthInv, [Next]_vars, NEW k \in Keys, NEW i \in Seqs
  PROVE  Proven(remote'[k], attempts'[k][i].lookup)
  <1>1. AttemptMove(k, i) BY AttemptSteps
  <1>2. CASE attempts'[k][i].lookup = attempts[k][i].lookup
    BY <1>2, ProvenStays DEF TruthInv
  <1>3. CASE attempts'[k][i].lookup = "none"
    BY <1>3, NeutralProven DEF Neutral
  <1>4. ASSUME NEW w \in Workers, job[w].key = k, attempts'[k][i].lookup = job[w].got
        PROVE  Proven(remote'[k], attempts'[k][i].lookup)
    BY <1>4, ProvenStays DEF TruthInv
  <1> QED BY <1>1, <1>2, <1>3, <1>4 DEF AttemptMove

\* A row is given an outcome by a thread that was told it, or from a lookup
\* that was persisted.
LEMMA RowIsTrue ==
  ASSUME TypeInv, TruthInv, [Next]_vars, NEW k \in Keys
  PROVE  Proven(remote'[k], ledger'[k].status)
  <1>t. ledger \in [Keys -> EffectRow] BY DEF TypeInv, TypeOK
  <1>0. CASE ledger'[k].status = ledger[k].status
    BY <1>0, ProvenStays DEF TruthInv
  <1>1. CASE ledger'[k].status \in {"PREPARED", "NOOP", "DISPATCHED", "UNKNOWN"}
    BY <1>1, NeutralProven DEF Neutral
  <1>2. ASSUME NEW w \in Workers, Transition(w), ledger'[k].status # ledger[k].status
        PROVE  Proven(remote'[k], ledger'[k].status)
    <2>1. k = job[w].key /\ ledger'[k].status = job[w].got
      BY <1>t, <1>2 DEF Transition, EffectRow
    <2> QED BY <2>1, ProvenStays DEF TruthInv
  <1>3. ASSUME NEW w \in Recoverers, RecoverTransition(w),
               ledger'[k].status # ledger[k].status
        PROVE  Proven(remote'[k], ledger'[k].status)
    <2> DEFINE answer == Attempt(w).lookup
               s == reconcile_status(answer, NotFoundProvesNoEffect)
    <2>1. job[w].key \in Keys /\ job[w].seq \in Seqs
      BY <1>3 DEF RecoverTransition, TypeInv, JobShape
    <2>2. k = job[w].key /\ ledger'[k].status = s
      <3>1. \/ ledger' = ledger
            \/ ledger' = [ledger EXCEPT ![job[w].key].status = s,
                 ![job[w].key].ref =
                   @ \/ answer \in {"FOUND_APPLIED", "FOUND_ACCEPTED"}]
        BY <1>3 DEF RecoverTransition
      <3> HIDE DEF s, answer
      <3> QED BY <1>t, <1>3, <3>1 DEF EffectRow
    <2>3. Proven(remote[k], answer)
      BY <2>1, <2>2 DEF TruthInv, Attempt
    <2>4. Proven(remote'[k], answer) BY <2>3, ProvenStays
    <2> HIDE DEF answer
    <2>5. Proven(remote'[k], s) BY <2>4 DEF Proven, reconcile_status
    <2> QED BY <2>2, <2>5
  <1>5. CASE ledger'[k].status # ledger[k].status /\ LedgerWrites
    <2>1. ASSUME NEW w \in Executors, PrepareInserts(w)
          PROVE  ledger'[k].status \in {ledger[k].status, "PREPARED", "NOOP"}
      BY <1>t, <2>1 DEF PrepareInserts
    <2>2. ASSUME NEW w \in Workers, DispatchCommits(w)
          PROVE  ledger'[k].status \in {ledger[k].status, "DISPATCHED"}
      BY <1>t, <2>2 DEF DispatchCommits, EffectRow
    <2>3. ASSUME NEW w \in Recoverers, FinishError(w)
          PROVE  ledger'[k].status \in {ledger[k].status, "UNKNOWN"}
      BY <1>t, <2>3 DEF FinishError, EffectRow
    <2> QED BY <1>1, <1>2, <1>3, <1>5, <2>1, <2>2, <2>3 DEF LedgerWrites
  <1> QED BY <1>0, <1>5, OtherwiseKept

LEMMA TruthInit == Init => TruthInv
BY SetsAssumption DEF Init, TruthInv, Proven

LEMMA TruthNext ==
  ASSUME TypeInv, TruthInv, [Next]_vars
  PROVE  TruthInv'
BY RowIsTrue, AttemptIsTrue, KnowledgeIsTrue DEF TruthInv

LEMMA TruthAlways == Spec => []TruthInv
  <1>1. TypeInv /\ TruthInv /\ [Next]_vars => TruthInv' BY TruthNext
  <1> QED BY <1>1, TruthInit, TypeAlways, PTL DEF Spec

(***************************************************************************)
(* A settled row is true for good, under both lookup contracts: APPLIED    *)
(* means applied, and FAILED_CONFIRMED that the request can no longer take *)
(* effect, whoever wrote it and however old the answer it rests on.        *)
(***************************************************************************)
THEOREM SettledTruth == Spec => []SettledIsTrue
  <1>1. TruthInv => SettledIsTrue BY DEF TruthInv, Proven, SettledIsTrue
  <1> QED BY <1>1, TruthAlways, PTL

(***************************************************************************)
(* Closure. The gate looks at the rows of one moment; nothing afterwards   *)
(* creates an unresolved row, because prepare needs an open Case and every *)
(* other write starts from an unresolved row.                              *)
(***************************************************************************)
ClosedInv ==
  ~caseOpen => \A k \in Keys : ledger[k].status \notin UNRESOLVED_EFFECT_STATES

LEMMA PublishLeavesCase ==
  ASSUME NEW k, NEW s, Publish(k, s)
  PROVE  caseOpen' = caseOpen
BY DEF Publish

LEMMA CaseStaysClosed ==
  ASSUME [Next]_vars, ~CloseCase
  PROVE  caseOpen' = caseOpen
BY PublishLeavesCase DEF Next, vars, CaseMutates, Authorize,
  request_approval, decide_approval, issue_capability, ExecuteReplays,
  ExecuteStarts, ExecutorStep, VerifyFresh, VerifyStale, PrepareInserts,
  PrepareReplays, PrepareRaises, DispatchStep, DispatchCommits, DispatchRaises,
  Send, ReceiptArrives, CallFails, Transition, TransitionRaises, Crash, Claim,
  ClaimEscalates, RecovererStep, LookupAnswers, LookupRaises, PersistLookup,
  RecoverTransition, Resume, FinishResume, FinishError, Deadline,
  ApprovalExpires, CapabilityExpires, GraceElapses, BackoffElapses,
  LeaseExpires, External, RemoteHandles, RemoteCompletes, RequestLost

\* A row is inserted for an open Case only.
LEMMA InsertNeedsCase ==
  ASSUME TypeInv, [Next]_vars, NEW k \in Keys, ledger[k].status = "ABSENT",
         ledger'[k].status # "ABSENT"
  PROVE  caseOpen
  <1>t. ledger \in [Keys -> EffectRow] BY DEF TypeInv, TypeOK
  <1>1. LedgerWrites BY OtherwiseKept
  <1>2. ASSUME NEW w \in Executors, PrepareInserts(w) PROVE caseOpen
    BY <1>2 DEF PrepareInserts, PrepareAllowed
  <1>3. ASSUME NEW w \in Workers, DispatchCommits(w) PROVE FALSE
    BY <1>t, <1>3 DEF DispatchCommits, DispatchAllowed, EffectRow
  <1>4. ASSUME NEW w \in Workers, Transition(w) PROVE FALSE
    BY <1>t, <1>4 DEF Transition, TransitionCAS, EffectRow
  <1>5. ASSUME NEW w \in Recoverers, RecoverTransition(w) PROVE FALSE
    <2> DEFINE answer == Attempt(w).lookup
               s == reconcile_status(answer, NotFoundProvesNoEffect)
    <2>1. PICK fresh \in BOOLEAN :
            \/ ledger' = ledger
            \/ /\ ProofVerdict(w, answer, fresh) = "OK"
               /\ ledger' = [ledger EXCEPT ![job[w].key].status = s,
                    ![job[w].key].ref =
                      @ \/ answer \in {"FOUND_APPLIED", "FOUND_ACCEPTED"}]
      BY <1>5 DEF RecoverTransition
    <2>2. ledger[job[w].key].status # "ABSENT"
      BY <2>1 DEF ProofVerdict, AtSource, LOOKUP_ONLY
    <2> HIDE DEF s, answer
    <2> QED BY <1>t, <2>1, <2>2 DEF EffectRow
  <1>6. ASSUME NEW w \in Recoverers, FinishError(w) PROVE FALSE
    BY <1>t, <1>6 DEF FinishError, AtSource, LOOKUP_ONLY, EffectRow
  <1> QED BY <1>1, <1>2, <1>3, <1>4, <1>5, <1>6 DEF LedgerWrites

LEMMA ClosedNext ==
  ASSUME TypeInv, ClosedInv, [Next]_vars
  PROVE  ClosedInv'
  <1>1. CASE CloseCase
    BY <1>1 DEF CloseCase, RecoveryUnresolved, ClosedInv
  <1>2. CASE ~CloseCase /\ ~caseOpen
    <2> SUFFICES ASSUME NEW k \in Keys
                 PROVE  ledger'[k].status \notin UNRESOLVED_EFFECT_STATES
      BY DEF ClosedInv
    <2>1. LedgerMove(k) BY LedgerSteps
    <2>2. ledger[k].status \notin UNRESOLVED_EFFECT_STATES
      BY <1>2 DEF ClosedInv
    <2>3. ledger[k].status = "ABSENT" => ledger'[k].status = "ABSENT"
      BY <1>2, InsertNeedsCase
    <2> QED BY <2>1, <2>2, <2>3
         DEF LedgerMove, UNRESOLVED_EFFECT_STATES, LOOKUP_ONLY
  <1>3. CASE ~CloseCase /\ caseOpen BY <1>3, CaseStaysClosed DEF ClosedInv
  <1> QED BY <1>1, <1>2, <1>3

LEMMA ClosedAlways == Spec => []ClosedInv
  <1>1. Init => ClosedInv BY DEF Init, ClosedInv
  <1>2. TypeInv /\ ClosedInv /\ [Next]_vars => ClosedInv' BY ClosedNext
  <1> QED BY <1>1, <1>2, TypeAlways, PTL DEF Spec

(***************************************************************************)
(* Once a Case is closed nothing more happens in the external system on    *)
(* its behalf. A request may still be on the wire, or a thread about to    *)
(* send one: it then belongs to a row that is settled, and what settled it *)
(* is final.                                                               *)
(***************************************************************************)
THEOREM ClosureIsFinal == Spec => NoEffectAfterClosure
  <1>1. ASSUME TypeInv, SendInv, TruthInv, ClosedInv, [Next]_vars, ~caseOpen
        PROVE  remote' = remote
    <2>t. remote \in [Keys -> RemoteStates] /\ ledger \in [Keys -> EffectRow]
      BY <1>1 DEF TypeInv, TypeOK
    <2>1. ASSUME NEW k \in Keys
          PROVE  /\ ledger[k].status \notin LOOKUP_ONLY
                 /\ \/ ~inflight[k] /\ remote[k] = "none"
                    \/ remote[k] \in FinalStates
      <3>1. ledger[k].status \in RowStatus BY <2>t DEF EffectRow
      <3>2. ledger[k].status \in Unsent \cup Settled
        BY <1>1, <3>1 DEF ClosedInv, UNRESOLVED_EFFECT_STATES, Unsent, Settled,
          RowStatus, EffectStatus
      <3>3. CASE ledger[k].status \in Unsent
        BY <1>1, <3>3 DEF SendInv, Unsent, LOOKUP_ONLY
      <3>4. CASE ledger[k].status \in Settled
        BY <1>1, <3>4 DEF TruthInv, Proven, Settled, FinalStates, LOOKUP_ONLY
      <3> QED BY <3>2, <3>3, <3>4
    <2>2. CASE External
      BY <2>t, <2>1, <2>2 DEF External, RemoteHandles, RemoteCompletes,
        RequestLost, FinalStates
    <2>3. ASSUME NEW w \in Recoverers, LookupAnswers(w) PROVE FALSE
      <3>1. job[w].key \in Keys
        BY <1>1, <2>3 DEF LookupAnswers, TypeInv, JobShape
      <3> QED BY <2>1, <2>3, <3>1 DEF LookupAnswers, AtSource
    <2> QED BY <1>1, <2>2, <2>3, OtherwiseStill
  <1>2. TypeInv /\ SendInv /\ TruthInv /\ ClosedInv /\ [Next]_vars =>
          [~caseOpen => remote' = remote]_vars
    BY <1>1
  <1> QED BY <1>2, TypeAlways, SendAlways, TruthAlways, ClosedAlways, PTL
       DEF Spec, NoEffectAfterClosure

-----------------------------------------------------------------------------
(***************************************************************************)
(* Authorization. dispatch_prepared compares the Case with the revision of *)
(* the prepare; that this is one above the revision of the capability is a *)
(* fact about the row that prepare left, long before.                      *)
(***************************************************************************)
PreparedInv ==
  \A k \in Keys : ledger[k].status = "PREPARED" =>
    ledger[k].prepared = caps[ledger[k].cap].rev + 1

\* A capability that was issued keeps its revision.
LEMMA IssuedStays ==
  ASSUME TypeInv, [Next]_vars, NEW c \in Caps, caps[c].issued
  PROVE  caps'[c].rev = caps[c].rev
  <1>t. caps \in [Caps -> CapRow] BY DEF TypeInv, TypeOK
  <1>1. \/ caps' = caps
        \/ \E d \in Caps, k \in Keys, a \in Approvals \cup {None} :
             issue_capability(d, k, a)
        \/ \E d, v : caps' = [caps EXCEPT ![d].used = v]
        \/ \E d \in Caps : CapabilityExpires(d)
    BY DEF Next, vars, CaseMutates, CloseCase, Authorize,
      request_approval, decide_approval, ExecuteReplays, ExecuteStarts,
      ExecutorStep, VerifyFresh, VerifyStale, PrepareInserts,
      PrepareReplays, PrepareRaises, DispatchStep, DispatchCommits,
      DispatchRaises, Send, ReceiptArrives, CallFails, Transition,
      TransitionRaises, Crash, Claim, ClaimEscalates, RecovererStep,
      LookupAnswers, LookupRaises, PersistLookup, RecoverTransition, Resume,
      FinishResume, FinishError, Deadline, ApprovalExpires, GraceElapses,
      BackoffElapses, LeaseExpires, External, RemoteHandles, RemoteCompletes,
      RequestLost
  <1>2. ASSUME NEW d \in Caps, NEW k \in Keys, NEW a \in Approvals \cup {None},
               issue_capability(d, k, a)
        PROVE  caps'[c].rev = caps[c].rev
    BY <1>t, <1>2 DEF issue_capability
  <1>3. ASSUME NEW d, NEW v, caps' = [caps EXCEPT ![d].used = v]
        PROVE  caps'[c].rev = caps[c].rev
    BY <1>t, <1>3 DEF CapRow
  <1>4. ASSUME NEW d \in Caps, CapabilityExpires(d) PROVE caps'[c].rev = caps[c].rev
    BY <1>t, <1>4 DEF CapabilityExpires, CapRow
  <1> QED BY <1>1, <1>2, <1>3, <1>4

\* Which steps insert a row and which dispatch it.
LEMMA WhoInserts ==
  ASSUME TypeInv, [Next]_vars, NEW k \in Keys,
         ledger[k].status = "ABSENT", ledger'[k].status = "PREPARED"
  PROVE  \E w \in Executors : PrepareInserts(w) /\ caps[job[w].cap].key = k
  <1>t. ledger \in [Keys -> EffectRow] BY DEF TypeInv, TypeOK
  <1>1. LedgerWrites BY OtherwiseKept
  <1>2. ASSUME NEW w \in Workers, DispatchCommits(w) PROVE FALSE
    BY <1>t, <1>2 DEF DispatchCommits, DispatchAllowed, EffectRow
  <1>3. ASSUME NEW w \in Workers, Transition(w) PROVE FALSE
    BY <1>t, <1>3 DEF Transition, TransitionCAS, EffectRow
  <1>4. ASSUME NEW w \in Recoverers, RecoverTransition(w) PROVE FALSE
    <2> DEFINE s == reconcile_status(Attempt(w).lookup, NotFoundProvesNoEffect)
               r == Attempt(w).lookup \in {"FOUND_APPLIED", "FOUND_ACCEPTED"}
    <2>1. \/ ledger' = ledger
          \/ ledger' = [ledger EXCEPT ![job[w].key].status = s,
                                      ![job[w].key].ref = @ \/ r]
      BY <1>4 DEF RecoverTransition
    <2>2. s # "PREPARED" BY ReconcileType
    <2> HIDE DEF s, r
    <2> QED BY <1>t, <2>1, <2>2 DEF EffectRow
  <1>5. ASSUME NEW w \in Recoverers, FinishError(w) PROVE FALSE
    BY <1>t, <1>5 DEF FinishError, EffectRow
  <1>6. ASSUME NEW w \in Executors, PrepareInserts(w) PROVE caps[job[w].cap].key = k
    BY <1>t, <1>6 DEF PrepareInserts
  <1> QED BY <1>1, <1>2, <1>3, <1>4, <1>5, <1>6 DEF LedgerWrites

LEMMA WhoDispatches ==
  ASSUME TypeInv, [Next]_vars, NEW k \in Keys,
         ledger[k].status = "PREPARED", ledger'[k].status = "DISPATCHED"
  PROVE  \E w \in Workers : DispatchCommits(w) /\ job[w].key = k
  <1>t. ledger \in [Keys -> EffectRow] BY DEF TypeInv, TypeOK
  <1>1. LedgerWrites BY OtherwiseKept
  <1>2. ASSUME NEW w \in Executors, PrepareInserts(w) PROVE FALSE
    BY <1>t, <1>2 DEF PrepareInserts
  <1>3. ASSUME NEW w \in Workers, Transition(w) PROVE FALSE
    BY <1>t, <1>3 DEF Transition, TransitionCAS, EffectRow
  <1>4. ASSUME NEW w \in Recoverers, RecoverTransition(w) PROVE FALSE
    <2> DEFINE s == reconcile_status(Attempt(w).lookup, NotFoundProvesNoEffect)
               r == Attempt(w).lookup \in {"FOUND_APPLIED", "FOUND_ACCEPTED"}
    <2>1. \/ ledger' = ledger
          \/ ledger' = [ledger EXCEPT ![job[w].key].status = s,
                                      ![job[w].key].ref = @ \/ r]
      BY <1>4 DEF RecoverTransition
    <2>2. s # "DISPATCHED" BY ReconcileType
    <2> HIDE DEF s, r
    <2> QED BY <1>t, <2>1, <2>2 DEF EffectRow
  <1>5. ASSUME NEW w \in Recoverers, FinishError(w) PROVE FALSE
    BY <1>t, <1>5 DEF FinishError, EffectRow
  <1>6. ASSUME NEW w \in Workers, DispatchCommits(w) PROVE job[w].key = k
    BY <1>t, <1>6 DEF DispatchCommits, EffectRow
  <1> QED BY <1>1, <1>2, <1>3, <1>4, <1>5, <1>6 DEF LedgerWrites

LEMMA PreparedNext ==
  ASSUME TypeInv, PreparedInv, [Next]_vars
  PROVE  PreparedInv'
  <1> SUFFICES ASSUME NEW k \in Keys, ledger'[k].status = "PREPARED"
               PROVE  ledger'[k].prepared = caps'[ledger'[k].cap].rev + 1
    BY DEF PreparedInv
  <1>t. ledger \in [Keys -> EffectRow] /\ caps \in [Caps -> CapRow]
    BY DEF TypeInv, TypeOK
  <1>1. ledger'[k] = ledger[k] \/ ledger[k].status = "ABSENT"
    BY LedgerSteps DEF LedgerMove, Outcomes
  <1>2. CASE ledger'[k] = ledger[k]
    <2>1. ledger[k].cap \in Caps /\ caps[ledger[k].cap].issued
      BY <1>2 DEF TypeInv, RowShape
    <2> QED BY <1>2, <2>1, IssuedStays DEF PreparedInv
  <1>3. CASE ledger[k].status = "ABSENT"
    <2>1. PICK w \in Executors : PrepareInserts(w) /\ caps[job[w].cap].key = k
      BY <1>3, WhoInserts
    <2>2. job[w].cap \in Caps BY <2>1 DEF PrepareInserts, TypeInv, JobShape
    <2>3. caps[job[w].cap].issued
      BY <2>1, <2>2 DEF TypeInv, RowShape
    <2>4. /\ ledger'[k].cap = job[w].cap /\ ledger'[k].prepared = revision'
          /\ k \notin Noops
      BY <1>t, <2>1 DEF PrepareInserts
    <2>5. revision' = revision + 1 /\ revision = caps[job[w].cap].rev
      BY <2>1, <2>4 DEF PrepareInserts, PrepareCAS
    <2>6. caps'[job[w].cap].rev = caps[job[w].cap].rev
      BY <2>2, <2>3, IssuedStays
    <2> QED BY <2>4, <2>5, <2>6
  <1> QED BY <1>1, <1>2, <1>3

LEMMA PreparedAlways == Spec => []PreparedInv
  <1>1. Init => PreparedInv BY DEF Init, PreparedInv
  <1>2. TypeInv /\ PreparedInv /\ [Next]_vars => PreparedInv' BY PreparedNext
  <1> QED BY <1>1, <1>2, TypeAlways, PTL DEF Spec

(***************************************************************************)
(* When dispatch_prepared commits DISPATCHED, for an execution or for a    *)
(* resumed recovery, the Case is open and has changed since the capability *)
(* was issued by this effect's own prepare alone, the capability has not   *)
(* expired, and the approval it names is granted and bound to the same     *)
(* intent; a gated effect names one.                                       *)
(***************************************************************************)
THEOREM AuthorizedDispatch == Spec => DispatchIsAuthorized
  <1>1. ASSUME TypeInv, PreparedInv, [Next]_vars
        PROVE  DispatchesAuthorized
    <2> SUFFICES ASSUME NEW k \in Keys, ledger[k].status = "PREPARED",
                        ledger'[k].status = "DISPATCHED"
                 PROVE  LET cap == caps[ledger[k].cap] IN
                        /\ caseOpen
                        /\ revision = cap.rev + 1
                        /\ ~cap.expired
                        /\ k \in Gated => cap.approval # None
                        /\ cap.approval # None =>
                             approvals[cap.approval] =
                               [status |-> "APPROVED", key |-> k,
                                rev |-> cap.rev, expired |-> FALSE]
      BY DEF DispatchesAuthorized
    <2> DEFINE c == ledger[k].cap
               a == caps[c].approval
    <2>1. PICK w \in Workers : DispatchCommits(w) /\ job[w].key = k
      BY <1>1, WhoDispatches
    <2>2. /\ caseOpen /\ CapabilityHolds(c) /\ revision = ledger[k].prepared
          /\ c \in Caps /\ caps[c].key = k
      BY <1>1, <2>1 DEF DispatchCommits, DispatchAllowed, TypeInv, RowShape
    <2>3. revision = caps[c].rev + 1 BY <1>1, <2>2 DEF PreparedInv
    <2>4. ~caps[c].expired /\ ApprovalHolds(k, caps[c].rev, a)
      BY <2>2 DEF CapabilityHolds
    <2>5. k \in Gated => a # None BY <2>4 DEF ApprovalHolds
    <2>6. a # None => approvals[a] = [status |-> "APPROVED", key |-> k,
                                      rev |-> caps[c].rev, expired |-> FALSE]
      <3> SUFFICES ASSUME a # None
                   PROVE  approvals[a] = [status |-> "APPROVED", key |-> k,
                                         rev |-> caps[c].rev, expired |-> FALSE]
        OBVIOUS
      <3>1. approvals[a] \in ApprovalRow
        BY <1>1, <2>2 DEF TypeInv, TypeOK, CapRow
      <3>2. /\ approvals[a].key = k /\ approvals[a].rev = caps[c].rev
            /\ ApprovalView(approvals[a]) = "APPROVED"
        BY <2>4 DEF ApprovalHolds
      <3>3. approvals[a].status = "APPROVED" /\ ~approvals[a].expired
        BY <3>2 DEF ApprovalView
      <3> HIDE DEF a
      <3> QED BY <3>1, <3>2, <3>3 DEF ApprovalRow
    <2> QED BY <2>2, <2>3, <2>4, <2>5, <2>6
  <1>2. TypeInv /\ PreparedInv /\ [Next]_vars => [DispatchesAuthorized]_vars
    BY <1>1
  <1> QED BY <1>2, TypeAlways, PreparedAlways, PTL DEF Spec, DispatchIsAuthorized

-----------------------------------------------------------------------------
(***************************************************************************)
(* EffectBoundary implements EffectContract. Beside SendInv and TruthInv,  *)
(* the mapping rests on what a request in flight and a remote outcome say  *)
(* about the past: that the permission to send was spent.                  *)
(***************************************************************************)
WireInv ==
  \A k \in Keys :
    /\ ledger[k].status \in Unsent => ledger[k].attempts = 0
    /\ inflight[k] \/ remote[k] \in {"accepted", "applied", "rejected"} =>
         sends[k] > 0

\* What any step does to the external system's view of one effect.
RemoteMove(k) ==
  \/ remote'[k] = remote[k]
  \/ inflight[k] /\ remote[k] = "none" /\ remote'[k] \in {"accepted", "applied", "rejected"}
  \/ remote[k] = "accepted" /\ remote'[k] \in {"applied", "rejected"}
  \/ /\ ledger[k].status \in LOOKUP_ONLY
     /\ remote[k] = "none" /\ remote'[k] = "closed"

LEMMA RemoteSteps ==
  ASSUME TypeInv, [Next]_vars, NEW k \in Keys
  PROVE  RemoteMove(k)
  <1>t. remote \in [Keys -> RemoteStates] BY DEF TypeInv, TypeOK
  <1>1. CASE ~External /\ \A w \in Recoverers : ~LookupAnswers(w)
    BY <1>1, OtherwiseStill DEF RemoteMove
  <1>2. CASE External
    BY <1>t, <1>2 DEF External, RemoteHandles, RemoteCompletes, RequestLost,
      RemoteMove
  <1>3. ASSUME NEW w \in Recoverers, LookupAnswers(w) PROVE RemoteMove(k)
    <2>1. PICK answer \in Answers(job[w].key) :
            remote' = IF answer = "NOT_FOUND" /\ NotFoundProvesNoEffect
                      THEN [remote EXCEPT ![job[w].key] = "closed"] ELSE remote
      BY <1>3 DEF LookupAnswers
    <2>2. answer = "NOT_FOUND" /\ NotFoundProvesNoEffect =>
            remote[job[w].key] \in {"none", "closed"}
      BY DEF Answers
    <2>3. ledger[job[w].key].status \in LOOKUP_ONLY
      BY <1>3 DEF LookupAnswers, AtSource
    <2> QED BY <1>t, <2>1, <2>2, <2>3 DEF RemoteMove
  <1> QED BY <1>1, <1>2, <1>3

LEMMA WireNext ==
  ASSUME TypeInv, SendInv, WireInv, [Next]_vars
  PROVE  WireInv'
  <1> SUFFICES ASSUME NEW k \in Keys
               PROVE  /\ ledger'[k].status \in Unsent => ledger'[k].attempts = 0
                      /\ inflight'[k] \/ remote'[k] \in {"accepted", "applied", "rejected"}
                           => sends'[k] > 0
    BY DEF WireInv
  <1>t. sends \in [Keys -> Nat] /\ inflight \in [Keys -> BOOLEAN]
    BY DEF TypeInv, TypeOK
  <1>1. ledger'[k].status \in Unsent => ledger'[k].attempts = 0
    BY LedgerSteps DEF LedgerMove, WireInv, Unsent, Outcomes
  <1>2. RemoteMove(k) BY RemoteSteps
  <1>3. CASE \A w \in Workers : ~DispatchCommits(w) /\ ~Send(w)
    <2>1. QuietStep BY <1>3, QuietSteps
    <2> QED BY <1>1, <1>2, <2>1 DEF QuietStep, RemoteMove, WireInv
  <1>4. ASSUME NEW w \in Workers, DispatchCommits(w)
        PROVE  inflight' = inflight /\ remote' = remote /\ sends' = sends
    BY <1>4 DEF DispatchCommits
  <1>5. ASSUME NEW w \in Workers, Send(w)
        PROVE  inflight'[k] \/ remote'[k] \in {"accepted", "applied", "rejected"}
                 => sends'[k] > 0
    <2>1. /\ job[w].key \in Keys /\ remote' = remote
          /\ sends' = [sends EXCEPT ![job[w].key] = @ + 1]
          /\ inflight' = [inflight EXCEPT ![job[w].key] = TRUE]
      BY <1>5 DEF Send, TypeInv, JobShape
    <2>2. CASE k = job[w].key BY <1>t, <2>1, <2>2
    <2>3. CASE k # job[w].key BY <1>t, <2>1, <2>3 DEF WireInv
    <2> QED BY <2>2, <2>3
  <1> QED BY <1>1, <1>3, <1>4, <1>5 DEF WireInv

LEMMA WireAlways == Spec => []WireInv
  <1>1. Init => WireInv BY DEF Init, WireInv
  <1>2. TypeInv /\ SendInv /\ WireInv /\ [Next]_vars => WireInv' BY WireNext
  <1> QED BY <1>1, <1>2, TypeAlways, SendAlways, PTL DEF Spec

\* A thread that is about to send does nothing else, unless it dies.
LEMMA SenderWaits ==
  ASSUME TypeInv, [Next]_vars, NEW w \in Workers, job[w].pc = "send",
         ~Send(w), ~Crash(w)
  PROVE  job'[w] = job[w]
  <1>t. job \in [Workers -> Job] BY DEF TypeInv, TypeOK
  <1>3. ASSUME job' = job PROVE job'[w] = job[w] BY <1>3
  <1>4. CASE UNCHANGED vars BY <1>4 DEF vars
  <1>5. CASE CaseMutates \/ CloseCase \/ Authorize \/ Deadline \/ External
             \/ (\E c \in Caps : ExecuteReplays(c))
             \/ (\E k \in Keys : ClaimEscalates(k))
    BY <1>3, <1>5 DEF CaseMutates, CloseCase, Authorize, request_approval,
      decide_approval, issue_capability, Deadline, ApprovalExpires,
      CapabilityExpires, GraceElapses, BackoffElapses, LeaseExpires,
      ExecuteReplays, ClaimEscalates, External, RemoteHandles, RemoteCompletes,
      RequestLost
  <1>6. ASSUME NEW v \in Executors,
               ExecutorStep(v) \/ (\E c \in Caps : ExecuteStarts(v, c))
        PROVE  job'[w] = job[w]
    BY <1>t, <1>6 DEF ExecutorStep, ExecuteStarts, VerifyFresh, VerifyStale,
      PrepareInserts, PrepareReplays, PrepareRaises, Goto
  <1>7. ASSUME NEW v \in Workers, DispatchStep(v) \/ Crash(v)
        PROVE  job'[w] = job[w]
    <2>1. CASE v = w
      BY <1>7, <2>1 DEF DispatchStep, DispatchCommits, DispatchRaises,
        ReceiptArrives, CallFails, Transition, TransitionRaises
    <2>2. CASE v # w
      BY <1>t, <1>7, <2>2 DEF DispatchStep, DispatchCommits, DispatchRaises, Send,
        ReceiptArrives, CallFails, Transition, TransitionRaises, Crash, Goto, Fail
    <2> QED BY <2>1, <2>2
  <1>8. ASSUME NEW v \in Recoverers, NEW k \in Keys, Claim(v, k)
        PROVE  job'[w] = job[w]
    BY <1>t, <1>8 DEF Claim
  <1>9. ASSUME NEW v \in Recoverers, RecovererStep(v) PROVE job'[w] = job[w]
    BY <1>t, <1>9 DEF RecovererStep, LookupAnswers, LookupRaises, PersistLookup,
      RecoverTransition, Resume, FinishResume, FinishError, Fail
  <1> QED BY <1>4, <1>5, <1>6, <1>7, <1>8, <1>9 DEF Next

\* Nobody becomes a sender and nobody stops being one.
SameSenders == \A w \in Workers, k \in Keys : Sender(w, k)' <=> Sender(w, k)

LEMMA SendersStay ==
  ASSUME TypeInv, [Next]_vars,
         \A w \in Workers : /\ ~DispatchCommits(w) /\ ~Send(w)
                            /\ job[w].pc = "send" => ~Crash(w)
  PROVE  SameSenders
  <1>1. QuietStep BY QuietSteps
  <1>2. \A w \in Workers, k \in Keys : Sender(w, k) => Sender(w, k)'
    BY SenderWaits DEF Sender
  <1> QED BY <1>1, <1>2 DEF QuietStep, SameSenders

\* The row of at most one effect is written, and then nothing else moves.
LEMMA OneRow ==
  ASSUME TypeInv, [Next]_vars, LedgerWrites
  PROVE  /\ remote' = remote /\ sends' = sends /\ inflight' = inflight
         /\ \E k \in Keys : \A l \in Keys \ {k} : ledger'[l] = ledger[l]
  <1>t. ledger \in [Keys -> EffectRow] BY DEF TypeInv, TypeOK
  <1>1. /\ remote' = remote /\ sends' = sends /\ inflight' = inflight
    BY DEF LedgerWrites, PrepareInserts, DispatchCommits, Transition,
      RecoverTransition, FinishError
  <1>2. ASSUME NEW w \in Executors, PrepareInserts(w)
        PROVE  \E k \in Keys : \A l \in Keys \ {k} : ledger'[l] = ledger[l]
    <2>1. caps[job[w].cap].key \in Keys
      BY <1>2 DEF PrepareInserts, TypeInv, JobShape
    <2> QED BY <1>t, <1>2, <2>1 DEF PrepareInserts
  <1>3. ASSUME NEW w \in Workers, DispatchCommits(w) \/ Transition(w)
        PROVE  \E k \in Keys : \A l \in Keys \ {k} : ledger'[l] = ledger[l]
    <2>1. job[w].key \in Keys
      BY <1>3 DEF DispatchCommits, Transition, TypeInv, JobShape
    <2> QED BY <1>t, <1>3, <2>1 DEF DispatchCommits, Transition
  <1>4. ASSUME NEW w \in Recoverers, RecoverTransition(w) \/ FinishError(w)
        PROVE  \E k \in Keys : \A l \in Keys \ {k} : ledger'[l] = ledger[l]
    <2>1. job[w].key \in Keys
      BY <1>4 DEF RecoverTransition, FinishError, TypeInv, JobShape
    <2>2. \A l \in Keys \ {job[w].key} : ledger'[l] = ledger[l]
      BY <1>t, <1>4 DEF RecoverTransition, FinishError
    <2> QED BY <2>1, <2>2
  <1> QED BY <1>1, <1>2, <1>3, <1>4 DEF LedgerWrites

\* How the record of one effect moves, read as a phase of the contract.
PhaseMove(k) ==
  \/ PhaseOf(k)' = PhaseOf(k)
  \/ PhaseOf(k) = "absent" /\ PhaseOf(k)' \in {"reserved", "noop"}
  \/ PhaseOf(k) = "reserved" /\ PhaseOf(k)' = "dispatched"
  \/ PhaseOf(k) = "dispatched" /\ WorldOf(k) = "done" /\ PhaseOf(k)' = "applied"
  \/ PhaseOf(k) = "dispatched" /\ WorldOf(k) = "refused" /\ PhaseOf(k)' = "failed"

LEMMA PhaseSteps ==
  ASSUME TypeInv, TruthInv, TruthInv', [Next]_vars, LedgerWrites, NEW k \in Keys
  PROVE  PhaseMove(k)
  <1>1. remote' = remote BY OneRow
  <1>2. LedgerMove(k) BY LedgerSteps
  <1>3. /\ ledger'[k].status = "APPLIED" => remote[k] = "applied"
        /\ ledger'[k].status = "FAILED_CONFIRMED" => remote[k] \in {"rejected", "closed"}
    BY <1>1 DEF TruthInv, Proven
  <1>4. CASE ledger'[k] = ledger[k] BY <1>4 DEF PhaseMove, PhaseOf
  <1>5. CASE ledger[k].status = "ABSENT" /\ ledger'[k].status \in {"PREPARED", "NOOP"}
    <2>1. PhaseOf(k) = "absent" BY <1>5 DEF PhaseOf, LOOKUP_ONLY
    <2>2. PhaseOf(k)' \in {"reserved", "noop"} BY <1>5 DEF PhaseOf, LOOKUP_ONLY
    <2> QED BY <2>1, <2>2 DEF PhaseMove
  <1>6. CASE ledger[k].status = "PREPARED" /\ ledger'[k].status = "DISPATCHED"
    <2>1. PhaseOf(k) = "reserved" BY <1>6 DEF PhaseOf, LOOKUP_ONLY
    <2>2. PhaseOf(k)' = "dispatched" BY <1>6 DEF PhaseOf, LOOKUP_ONLY
    <2> QED BY <2>1, <2>2 DEF PhaseMove
  <1>7. CASE ledger[k].status \in LOOKUP_ONLY /\ ledger'[k].status \in Outcomes
    <2>1. PhaseOf(k) = "dispatched" BY <1>7 DEF PhaseOf, LOOKUP_ONLY
    <2>2. CASE ledger'[k].status = "APPLIED"
      <3>1. PhaseOf(k)' = "applied" BY <2>2 DEF PhaseOf, LOOKUP_ONLY
      <3>2. WorldOf(k) = "done" BY <1>3, <2>2 DEF WorldOf
      <3> QED BY <2>1, <3>1, <3>2 DEF PhaseMove
    <2>3. CASE ledger'[k].status = "FAILED_CONFIRMED"
      <3>1. PhaseOf(k)' = "failed" BY <2>3 DEF PhaseOf, LOOKUP_ONLY
      <3>2. WorldOf(k) = "refused" BY <1>3, <2>3 DEF WorldOf
      <3> QED BY <2>1, <3>1, <3>2 DEF PhaseMove
    <2>4. CASE ledger'[k].status \in {"ACCEPTED", "UNKNOWN"}
      <3>1. PhaseOf(k)' = "dispatched" BY <2>4 DEF PhaseOf, LOOKUP_ONLY
      <3> QED BY <2>1, <3>1 DEF PhaseMove
    <2> QED BY <1>7, <2>2, <2>3, <2>4 DEF Outcomes
  <1> QED BY <1>2, <1>4, <1>5, <1>6, <1>7 DEF LedgerMove

LEMMA PermitKept ==
  ASSUME NEW k \in Keys, sends' = sends, SameSenders,
         ledger'[k].attempts = ledger[k].attempts
  PROVE  PermitOf(k)' = PermitOf(k)
  <1>1. (\E w \in Workers : Sender(w, k))' <=> \E w \in Workers : Sender(w, k)
    BY DEF SameSenders
  <1>2. sends'[k] = sends[k] OBVIOUS
  <1> QED BY <1>1, <1>2 DEF PermitOf

LEMMA PhaseKept ==
  ASSUME NEW k, ledger'[k] = ledger[k]
  PROVE  PhaseOf(k)' = PhaseOf(k)
BY DEF PhaseOf

LEMMA WorldKept ==
  ASSUME NEW k, remote'[k] = remote[k]
  PROVE  WorldOf(k)' = WorldOf(k)
BY DEF WorldOf

\* From one effect to the functions the contract is about.
phaseMap == [k \in Keys |-> PhaseOf(k)]
permitMap == [k \in Keys |-> PermitOf(k)]
worldMap == [k \in Keys |-> WorldOf(k)]

LEMMA LiftPhase ==
  ASSUME NEW k \in Keys, \A l \in Keys \ {k} : PhaseOf(l)' = PhaseOf(l)
  PROVE  phaseMap' = [phaseMap EXCEPT ![k] = PhaseOf(k)']
BY DEF phaseMap

LEMMA LiftPermit ==
  ASSUME NEW k \in Keys, \A l \in Keys \ {k} : PermitOf(l)' = PermitOf(l)
  PROVE  permitMap' = [permitMap EXCEPT ![k] = PermitOf(k)']
BY DEF permitMap

LEMMA LiftWorld ==
  ASSUME NEW k \in Keys, \A l \in Keys \ {k} : WorldOf(l)' = WorldOf(l)
  PROVE  worldMap' = [worldMap EXCEPT ![k] = WorldOf(k)']
BY DEF worldMap

ContractStep == Contract!Next \/ (phaseMap' = phaseMap /\ permitMap' = permitMap
                                  /\ worldMap' = worldMap)

\* The contract's actions, with the mapping named.
LEMMA ContractActions ==
  ASSUME NEW k \in Keys
  PROVE  /\ Contract!Reserve(k) <=>
              /\ phaseMap[k] = "absent"
              /\ \E p \in {"reserved", "noop"} : phaseMap' = [phaseMap EXCEPT ![k] = p]
              /\ permitMap' = permitMap /\ worldMap' = worldMap
         /\ Contract!Dispatch(k) <=>
              /\ phaseMap[k] = "reserved"
              /\ phaseMap' = [phaseMap EXCEPT ![k] = "dispatched"]
              /\ permitMap' = [permitMap EXCEPT ![k] = "granted"]
              /\ worldMap' = worldMap
         /\ Contract!Settle(k) <=>
              /\ phaseMap[k] = "dispatched"
              /\ \/ worldMap[k] = "done" /\ phaseMap' = [phaseMap EXCEPT ![k] = "applied"]
                 \/ worldMap[k] = "refused" /\ phaseMap' = [phaseMap EXCEPT ![k] = "failed"]
              /\ permitMap' = permitMap /\ worldMap' = worldMap
BY DEF Contract!Reserve, Contract!Dispatch, Contract!Settle, phaseMap, permitMap,
       worldMap

LEMMA ContractWire ==
  ASSUME NEW k \in Keys
  PROVE  /\ Contract!Send(k) <=>
              /\ permitMap[k] = "granted"
              /\ permitMap' = [permitMap EXCEPT ![k] = "spent"]
              /\ phaseMap' = phaseMap /\ worldMap' = worldMap
         /\ Contract!Lose(k) <=>
              /\ permitMap[k] = "granted"
              /\ permitMap' = [permitMap EXCEPT ![k] = "lost"]
              /\ phaseMap' = phaseMap /\ worldMap' = worldMap
         /\ Contract!Act(k) <=>
              /\ permitMap[k] = "spent"
              /\ \/ /\ worldMap[k] = "untouched"
                    /\ \E o \in {"pending", "done", "refused"} :
                         worldMap' = [worldMap EXCEPT ![k] = o]
                 \/ /\ worldMap[k] = "pending"
                    /\ \E o \in {"done", "refused"} :
                         worldMap' = [worldMap EXCEPT ![k] = o]
              /\ phaseMap' = phaseMap /\ permitMap' = permitMap
         /\ Contract!Refuse(k) <=>
              /\ phaseMap[k] = "dispatched"
              /\ worldMap[k] = "untouched"
              /\ worldMap' = [worldMap EXCEPT ![k] = "refused"]
              /\ phaseMap' = phaseMap /\ permitMap' = permitMap
BY DEF Contract!Send, Contract!Lose, Contract!Act, Contract!Refuse, phaseMap,
       permitMap, worldMap

LEMMA SamePhases ==
  ASSUME ledger' = ledger
  PROVE  phaseMap' = phaseMap
BY PhaseKept DEF phaseMap

LEMMA SameWorlds ==
  ASSUME remote' = remote
  PROVE  worldMap' = worldMap
BY WorldKept DEF worldMap

LEMMA SamePermits ==
  ASSUME sends' = sends, SameSenders,
         \A k \in Keys : ledger'[k].attempts = ledger[k].attempts
  PROVE  permitMap' = permitMap
BY PermitKept DEF permitMap

\* A thread that writes the ledger is not at its send step, and moves alone.
LEMMA WriterIsNoSender ==
  ASSUME TypeInv, LedgerWrites, NEW w \in Workers, job[w].pc = "send"
  PROVE  job'[w] = job[w]
  <1>t. job \in [Workers -> Job] BY DEF TypeInv, TypeOK
  <1>1. ASSUME NEW v \in Executors, PrepareInserts(v) PROVE job'[w] = job[w]
    BY <1>t, <1>1 DEF PrepareInserts
  <1>2. ASSUME NEW v \in Workers, DispatchCommits(v) \/ Transition(v)
        PROVE  job'[w] = job[w]
    BY <1>t, <1>2 DEF DispatchCommits, Transition, Goto
  <1>3. ASSUME NEW v \in Recoverers, RecoverTransition(v) \/ FinishError(v)
        PROVE  job'[w] = job[w]
    BY <1>t, <1>3 DEF RecoverTransition, FinishError, Fail
  <1> QED BY <1>1, <1>2, <1>3 DEF LedgerWrites

\* prepare, transition, recover_transition and finish_error.
LEMMA RecordStep ==
  ASSUME TypeInv, TruthInv, TruthInv', WireInv, [Next]_vars,
         LedgerWrites, \A w \in Workers : ~DispatchCommits(w)
  PROVE  ContractStep
  <1>1. remote' = remote /\ sends' = sends BY OneRow
  <1>2. PICK k \in Keys : \A l \in Keys \ {k} : ledger'[l] = ledger[l] BY OneRow
  <1>3. SameSenders
    <2>1. ASSUME NEW w \in Workers PROVE ~Send(w) /\ (job[w].pc = "send" => ~Crash(w))
      <3>1. job \in [Workers -> Job] BY DEF TypeInv, TypeOK
      <3>2. Send(w) => job[w].pc = "send" /\ job'[w].pc = "wait"
        BY <3>1 DEF Send, Goto, Job
      <3>3. Crash(w) => job'[w].pc = "idle" BY <3>1 DEF Crash
      <3> QED BY <3>2, <3>3, WriterIsNoSender
    <2> QED BY <2>1, SendersStay
  <1>4. ASSUME NEW l \in Keys PROVE ledger'[l].attempts = ledger[l].attempts
    <2>1. LedgerMove(l) BY LedgerSteps
    <2>2. ledger[l].status = "PREPARED" => ledger'[l].status # "DISPATCHED"
      BY WhoDispatches
    <2>3. ledger[l].status = "ABSENT" => ledger[l].attempts = 0
      BY DEF WireInv, Unsent
    <2> QED BY <2>1, <2>2, <2>3 DEF LedgerMove
  <1>5. permitMap' = permitMap /\ worldMap' = worldMap
    BY <1>1, <1>3, <1>4, SamePermits, SameWorlds
  <1>6. phaseMap' = [phaseMap EXCEPT ![k] = PhaseOf(k)']
    BY <1>2, PhaseKept, LiftPhase
  <1>7. phaseMap[k] = PhaseOf(k) /\ worldMap[k] = WorldOf(k)
    BY DEF phaseMap, worldMap
  <1>8. PhaseMove(k) BY PhaseSteps
  <1>9. PhaseOf(k) = "reserved" => PhaseOf(k)' # "dispatched"
    <2>1. ledger[k].status \in RowStatus /\ ledger'[k].status \in RowStatus
      <3>1. TypeInv' BY TypeNext
      <3> QED BY <3>1 DEF TypeInv, TypeOK, EffectRow
    <2>2. PhaseOf(k) = "reserved" => ledger[k].status = "PREPARED"
      BY <2>1 DEF PhaseOf, LOOKUP_ONLY, RowStatus, EffectStatus
    <2>3. PhaseOf(k)' = "dispatched" => ledger'[k].status \in LOOKUP_ONLY
      BY <2>1 DEF PhaseOf, LOOKUP_ONLY, RowStatus, EffectStatus
    <2>4. LedgerMove(k) BY LedgerSteps
    <2> QED BY <2>2, <2>3, <2>4, WhoDispatches
         DEF LedgerMove, LOOKUP_ONLY
  <1>10. CASE PhaseOf(k)' = PhaseOf(k)
    <2>1. phaseMap' = phaseMap BY <1>6, <1>10 DEF phaseMap
    <2> QED BY <1>5, <2>1 DEF ContractStep
  <1>11. CASE PhaseOf(k) = "absent" /\ PhaseOf(k)' \in {"reserved", "noop"}
    <2>1. Contract!Reserve(k) BY <1>5, <1>6, <1>7, <1>11, ContractActions
    <2> QED BY <2>1 DEF ContractStep, Contract!Next
  <1>12. CASE /\ PhaseOf(k) = "dispatched"
              /\ \/ WorldOf(k) = "done" /\ PhaseOf(k)' = "applied"
                 \/ WorldOf(k) = "refused" /\ PhaseOf(k)' = "failed"
    <2>1. Contract!Settle(k) BY <1>5, <1>6, <1>7, <1>12, ContractActions
    <2> QED BY <2>1 DEF ContractStep, Contract!Next
  <1> QED BY <1>8, <1>9, <1>10, <1>11, <1>12 DEF PhaseMove

\* dispatch_prepared gives the one permission to send.
LEMMA DispatchIsContract ==
  ASSUME TypeInv, SendInv, [Next]_vars, NEW w \in Workers, DispatchCommits(w)
  PROVE  ContractStep
  <1>k. PICK k \in Keys : job[w].key = k
    BY DEF DispatchCommits, TypeInv, JobShape
  <1>t. /\ job \in [Workers -> Job] /\ ledger \in [Keys -> EffectRow]
        /\ sends \in [Keys -> Nat]
    BY DEF TypeInv, TypeOK
  <1>1. /\ ledger[k].status = "PREPARED" /\ sends' = sends
        /\ remote' = remote /\ job' = [job EXCEPT ![w].pc = "send"]
        /\ ledger' = [ledger EXCEPT ![k].status = "DISPATCHED", ![k].attempts = 1]
    BY <1>k DEF DispatchCommits, DispatchAllowed, Goto
  <1>2. worldMap' = worldMap BY <1>1, SameWorlds
  <1>3. \A l \in Keys \ {k} : ledger'[l] = ledger[l] BY <1>1, <1>t
  <1>4. phaseMap' = [phaseMap EXCEPT ![k] = "dispatched"]
    <2>1. ledger'[k].status = "DISPATCHED" BY <1>1, <1>t DEF EffectRow
    <2>2. PhaseOf(k)' = "dispatched" BY <2>1 DEF PhaseOf, LOOKUP_ONLY
    <2>3. phaseMap' = [phaseMap EXCEPT ![k] = PhaseOf(k)']
      BY <1>1, <1>3, PhaseKept, LiftPhase
    <2> QED BY <2>2, <2>3
  <1>5. \A v \in Workers, l \in Keys \ {k} : Sender(v, l)' <=> Sender(v, l)
    BY <1>k, <1>t, <1>1 DEF Sender, Job
  <1>6. \A l \in Keys \ {k} : PermitOf(l)' = PermitOf(l)
    <2> SUFFICES ASSUME NEW l \in Keys \ {k} PROVE PermitOf(l)' = PermitOf(l)
      OBVIOUS
    <2>1. (\E v \in Workers : Sender(v, l))' <=> \E v \in Workers : Sender(v, l)
      BY <1>5
    <2>2. sends'[l] = sends[l] /\ ledger'[l].attempts = ledger[l].attempts
      BY <1>1, <1>3
    <2> QED BY <2>1, <2>2 DEF PermitOf
  <1>7. PermitOf(k)' = "granted"
    <2>1. sends'[k] = 0 BY <1>1 DEF SendInv, Unsent
    <2>2. Sender(w, k)' BY <1>k, <1>t, <1>1 DEF Sender, Job
    <2> QED BY <2>1, <2>2 DEF PermitOf
  <1>8. phaseMap[k] = "reserved"
    BY <1>1 DEF phaseMap, PhaseOf, LOOKUP_ONLY
  <1>9. permitMap' = [permitMap EXCEPT ![k] = "granted"]
    BY <1>1, <1>6, <1>7, LiftPermit
  <1>10. Contract!Dispatch(k) BY <1>1, <1>2, <1>4, <1>8, <1>9, ContractActions
  <1> QED BY <1>1, <1>10 DEF ContractStep, Contract!Next

\* adapter.dispatch spends it.
LEMMA SendIsContract ==
  ASSUME TypeInv, SendInv, [Next]_vars, NEW w \in Workers, Send(w)
  PROVE  ContractStep
  <1>k. PICK k \in Keys : job[w].key = k
    BY DEF Send, TypeInv, JobShape
  <1>t. job \in [Workers -> Job] /\ sends \in [Keys -> Nat]
    BY DEF TypeInv, TypeOK
  <1>1. /\ job[w].pc = "send" /\ sends' = [sends EXCEPT ![k] = @ + 1]
        /\ job' = [job EXCEPT ![w].pc = "wait"]
        /\ remote' = remote /\ ledger' = ledger
    BY <1>k DEF Send, Goto
  <1>2. worldMap' = worldMap /\ phaseMap' = phaseMap
    BY <1>1, SameWorlds, SamePhases
  <1>3. sends[k] = 0 /\ Sender(w, k) BY <1>k, <1>1 DEF Sender, SendInv
  <1>4. PermitOf(k) = "granted" BY <1>3 DEF PermitOf
  <1>5. PermitOf(k)' = "spent"
    <2>1. sends'[k] > 0 BY <1>t, <1>1, <1>3
    <2> QED BY <2>1 DEF PermitOf
  <1>6. \A v \in Workers, l \in Keys \ {k} : Sender(v, l)' <=> Sender(v, l)
    BY <1>k, <1>t, <1>1 DEF Sender, Job
  <1>7. \A l \in Keys \ {k} : PermitOf(l)' = PermitOf(l)
    <2> SUFFICES ASSUME NEW l \in Keys \ {k} PROVE PermitOf(l)' = PermitOf(l)
      OBVIOUS
    <2>1. (\E v \in Workers : Sender(v, l))' <=> \E v \in Workers : Sender(v, l)
      BY <1>6
    <2>2. sends'[l] = sends[l] /\ ledger'[l].attempts = ledger[l].attempts
      BY <1>t, <1>1
    <2> QED BY <2>1, <2>2 DEF PermitOf
  <1>8. permitMap' = [permitMap EXCEPT ![k] = "spent"]
    BY <1>5, <1>7, LiftPermit
  <1>9. permitMap[k] = "granted" BY <1>4 DEF permitMap
  <1>10. Contract!Send(k) BY <1>2, <1>8, <1>9, ContractWire
  <1> QED BY <1>10 DEF ContractStep, Contract!Next

\* A sender that dies loses it.
LEMMA CrashIsContract ==
  ASSUME TypeInv, SendInv, [Next]_vars, NEW w \in Workers, Crash(w),
         job[w].pc = "send"
  PROVE  ContractStep
  <1>k. PICK k \in Keys : job[w].key = k BY DEF TypeInv, JobShape
  <1>t. job \in [Workers -> Job] /\ ledger \in [Keys -> EffectRow]
    BY DEF TypeInv, TypeOK
  <1>1. /\ job' = [job EXCEPT ![w] = Idle] /\ sends' = sends
        /\ remote' = remote /\ ledger' = ledger
    BY DEF Crash
  <1>2. worldMap' = worldMap /\ phaseMap' = phaseMap
    BY <1>1, SameWorlds, SamePhases
  <1>3. sends[k] = 0 /\ Sender(w, k) BY <1>k DEF Sender, SendInv
  <1>4. PermitOf(k) = "granted" BY <1>3 DEF PermitOf
  <1>5. PermitOf(k)' = "lost"
    <2>1. \A v \in Workers : ~Sender(v, k)'
      <3>1. \A v \in Workers : Sender(v, k) => v = w BY <1>3 DEF SendInv
      <3>2. \A v \in Workers : Sender(v, k)' => v # w /\ Sender(v, k)
        BY <1>t, <1>1 DEF Sender
      <3> QED BY <3>1, <3>2
    <2>2. sends'[k] = 0 BY <1>1, <1>3
    <2>3. ledger'[k].attempts = 1
      BY <1>1, <1>3 DEF SendInv
    <2> QED BY <2>1, <2>2, <2>3 DEF PermitOf
  <1>6. \A v \in Workers, l \in Keys \ {k} : Sender(v, l)' <=> Sender(v, l)
    BY <1>k, <1>t, <1>1 DEF Sender
  <1>7. \A l \in Keys \ {k} : PermitOf(l)' = PermitOf(l)
    <2> SUFFICES ASSUME NEW l \in Keys \ {k} PROVE PermitOf(l)' = PermitOf(l)
      OBVIOUS
    <2>1. (\E v \in Workers : Sender(v, l))' <=> \E v \in Workers : Sender(v, l)
      BY <1>6
    <2>2. sends'[l] = sends[l] /\ ledger'[l].attempts = ledger[l].attempts
      BY <1>1
    <2> QED BY <2>1, <2>2 DEF PermitOf
  <1>8. permitMap' = [permitMap EXCEPT ![k] = "lost"]
    BY <1>5, <1>7, LiftPermit
  <1>9. permitMap[k] = "granted" BY <1>4 DEF permitMap
  <1>10. Contract!Lose(k) BY <1>2, <1>8, <1>9, ContractWire
  <1> QED BY <1>10 DEF ContractStep, Contract!Next

\* The external system acts, or refuses a request it has not seen.
LEMMA WorldStep ==
  ASSUME TypeInv, SendInv, WireInv, [Next]_vars, ledger' = ledger, sends' = sends,
         SameSenders, NEW k \in Keys,
         \A l \in Keys \ {k} : remote'[l] = remote[l]
  PROVE  ContractStep
  <1>1. phaseMap' = phaseMap /\ permitMap' = permitMap
    BY SamePhases, SamePermits
  <1>2. worldMap' = [worldMap EXCEPT ![k] = WorldOf(k)']
    BY WorldKept, LiftWorld
  <1>3. /\ worldMap[k] = WorldOf(k) /\ permitMap[k] = PermitOf(k)
        /\ phaseMap[k] = PhaseOf(k)
    BY DEF worldMap, permitMap, phaseMap
  <1>4. CASE remote'[k] = remote[k]
    <2>1. WorldOf(k)' = WorldOf(k) BY <1>4, WorldKept
    <2>2. worldMap' = worldMap BY <1>2, <2>1 DEF worldMap
    <2> QED BY <1>1, <2>2 DEF ContractStep
  <1>5. CASE inflight[k] /\ remote[k] = "none"
             /\ remote'[k] \in {"accepted", "applied", "rejected"}
    <2>1. WorldOf(k) = "untouched" BY <1>5 DEF WorldOf
    <2>2. WorldOf(k)' \in {"pending", "done", "refused"} BY <1>5 DEF WorldOf
    <2>3. PermitOf(k) = "spent" BY <1>5 DEF WireInv, PermitOf
    <2>4. Contract!Act(k) BY <1>1, <1>2, <1>3, <2>1, <2>2, <2>3, ContractWire
    <2> QED BY <2>4 DEF ContractStep, Contract!Next
  <1>6. CASE remote[k] = "accepted" /\ remote'[k] \in {"applied", "rejected"}
    <2>1. WorldOf(k) = "pending" BY <1>6 DEF WorldOf
    <2>2. WorldOf(k)' \in {"done", "refused"} BY <1>6 DEF WorldOf
    <2>3. PermitOf(k) = "spent" BY <1>6 DEF WireInv, PermitOf
    <2>4. Contract!Act(k) BY <1>1, <1>2, <1>3, <2>1, <2>2, <2>3, ContractWire
    <2> QED BY <2>4 DEF ContractStep, Contract!Next
  <1>7. CASE ledger[k].status \in LOOKUP_ONLY /\ remote[k] = "none"
             /\ remote'[k] = "closed"
    <2>1. WorldOf(k) = "untouched" BY <1>7 DEF WorldOf
    <2>2. WorldOf(k)' = "refused" BY <1>7 DEF WorldOf
    <2>3. PhaseOf(k) = "dispatched" BY <1>7 DEF PhaseOf, LOOKUP_ONLY
    <2>4. Contract!Refuse(k) BY <1>1, <1>2, <1>3, <2>1, <2>2, <2>3, ContractWire
    <2> QED BY <2>4 DEF ContractStep, Contract!Next
  <1> QED BY <1>4, <1>5, <1>6, <1>7, RemoteSteps DEF RemoteMove

LEMMA ContractSteps ==
  ASSUME TypeInv, SendInv, TruthInv, TruthInv', WireInv, [Next]_vars
  PROVE  ContractStep
  <1>t. remote \in [Keys -> RemoteStates] BY DEF TypeInv, TypeOK
  <1> DEFINE Grants == \E w \in Workers : DispatchCommits(w)
             Uses == \E w \in Workers : Send(w) \/ (Crash(w) /\ job[w].pc = "send")
  <1>1. CASE Grants \/ Uses
    BY <1>1, DispatchIsContract, SendIsContract, CrashIsContract
  <1>2. CASE ~Grants /\ LedgerWrites BY <1>2, RecordStep
  <1>3. CASE ~Grants /\ ~Uses /\ ~LedgerWrites
    <2>1. SameSenders BY <1>3, SendersStay
    <2>2. ledger' = ledger BY <1>3, OtherwiseKept
    <2>3. sends' = sends BY <1>3, QuietSteps DEF QuietStep
    <2>4. CASE ~External /\ \A w \in Recoverers : ~LookupAnswers(w)
      <3>1. remote' = remote BY <2>4, OtherwiseStill
      <3> QED BY <2>1, <2>2, <2>3, <3>1, SamePhases, SamePermits, SameWorlds
           DEF ContractStep
    <2>5. CASE External
      <3>1. PICK k \in Keys : RemoteHandles(k) \/ RemoteCompletes(k) \/ RequestLost(k)
        BY <2>5 DEF External
      <3>2. \A l \in Keys \ {k} : remote'[l] = remote[l]
        BY <1>t, <3>1 DEF RemoteHandles, RemoteCompletes, RequestLost
      <3> QED BY <2>1, <2>2, <2>3, <3>2, WorldStep
    <2>6. ASSUME NEW w \in Recoverers, LookupAnswers(w) PROVE ContractStep
      <3>1. PICK k \in Keys : job[w].key = k
        BY <2>6 DEF LookupAnswers, TypeInv, JobShape
      <3>2. remote' = [remote EXCEPT ![k] = "closed"] \/ remote' = remote
        BY <2>6, <3>1 DEF LookupAnswers
      <3>3. \A l \in Keys \ {k} : remote'[l] = remote[l] BY <1>t, <3>2
      <3> QED BY <2>1, <2>2, <2>3, <3>3, WorldStep
    <2> QED BY <2>4, <2>5, <2>6
  <1> HIDE DEF Grants, Uses
  <1> QED BY <1>1, <1>2, <1>3

LEMMA ContractInit == Init => Contract!Init
  <1> SUFFICES ASSUME Init PROVE Contract!Init OBVIOUS
  <1>1. ASSUME NEW k \in Keys
        PROVE  PhaseOf(k) = "absent" /\ PermitOf(k) = "none" /\ WorldOf(k) = "untouched"
    <2>1. /\ ledger[k].status = "ABSENT" /\ ledger[k].attempts = 0
          /\ sends[k] = 0 /\ remote[k] = "none"
          /\ \A w \in Workers : ~Sender(w, k)
      BY DEF Init, Sender
    <2>2. PhaseOf(k) = "absent" BY <2>1 DEF PhaseOf, LOOKUP_ONLY
    <2>3. PermitOf(k) = "none" BY <2>1 DEF PermitOf
    <2>4. WorldOf(k) = "untouched" BY <2>1 DEF WorldOf
    <2> QED BY <2>2, <2>3, <2>4
  <1> QED BY <1>1 DEF Contract!Init

(***************************************************************************)
(* The boundary keeps its contract, whatever the constants: an effect is   *)
(* recorded before it is sent, the permission to send is given once, spent *)
(* or lost at most once, and the record settles at most once, on what the  *)
(* external system really did.                                             *)
(***************************************************************************)
THEOREM KeepsContract == Spec => ImplementsContract
  <1>1. TypeInv /\ SendInv /\ TruthInv /\ TruthInv' /\ WireInv /\ [Next]_vars =>
          [Contract!Next]_(Contract!cvars)
    BY ContractSteps DEF ContractStep, Contract!cvars, phaseMap, permitMap, worldMap
  <1> QED BY <1>1, ContractInit, TypeAlways, SendAlways, TruthAlways, WireAlways, PTL
       DEF Spec, ImplementsContract, Contract!Spec
=============================================================================

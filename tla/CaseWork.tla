------------------------------- MODULE CaseWork -------------------------------
(***************************************************************************)
(* The life of one Case between its investigations: durable work items     *)
(* bound to a Case revision, leased by worker processes; the resumption of *)
(* a paused Case; the fenced tool calls of a run and the recovery of the   *)
(* calls nobody heard of again; the evaluation report, its outbox and the  *)
(* verified closure.  A remediation effect of the Case appears with its    *)
(* ledger status only (EffectBoundary has the rest).                       *)
(*                                                                         *)
(* Every transaction locks the Case row, so one transaction is one step;   *)
(* workers and clients interleave between transactions and around the tool *)
(* call.  Deadlines (not_before, lease_until) are flags the environment    *)
(* raises.  PENDING and READY are one status: every reader treats them     *)
(* alike.  Renewing a lease that is still held changes nothing here.       *)
(***************************************************************************)
EXTENDS Naturals, FiniteSets

CONSTANTS Workers,          \* threads that process claims
          Clients,          \* threads that run the agent or a tool directly
          MaxWorks,         \* bound: work items of the Case
          MaxClaims,        \* bound: claims of one work item
          MaxToolCalls,     \* the Case's tool budget
          MaxResumes,       \* OrchestrationBudget.max_resume_cycles
          MaxVerifications, \* OrchestrationBudget.max_verification_cycles
          MaxNoProgress,    \* OrchestrationBudget.max_no_progress_cycles
          HasEffect,        \* a remediation may be prepared for the Case
          Redelivers,       \* a claim may be delivered to a second thread
          PollsReports      \* somebody calls poll_unhanded_reports

ASSUME BudgetAssumption ==
  /\ Workers \cap Clients = {}
  /\ MaxWorks \in Nat /\ MaxClaims \in Nat \ {0} /\ MaxToolCalls \in Nat
  /\ MaxResumes \in Nat /\ MaxVerifications \in Nat
  /\ MaxNoProgress \in Nat \ {0}
  /\ {HasEffect, Redelivers, PollsReports} \subseteq BOOLEAN

VARIABLES
  case,    \* investigation_cases: status, revision, used tool calls
  quota,   \* case_orchestration_state: the cycle counters
  works,   \* case_work_items
  calls,   \* case_calls and the observation stored for each
  effect,  \* the ledger row and recovery index of the Case's effect
  reports, \* evaluation reports and their outbox rows, by producing work
  job      \* what each thread is doing

vars == <<case, quota, works, calls, effect, reports, job>>

Threads == Workers \cup Clients
Slots == 1..MaxWorks
CallIds == 1..MaxToolCalls

CaseStatus == {"NEW", "INVESTIGATING", "WAITING", "ESCALATED", "CLOSED_VERIFIED"}

Runnable == {"NEW", "INVESTIGATING"}

WorkType == {"resume", "verify", "followup", "recheck"}

WorkStatus == {"ABSENT", "PENDING", "CLAIMED", "COMPLETED", "CANCELED", "BLOCKED"}

CallState == {"FREE", "DISPATCHED", "ERROR", "OBSERVED"}

EffectStatus == {"NONE", "PREPARED", "DISPATCHED", "APPLIED", "FAILED"}

RECOVERABLE == {"PREPARED", "DISPATCHED"}

Verdicts == {"PASS", "FAIL", "INCONCLUSIVE"}

(* What a work item was created for: the key of _create_work is its type   *)
(* and this reference.  The number is a revision, a work item or zero.     *)
Sources == {"decision", "work", "report", "effect"} \X Nat

Absent ==
  [kind |-> "resume", source |-> <<"decision", 0>>, status |-> "ABSENT",
   expStatus |-> "NEW", expRev |-> 0, created |-> 0, rebased |-> 0,
   signal |-> "none", due |-> FALSE, token |-> 0, live |-> FALSE,
   recTok |-> 0, resTok |-> 0, started |-> FALSE]

Idle == [pc |-> "idle", w |-> 0, tok |-> 0, call |-> 0, reads |-> {},
         snap |-> [status |-> "NEW", rev |-> 0, used |-> 0], blocked |-> FALSE]

(* CaseRepository.create, before anything was orchestrated.                *)
Init ==
  /\ case = [status |-> "NEW", rev |-> 0, used |-> 0]
  /\ quota = [resumes |-> 0, verifications |-> 0, idle |-> 0]
  /\ works = [w \in Slots |-> Absent]
  /\ calls = [c \in CallIds |-> [state |-> "FREE", observed |-> FALSE, late |-> FALSE]]
  /\ effect = [status |-> "NONE", rev |-> 0, exhausted |-> FALSE]
  /\ reports = [w \in Slots |-> [rev |-> 0, verdict |-> "FAIL", state |-> "ABSENT"]]
  /\ job = [t \in Threads |-> Idle]

-----------------------------------------------------------------------------
(* State functions                                                         *)

Terminal == case.status = "CLOSED_VERIFIED"

Mine(t) == works[job[t].w]

(* WorkRepository.owned: the claim still holds the work.                   *)
Owned(t) ==
  /\ job[t].w # 0
  /\ Mine(t).status = "CLAIMED" /\ Mine(t).token = job[t].tok /\ Mine(t).live

(* What every transaction of a claimed cycle requires first.               *)
Current(t) == Owned(t) /\ ~Terminal

Stale(r) == r.expStatus # case.status \/ r.expRev # case.rev

Claimed == {w \in Slots : works[w].status = "CLAIMED"}

Open(r) == r.status \in {"PENDING", "CLAIMED"}
pending_calls == {c \in CallIds : calls[c].state \in {"DISPATCHED", "ERROR"}}

PassPossible_IgnoresEffect == pending_calls = {}

(* What an evaluation that passes must have found.                         *)
PassPossible == pending_calls = {} /\ effect.status \notin RECOVERABLE

(* CaseRepository._work_fence: a run without a lease is locked out by any  *)
(* claim, a run with one must still hold it.                               *)
work_fence(t) == IF job[t].w = 0 THEN Claimed = {} ELSE Claimed = {job[t].w} /\ Owned(t)

AtRest(t) == job[t].pc = "idle"

(* Moves thread t on, or lets it go.                                       *)
Goto(t, pc) == job' = [job EXCEPT ![t].pc = pc]
Leave(t) == job' = [job EXCEPT ![t] = Idle]

-----------------------------------------------------------------------------
(* Work items, as functions of the Case row and the table                  *)

Free(ws) == {w \in Slots : ws[w].status = "ABSENT"}

NextSlot(ws) == CHOOSE w \in Free(ws) : \A v \in Free(ws) : w <= v

(* The bound on work items: a claimed cycle has ClaimRoom free slots for   *)
(* the work it may have to create (a pause and a follow-up; a verification *)
(* and a recheck do not pause), and everyone else leaves them to it.       *)
ClaimRoom == 2
Room(n) == Cardinality(Free(works)) >= n
SpareRoom(n) == Room(IF Claimed = {} THEN n ELSE n + ClaimRoom)

RunningTimers(ws) ==
  {w \in Slots : ws[w].kind = "resume" /\ ws[w].status = "PENDING" /\ ~ws[w].due}

(* Nothing bypasses an escalation but the effect's own recovery.           *)
NeedsSignal_FollowupsOnly(c, kind) == kind = "followup"

NeedsSignal(c, kind) == kind = "followup" \/ (c.status = "ESCALATED" /\ kind # "recheck")

(* A verification of a waiting Case is dated no earlier than its timers.   *)
WaitsForTimer_Never(c, ws, kind) == FALSE

WaitsForTimer(c, ws, kind) ==
  c.status = "WAITING" /\ kind = "verify" /\ RunningTimers(ws) # {}

create_work(c, ws, kind, source, due) ==
  IF \E w \in Slots : ws[w].status # "ABSENT" /\ ws[w].kind = kind /\ ws[w].source = source
  THEN ws
  ELSE [ws EXCEPT ![NextSlot(ws)] =
         [kind |-> kind, source |-> source,
          status |-> IF c.status = "CLOSED_VERIFIED" THEN "CANCELED" ELSE "PENDING",
          expStatus |-> c.status, expRev |-> c.rev, created |-> c.rev, rebased |-> 0,
          signal |-> IF NeedsSignal(c, kind) THEN "needed" ELSE "none",
          due |-> due /\ ~WaitsForTimer(c, ws, kind),
          token |-> 0, live |-> FALSE, recTok |-> 0, resTok |-> 0, started |-> FALSE]]

cancel_terminal_work(ws) ==
  [w \in Slots |-> IF Open(ws[w]) \/ ws[w].status = "BLOCKED"
                   THEN [ws[w] EXCEPT !.status = "CANCELED", !.live = FALSE]
                   ELSE ws[w]]

Ends_KeepsLease(ws, w, status) == [ws EXCEPT ![w].status = status]

Ends(ws, w, status) == [ws EXCEPT ![w].status = status, ![w].live = FALSE]

(* The Case row and the work table, which most transactions change as one. *)
Db(c, ws) == [case |-> c, works |-> ws]

Commit(d) == case' = d.case /\ works' = d.works

escalate_in_WorkFirst(d, source) ==
  IF d.case.status = "CLOSED_VERIFIED" THEN d
  ELSE Db([d.case EXCEPT !.status = "ESCALATED", !.rev = @ + 1],
          create_work(d.case, d.works, "followup", source, TRUE))

escalate_in(d, source) ==
  IF d.case.status = "CLOSED_VERIFIED" THEN d
  ELSE LET c == [d.case EXCEPT !.status = "ESCALATED", !.rev = @ + 1]
       IN Db(c, create_work(c, d.works, "followup", source, TRUE))

(* Blocks work w and escalates the Case on its behalf.                     *)
BlockAndEscalate(w) == escalate_in(Db(case, Ends(works, w, "BLOCKED")), <<"work", w>>)

Recheck(ws) == {w \in Slots : ws[w].status # "ABSENT" /\ ws[w].kind = "recheck"}

recovery_operator(d, w) ==
  CASE d.case.status = "CLOSED_VERIFIED" -> d
    [] d.case.status = "ESCALATED" ->
         Db(d.case, create_work(d.case, d.works, "followup", <<"work", w>>, TRUE))
    [] OTHER -> escalate_in(d, <<"work", w>>)

(* The work that follows a settled effect; FAILED also stands for the      *)
(* administrative actions, which an operator follows up when applied.      *)
settled_handoff(c, ws, e) ==
  create_work(c, ws, IF e.status = "APPLIED" THEN "verify" ELSE "followup", <<"effect", 0>>, TRUE)

check_recovery_work(d, w, e) ==
  LET done == IF d.works[w].status = "COMPLETED" THEN d.works
              ELSE Ends(d.works, w, "COMPLETED")
  IN IF d.case.status = "CLOSED_VERIFIED" THEN Db(d.case, cancel_terminal_work(d.works))
     ELSE IF e.status \notin RECOVERABLE THEN Db(d.case, settled_handoff(d.case, done, e))
     ELSE IF e.exhausted THEN recovery_operator(Db(d.case, Ends(d.works, w, "BLOCKED")), w)
     ELSE d

ensure_recovery_work(d, e) ==
  LET ws == create_work(d.case, d.works, "recheck", <<"effect", 0>>, FALSE)
      w  == CHOOSE v \in Recheck(ws) : TRUE
  IN IF ws[w].status = "CLAIMED" /\ ws[w].live THEN d
     ELSE check_recovery_work(Db(d.case, ws), w, e)

effect_handoff(d, e) ==
  IF e.status = "DISPATCHED" THEN ensure_recovery_work(d, e)
  ELSE Db(d.case, settled_handoff(d.case, d.works, e))

-----------------------------------------------------------------------------
(* WorkRepository                                                          *)

Eligible(w) ==
  /\ works[w].due
  /\ \/ works[w].status = "PENDING" /\ works[w].signal # "needed"
     \/ works[w].status = "CLAIMED" /\ ~works[w].live

(* The part of poll_due_work that changes anything: stale work is          *)
(* cancelled, a recheck whose effect was settled or given up ends.         *)
poll_due_work(w) ==
  /\ Eligible(w) /\ ~Terminal
  /\ IF works[w].kind = "recheck"
     THEN /\ effect.status \notin RECOVERABLE \/ effect.exhausted
          /\ IF works[w].status = "CLAIMED" THEN Room(1) ELSE SpareRoom(1)
          /\ Commit(check_recovery_work(Db(case, works), w, effect))
     ELSE /\ works[w].status = "PENDING" /\ Stale(works[w])
          /\ Commit(Db(case, Ends(works, w, "CANCELED")))
  /\ UNCHANGED <<quota, calls, effect, reports, job>>

(* At most one claimed work item per Case, an expired claim included.      *)
NoOtherClaim(w) == Claimed \subseteq {w}

claim(t, w) ==
  /\ AtRest(t)
  /\ Eligible(w) /\ ~Terminal /\ NoOtherClaim(w)
  /\ works[w].kind = "recheck" => effect.status \in RECOVERABLE /\ ~effect.exhausted
  /\ works[w].token <= MaxClaims
  /\ works[w].status = "PENDING" =>
       Room(IF works[w].kind \in {"verify", "recheck"} THEN 1 ELSE ClaimRoom)
  /\ works' = [works EXCEPT ![w].status = "CLAIMED", ![w].live = TRUE, ![w].token = @ + 1]
  /\ job' = [job EXCEPT ![t] = [Idle EXCEPT !.pc = "begin", !.w = w, !.tok = works[w].token + 1]]
  /\ UNCHANGED <<case, quota, calls, effect, reports>>

(* The same claim is processed by a second thread.                         *)
Redeliver(t, u) ==
  /\ Redelivers
  /\ AtRest(t) /\ ~AtRest(u) /\ job[u].tok # 0
  /\ job' = [job EXCEPT ![t] = [Idle EXCEPT !.pc = "begin", !.w = job[u].w, !.tok = job[u].tok]]
  /\ UNCHANGED <<case, quota, works, calls, effect, reports>>

(* Accepted only for the revision the work was created at.                 *)
submit_signal(w) ==
  /\ works[w].status = "PENDING" /\ works[w].signal = "needed"
  /\ ~Terminal /\ ~Stale(works[w])
  /\ works' = [works EXCEPT ![w].signal = "given"]
  /\ UNCHANGED <<case, quota, calls, effect, reports, job>>

-----------------------------------------------------------------------------
(* CaseResumeService: recover, then resume                                 *)

Resuming == {"begin", "recover", "resume"}

ForRecheck(t) == Mine(t).kind = "recheck"

(* recover_before_resume up to its first read.                             *)
Begin(t) ==
  /\ job[t].pc = "begin" /\ ~ForRecheck(t)
  /\ Current(t) /\ Mine(t).resTok = 0 /\ ~Stale(Mine(t))
  /\ Mine(t).recTok # job[t].tok
  /\ works' = [works EXCEPT ![job[t].w].recTok = job[t].tok]
  /\ job' = [job EXCEPT ![t].pc = "recover", ![t].reads = pending_calls]
  /\ UNCHANGED <<case, quota, calls, effect, reports>>

(* _current finds a run another claim has begun: it is never repeated.     *)
Interrupt(t) ==
  /\ job[t].pc \in Resuming /\ ~ForRecheck(t)
  /\ Current(t) /\ Mine(t).resTok \notin {0, job[t].tok}
  /\ Room(1)
  /\ Commit(BlockAndEscalate(job[t].w))
  /\ Leave(t)
  /\ UNCHANGED <<quota, calls, effect, reports>>

(* _current finds the Case at another status or revision.                  *)
GoesStale(t) ==
  /\ job[t].pc \in Resuming /\ ~ForRecheck(t)
  /\ Current(t) /\ Mine(t).resTok = 0 /\ Stale(Mine(t))
  /\ works' = Ends(works, job[t].w, "CANCELED")
  /\ Leave(t)
  /\ UNCHANGED <<case, quota, calls, effect, reports>>

TriggerHolds(r) ==
  /\ r.signal # "needed" /\ r.due
  /\ case.status = "ESCALATED" => r.signal = "given"

(* The claim is lost, was processed already, is not eligible to resume, or *)
(* the Case is closed.                                                     *)
GivesUp(t) ==
  /\ job[t].pc \in Resuming
  /\ \/ ~Current(t)
     \/ Mine(t).resTok = job[t].tok
     \/ job[t].pc = "begin" /\ Mine(t).recTok = job[t].tok
     \/ job[t].pc = "resume" /\ ~Stale(Mine(t)) /\ ~TriggerHolds(Mine(t))
  /\ Leave(t)
  /\ UNCHANGED <<case, quota, works, calls, effect, reports>>

FirstRead(t) == CHOOSE c \in job[t].reads : \A d \in job[t].reads : c <= d

(* The stored observation of call c is not published yet.                  *)
Recoverable(c) == calls[c].observed /\ calls[c].state \in {"DISPATCHED", "ERROR"}

(* Publication of call c; late: outside a claim, after the Case paused.     *)
Publish(c, late) ==
  calls' = [calls EXCEPT ![c].state = "OBSERVED", ![c].late = late]

Paused == case.status \in {"WAITING", "ESCALATED"}

OwnRevision_AnyRevision(t) == Mine(t).resTok = 0

OwnRevision(t) == Mine(t).resTok = 0 /\ ~Stale(Mine(t))

(* recover_if_owned: publication and the rebase of the work are one step.  *)
recover_if_owned(t) ==
  LET c == FirstRead(t) IN
  /\ job[t].pc = "recover" /\ job[t].reads # {}
  /\ Current(t) /\ OwnRevision(t)
  /\ IF Recoverable(c)
     THEN /\ Publish(c, FALSE)
          /\ case' = [case EXCEPT !.rev = @ + 1]
          /\ works' = [works EXCEPT ![job[t].w].expRev = case.rev + 1,
                                    ![job[t].w].rebased = @ + 1]
     ELSE UNCHANGED <<case, works, calls>>
  /\ job' = [job EXCEPT ![t].reads = @ \ {c}]
  /\ UNCHANGED <<quota, effect, reports>>

(* The rest of recover_before_resume; the lookup it may ask the recovery   *)
(* coordinator for is one of the effect's own steps below.                 *)
Inspect(t) ==
  /\ job[t].pc = "recover" /\ job[t].reads = {}
  /\ Current(t) /\ OwnRevision(t)
  /\ job' = [job EXCEPT ![t].pc = "resume", ![t].blocked = effect.status = "PREPARED"]
  /\ UNCHANGED <<case, quota, works, calls, effect, reports>>

Verifies(t) == Mine(t).kind = "verify"

IdleAfterRecovery(progress) == IF progress THEN 0 ELSE quota.idle
LimitReached(t, idle) ==
  \/ job[t].blocked
  \/ idle >= MaxNoProgress
  \/ Verifies(t) /\ quota.verifications >= MaxVerifications
  \/ ~Verifies(t) /\ quota.resumes >= MaxResumes

(* resume, its outcomes that are not those of _current.                    *)
ResumeCommits(t, progress) ==
  /\ job[t].pc = "resume"
  /\ Current(t) /\ OwnRevision(t) /\ TriggerHolds(Mine(t))
  /\ ~LimitReached(t, IdleAfterRecovery(progress))
  /\ case' = [case EXCEPT !.status = "INVESTIGATING", !.rev = @ + 1]
  /\ works' = [works EXCEPT ![job[t].w].resTok = job[t].tok]
  /\ quota' = [resumes |-> quota.resumes + (IF Verifies(t) THEN 0 ELSE 1),
               verifications |-> quota.verifications + (IF Verifies(t) THEN 1 ELSE 0),
               idle |-> IdleAfterRecovery(progress)]
  /\ Goto(t, "start")
  /\ UNCHANGED <<calls, effect, reports>>

ResumeBlocks(t, progress) ==
  /\ job[t].pc = "resume"
  /\ Current(t) /\ OwnRevision(t) /\ TriggerHolds(Mine(t))
  /\ LimitReached(t, IdleAfterRecovery(progress))
  /\ Room(1)
  /\ Commit(BlockAndEscalate(job[t].w))
  /\ quota' = [quota EXCEPT !.idle = IdleAfterRecovery(progress)]
  /\ Leave(t)
  /\ UNCHANGED <<calls, effect, reports>>

start_once(t) ==
  /\ job[t].pc = "start"
  /\ Current(t) /\ Mine(t).resTok # 0 /\ ~Mine(t).started
  /\ works' = [works EXCEPT ![job[t].w].started = TRUE]
  /\ job' = [job EXCEPT ![t].pc = IF Verifies(t) THEN "first" ELSE "before",
                        ![t].reads = IF Verifies(t) THEN {} ELSE pending_calls]
  /\ UNCHANGED <<case, quota, calls, effect, reports>>

-----------------------------------------------------------------------------
(* InvestigationAgentRuntime.run, under a lease (w # 0) or directly, and   *)
(* the reads of a verification                                             *)

DirectRun(t) ==
  /\ AtRest(t) /\ ~Terminal
  /\ job' = [job EXCEPT ![t] = [Idle EXCEPT !.pc = "before", !.reads = pending_calls]]
  /\ UNCHANGED <<case, quota, works, calls, effect, reports>>

(* before_investigation: publishes stored observations without a fence.    *)
before_investigation(t) ==
  LET c == FirstRead(t) IN
  /\ job[t].pc = "before"
  /\ IF job[t].reads = {} THEN Goto(t, "turn") /\ UNCHANGED <<case, calls>>
     ELSE IF Terminal THEN Leave(t) /\ UNCHANGED <<case, calls>>
     ELSE /\ IF Recoverable(c)
             THEN Publish(c, Paused) /\ case' = [case EXCEPT !.rev = @ + 1]
             ELSE UNCHANGED <<case, calls>>
          /\ job' = [job EXCEPT ![t].reads = @ \ {c}]
  /\ UNCHANGED <<quota, works, effect, reports>>

Leased(t) == job[t].w # 0
Reading(t) == Leased(t) /\ Verifies(t)

(* Where a run goes when it ends: a leased one is evaluated, once its      *)
(* lease was renewed, and of the run only its claim is used any more.      *)
AfterRun(t) ==
  IF Leased(t) /\ Current(t)
  THEN job' = [job EXCEPT ![t] = [Idle EXCEPT !.pc = "report", !.w = job[t].w, !.tok = job[t].tok]]
  ELSE Leave(t)

(* A turn takes a snapshot; a run stops where the Case is not runnable, a  *)
(* verification, which does not look, after its reads.                     *)
Turn(t) ==
  /\ job[t].pc \in {"first", "turn"}
  /\ Leased(t) => Current(t)
  /\ IF Reading(t) THEN case.used < MaxToolCalls ELSE case.status \in Runnable
  /\ job' = [job EXCEPT ![t].pc = "act", ![t].snap = case]
  /\ UNCHANGED <<case, quota, works, calls, effect, reports>>

RunStops(t) ==
  /\ job[t].pc = "turn"
  /\ Leased(t) => Current(t)
  /\ AfterRun(t)
  /\ UNCHANGED <<case, quota, works, calls, effect, reports>>

(* A verification without a tool for its requirement, or without budget.   *)
VerifyBlocks(t) ==
  /\ Reading(t) /\ Current(t)
  /\ \/ job[t].pc = "first"
     \/ job[t].pc = "turn" /\ case.used >= MaxToolCalls
  /\ Room(1)
  /\ Commit(BlockAndEscalate(job[t].w))
  /\ Leave(t)
  /\ UNCHANGED <<quota, calls, effect, reports>>

CanReserve == case.status \in Runnable /\ case.used < MaxToolCalls

Reservation ==
  /\ case' = [status |-> "INVESTIGATING", rev |-> case.rev + 1, used |-> case.used + 1]
  /\ calls' = [calls EXCEPT ![case.used + 1].state = "DISPATCHED"]

reserve_call(t) ==
  /\ job[t].pc = "act"
  /\ work_fence(t) /\ case = job[t].snap /\ CanReserve
  /\ Reservation
  /\ job' = [job EXCEPT ![t].pc = "call", ![t].call = case.used + 1]
  /\ UNCHANGED <<quota, works, effect, reports>>

(* CaseToolExecutor.execute, called without a precondition.                *)
execute(t) ==
  /\ AtRest(t)
  /\ work_fence(t) /\ CanReserve
  /\ Reservation
  /\ job' = [job EXCEPT ![t] = [Idle EXCEPT !.pc = "apicall", !.call = case.used + 1]]
  /\ UNCHANGED <<quota, works, effect, reports>>

(* AgentPreconditionFailed.  A run that plans again is a run whose Turn    *)
(* came later.                                                             *)
ReserveRaises(t) ==
  /\ job[t].pc = "act"
  /\ ~(work_fence(t) /\ case = job[t].snap /\ CanReserve)
  /\ IF Reading(t) THEN Leave(t) ELSE AfterRun(t)
  /\ UNCHANGED <<case, quota, works, calls, effect, reports>>

(* pause_if_current with its hand-off: a timer, or an operator's work.     *)
pause_if_current(t, status) ==
  LET limit == status = "WAITING" /\ quota.resumes >= MaxResumes
      c == [case EXCEPT !.status = IF limit THEN "ESCALATED" ELSE status, !.rev = @ + 1]
      kind == IF c.status = "WAITING" THEN "resume" ELSE "followup"
  IN /\ job[t].pc = "act" /\ ~Reading(t)
     /\ work_fence(t) /\ case = job[t].snap /\ case.status \in Runnable
     /\ IF Leased(t) THEN Room(1) ELSE SpareRoom(1)
     /\ Commit(Db(c, create_work(c, works, kind, <<"decision", c.rev>>, kind = "followup")))
     /\ AfterRun(t)
     /\ UNCHANGED <<quota, calls, effect, reports>>

OnTheWire(t) == job[t].pc \in {"call", "apicall"}

(* The tool answered and record_call publishes: no fence, any revision.    *)
record_call(t) ==
  LET c == job[t].call IN
  /\ OnTheWire(t)
  /\ ~Terminal /\ calls[c].observed /\ calls[c].state = "DISPATCHED"
  /\ Publish(c, Paused)
  /\ case' = [case EXCEPT !.rev = @ + 1]
  /\ IF job[t].pc = "call" THEN Goto(t, "turn") ELSE Leave(t)
  /\ UNCHANGED <<quota, works, effect, reports>>

(* The call failed, or its answer could not be published.                  *)
mark_error(t) ==
  /\ OnTheWire(t)
  /\ calls' = [calls EXCEPT ![job[t].call].state = IF @ = "DISPATCHED" THEN "ERROR" ELSE @]
  /\ IF job[t].pc = "apicall" \/ Reading(t) THEN Leave(t) ELSE AfterRun(t)
  /\ UNCHANGED <<case, quota, works, effect, reports>>

(* A step of the cycle after the resume finds the lease lost; recording    *)
(* finds the Case closed.                                                  *)
LeaseLost(t) ==
  /\ Leased(t)
  /\ \/ job[t].pc \in {"start", "first", "turn", "finish", "recheck"} /\ ~Current(t)
     \/ job[t].pc = "start" /\ Mine(t).started
     \/ job[t].pc = "report" /\ Terminal
  /\ Leave(t)
  /\ UNCHANGED <<case, quota, works, calls, effect, reports>>

-----------------------------------------------------------------------------
(* Evaluation, the end of a cycle, the report's hand-off and the closure   *)

(* evaluate and record: report and outbox row are one transaction, which   *)
(* asks for an open Case and not for the lease.                            *)
record(t, verdict) ==
  /\ job[t].pc = "report" /\ ~Terminal
  /\ verdict = "PASS" => PassPossible
  /\ reports' = [reports EXCEPT ![job[t].w] =
                   [rev |-> case.rev, verdict |-> verdict, state |-> "PENDING"]]
  /\ Goto(t, "finish")
  /\ UNCHANGED <<case, quota, works, calls, effect>>

finish(t, progress) ==
  LET w == job[t].w
      idle == IF progress THEN 0 ELSE quota.idle + 1
      escalated == idle >= MaxNoProgress /\ reports[w].verdict # "PASS"
      d == Db(case, Ends(works, w, "COMPLETED"))
  IN /\ job[t].pc = "finish" /\ Current(t)
     /\ Room(1)
     /\ Commit(IF escalated THEN escalate_in(d, <<"work", w>>) ELSE d)
     /\ quota' = [quota EXCEPT !.idle = idle]
     /\ IF escalated THEN Leave(t) ELSE Goto(t, "handoff")
     /\ UNCHANGED <<calls, effect, reports>>

Fresh_AnyRevision(r) == ~Terminal

(* The report still describes the Case.                                    *)
Fresh(r) == r.rev = case.rev /\ ~Terminal

(* VerifiedClosureService.close; the second case is its replay.            *)
close(t) ==
  LET r == reports[job[t].w] IN
  /\ job[t].pc = "handoff" /\ r.verdict = "PASS"
  /\ IF Terminal
     THEN r.rev + 1 = case.rev /\ UNCHANGED <<case, works>>
     ELSE /\ Fresh(r) /\ PassPossible
          /\ Commit(Db([case EXCEPT !.status = "CLOSED_VERIFIED", !.rev = @ + 1],
                       cancel_terminal_work(works)))
  /\ Goto(t, "ack")
  /\ UNCHANGED <<quota, calls, effect, reports>>

(* The route of an unresolved effect: recovery while the recovery policy   *)
(* allows it, an operator afterwards, under the identity of the recheck.   *)
RouteEffect(d) ==
  LET rows   == Recheck(d.works)
      source == IF rows = {} THEN <<"effect", 1>> ELSE <<"work", CHOOSE w \in rows : TRUE>>
  IN IF effect.status \notin RECOVERABLE THEN d
     ELSE IF ~effect.exhausted THEN ensure_recovery_work(d, effect)
     ELSE IF d.case.status # "ESCALATED" THEN escalate_in(d, source)
     ELSE Db(d.case, create_work(d.case, d.works, "followup", source, TRUE))

(* What a report asks for besides its effect.  Requirements are routed in  *)
(* the order of their names: an operator's may come before the effect's.   *)
Routes == {"early", "followup", "verify"}

RouteOne(d, routes, route, kind, w) ==
  IF route \in routes
  THEN Db(d.case, create_work(d.case, d.works, kind, <<"report", w>>, kind = "followup"))
  ELSE d

RouteAll(w, routes) ==
  LET early  == RouteOne(Db(case, works), routes, "early", "followup", w)
      effects == RouteEffect(early)
      late   == RouteOne(effects, routes, "followup", "followup", w)
  IN RouteOne(late, routes, "verify", "verify", w)

(* _consume of a report that did not pass.  A read without publication has *)
(* no tool: it is routed to an operator.                                   *)
consume(t, routes) ==
  LET w == job[t].w
      r == reports[w]
  IN /\ job[t].pc = "handoff" /\ r.verdict # "PASS"
     /\ Fresh(r)
     /\ IF r.verdict = "FAIL" THEN routes = {"followup"}
        ELSE pending_calls # {} => "followup" \in routes
     /\ SpareRoom(Cardinality(routes) + (IF effect.status \in RECOVERABLE THEN 1 ELSE 0))
     /\ Commit(IF r.verdict = "FAIL"
               THEN Db(case, create_work(case, works, "followup", <<"report", w>>, TRUE))
               ELSE RouteAll(w, routes))
     /\ Goto(t, "ack")
     /\ UNCHANGED <<quota, calls, effect, reports>>

(* Bound: a hand-off that finds no room for its work ends as a crash does. *)
OutOfRoom(t) ==
  /\ job[t].pc = "handoff" /\ reports[job[t].w].verdict # "PASS"
  /\ ~SpareRoom(2)
  /\ Leave(t)
  /\ UNCHANGED <<case, quota, works, calls, effect, reports>>

(* The Case was closed at the revision of report r: on r, or on another    *)
(* report of that revision.                                                *)
ClosedAt(r) == Terminal /\ r.verdict = "PASS" /\ r.rev + 1 = case.rev

(* The report is stale, or a fresh evaluation no longer passes.  The       *)
(* outbox scan (tok = 0) cancels a stale report; a refusal for any other   *)
(* reason, which the report of a closed Case may meet, leaves its row.     *)
HandoffRaises(t) ==
  LET r == reports[job[t].w]
      canceled == [reports EXCEPT ![job[t].w].state = "CANCELED"]
  IN /\ job[t].pc = "handoff"
     /\ r.verdict = "PASS" \/ ~Fresh(r)
     /\ \/ job[t].tok = 0 /\ reports' = canceled
        \/ (job[t].tok # 0 \/ ClosedAt(r)) /\ UNCHANGED reports
     /\ Leave(t)
     /\ UNCHANGED <<case, quota, works, calls, effect>>

ack(t) ==
  /\ job[t].pc = "ack"
  /\ reports' = [reports EXCEPT ![job[t].w].state = "COMPLETED"]
  /\ Leave(t)
  /\ UNCHANGED <<case, quota, works, calls, effect>>

poll_unhanded_reports(t, w) ==
  /\ PollsReports
  /\ AtRest(t) /\ reports[w].state = "PENDING"
  /\ job' = [job EXCEPT ![t] = [Idle EXCEPT !.pc = "handoff", !.w = w]]
  /\ UNCHANGED <<case, quota, works, calls, effect, reports>>

-----------------------------------------------------------------------------
(* Effect-bound rechecks and the effect itself                             *)

RecheckBegins(t) ==
  /\ job[t].pc = "begin" /\ ForRecheck(t)
  /\ Current(t) /\ Mine(t).recTok # job[t].tok
  /\ works' = [works EXCEPT ![job[t].w].recTok = job[t].tok]
  /\ Goto(t, "recheck")
  /\ UNCHANGED <<case, quota, calls, effect, reports>>

(* _recheck, after its one call of the recovery coordinator.  limit: the   *)
(* coordinator's attempts are used up.                                     *)
RecheckEnds(t, progress, limit) ==
  LET w == job[t].w IN
  /\ job[t].pc = "recheck" /\ Current(t)
  /\ Room(1)
  /\ Mine(t).token >= MaxClaims => limit
  /\ Commit(CASE effect.status \notin RECOVERABLE ->
                   effect_handoff(Db(case, Ends(works, w, "COMPLETED")), effect)
              [] effect.status \in RECOVERABLE /\ (effect.exhausted \/ limit) ->
                   BlockAndEscalate(w)
              [] OTHER ->
                   Db(case, [Ends(works, w, "PENDING") EXCEPT ![w].due = FALSE]))
  /\ quota' = [quota EXCEPT !.idle = IF progress THEN 0 ELSE @]
  /\ Leave(t)
  /\ UNCHANGED <<calls, effect, reports>>

(* The recovery worker's repair of a missing recheck.                      *)
EnsureRecheck ==
  /\ effect.status \in RECOVERABLE /\ ~effect.exhausted /\ ~Terminal
  /\ Recheck(works) = {} /\ SpareRoom(1)
  /\ Commit(ensure_recovery_work(Db(case, works), effect))
  /\ UNCHANGED <<quota, calls, effect, reports, job>>

(* AuthorizationStore.prepare: a revision of its own, no work yet.         *)
EffectPrepared ==
  /\ HasEffect /\ effect.status = "NONE" /\ ~Terminal
  /\ case' = [case EXCEPT !.rev = @ + 1]
  /\ effect' = [effect EXCEPT !.status = "PREPARED", !.rev = case.rev + 1]
  /\ UNCHANGED <<quota, works, calls, reports, job>>

(* A ledger transition publishes its work in the same transaction.         *)
EffectMoves(status) ==
  LET e == [effect EXCEPT !.status = status, !.exhausted = @ /\ status \in RECOVERABLE] IN
  /\ ~Terminal
  /\ \/ effect.status = "PREPARED" /\ status = "DISPATCHED" /\ effect.rev = case.rev
     \/ effect.status = "DISPATCHED" /\ status \in {"APPLIED", "FAILED"}
  /\ SpareRoom(IF status = "DISPATCHED" THEN 2 ELSE 1)
  /\ effect' = e
  /\ Commit(effect_handoff(Db(case, works), e))
  /\ UNCHANGED <<quota, calls, reports, job>>

(* The recovery policy's attempts are used up: requires_escalation.        *)
EffectExhausted ==
  /\ effect.status \in RECOVERABLE /\ ~effect.exhausted
  /\ effect' = [effect EXCEPT !.exhausted = TRUE]
  /\ UNCHANGED <<case, quota, works, calls, reports, job>>

-----------------------------------------------------------------------------
(* The tool service, the clock, crashes                                    *)

(* The tool service stores its observation, whoever still waits for it.    *)
ObservationStored(c) ==
  /\ calls[c].state \in {"DISPATCHED", "ERROR"} /\ ~calls[c].observed
  /\ calls' = [calls EXCEPT ![c].observed = TRUE]
  /\ UNCHANGED <<case, quota, works, effect, reports, job>>

(* not_before passes.  A verification created while the Case waited was    *)
(* dated no earlier than the timers of that time.                          *)
DueArrives(w) ==
  /\ works[w].status = "PENDING" /\ ~works[w].due
  /\ works[w].kind = "verify" /\ works[w].expStatus = "WAITING"
       => \A v \in RunningTimers(works) : v > w
  /\ works' = [works EXCEPT ![w].due = TRUE]
  /\ UNCHANGED <<case, quota, calls, effect, reports, job>>

(* Nobody will renew the lease on work w any more.                         *)
Abandoned(w) ==
  /\ works[w].status = "CLAIMED" /\ works[w].live
  /\ \A t \in Threads : job[t].w = w => job[t].tok # works[w].token

(* Within the bound a lease may also expire under a slow worker.           *)
LeaseExpires(w) ==
  /\ works[w].status = "CLAIMED" /\ works[w].live
  /\ works[w].token < MaxClaims \/ Abandoned(w)
  /\ works' = [works EXCEPT ![w].live = FALSE]
  /\ UNCHANGED <<case, quota, calls, effect, reports, job>>

Crash(t) ==
  /\ ~AtRest(t) /\ (Owned(t) => Mine(t).token < MaxClaims)
  /\ Leave(t)
  /\ UNCHANGED <<case, quota, works, calls, effect, reports>>

-----------------------------------------------------------------------------
(* Specification                                                           *)

(* CaseResumeService and the recheck, in a thread that holds a claim.      *)
ClaimStep(t) ==
  \/ Begin(t) \/ Interrupt(t) \/ GoesStale(t) \/ GivesUp(t)
  \/ recover_if_owned(t) \/ Inspect(t)
  \/ \E progress \in BOOLEAN : ResumeCommits(t, progress) \/ ResumeBlocks(t, progress)
  \/ start_once(t) \/ LeaseLost(t) \/ VerifyBlocks(t)
  \/ RecheckBegins(t)
  \/ \E progress, limit \in BOOLEAN : RecheckEnds(t, progress, limit)

(* A run, a verification's reads, or a tool call.                          *)
RunStep(t) ==
  \/ before_investigation(t) \/ Turn(t) \/ RunStops(t)
  \/ reserve_call(t) \/ ReserveRaises(t)
  \/ \E status \in {"WAITING", "ESCALATED"} : pause_if_current(t, status)
  \/ record_call(t) \/ mark_error(t)

(* Evaluation, hand-off and closure.                                       *)
ReportStep(t) ==
  \/ \E verdict \in Verdicts : record(t, verdict)
  \/ \E progress \in BOOLEAN : finish(t, progress)
  \/ close(t) \/ OutOfRoom(t) \/ HandoffRaises(t) \/ ack(t)
  \/ \E routes \in SUBSET Routes : consume(t, routes)

WorkerStep(t) == ClaimStep(t) \/ RunStep(t) \/ ReportStep(t)

(* What a thread at rest takes up.                                         *)
TakesUp ==
  \/ \E t \in Workers, w \in Slots : claim(t, w) \/ poll_unhanded_reports(t, w)
  \/ \E t, u \in Workers : Redeliver(t, u)
  \/ \E t \in Clients : DirectRun(t) \/ execute(t)

EffectStep ==
  \/ EnsureRecheck \/ EffectPrepared \/ EffectExhausted
  \/ \E status \in EffectStatus : EffectMoves(status)

Environment ==
  \/ \E c \in CallIds : ObservationStored(c)
  \/ \E w \in Slots : DueArrives(w) \/ LeaseExpires(w) \/ submit_signal(w) \/ poll_due_work(w)
  \/ \E t \in Threads : Crash(t)

Next ==
  \/ TakesUp \/ EffectStep \/ Environment
  \/ \E t \in Workers : WorkerStep(t)
  \/ \E t \in Clients : RunStep(t)

Spec == Init /\ [][Next]_vars

(* A started thread goes on (a tool call has a timeout), worker loops poll *)
(* for due work, and a lease nobody renews expires.  Operators, the effect *)
(* and the tool service owe nothing.                                       *)
Fairness ==
  /\ \A t \in Workers : WF_vars(WorkerStep(t))
  /\ \A t \in Clients : WF_vars(RunStep(t))
  /\ \A w \in Slots : /\ WF_vars(\E t \in Workers : claim(t, w))
                       /\ WF_vars(poll_due_work(w))
                       /\ WF_vars(Abandoned(w) /\ LeaseExpires(w))

LiveSpec == Spec /\ Fairness

-----------------------------------------------------------------------------
(* Properties                                                              *)

(* Every row holds what the code can have stored: in particular only a     *)
(* claimed work item has a lease, and a work item is recovered, resumed    *)
(* and started in that order.                                              *)
TypeOK ==
  /\ case \in [status : CaseStatus, rev : Nat, used : 0..MaxToolCalls]
  /\ quota.resumes \in 0..MaxResumes /\ quota.verifications \in 0..MaxVerifications
  /\ quota.idle \in 0..MaxNoProgress
  /\ \A w \in Slots :
       /\ works[w].kind \in WorkType /\ works[w].source \in Sources
       /\ works[w].status \in WorkStatus
       /\ works[w].expStatus \in CaseStatus /\ works[w].expRev <= case.rev
       /\ works[w].signal \in {"none", "needed", "given"}
       /\ works[w].live => works[w].status = "CLAIMED"
       /\ works[w].recTok <= works[w].token /\ works[w].resTok <= works[w].recTok
       /\ works[w].started => works[w].resTok # 0
       /\ reports[w].verdict \in Verdicts
       /\ reports[w].state \in {"ABSENT", "PENDING", "COMPLETED", "CANCELED"}
  /\ \A c \in CallIds : calls[c].state \in CallState
  /\ effect.status \in EffectStatus
  /\ \A t \in Threads : job[t].w \in Slots \cup {0} /\ job[t].reads \subseteq CallIds

Resumes(w) == works[w].resTok = 0 /\ works'[w].resTok # 0

(* A work item resumes the Case it was created for: since its creation the *)
(* revision advanced by the reads its own claims published and by nothing  *)
(* else (recover_before_resume, recover_if_owned and resume against        *)
(* late tool answers, signals, other cycles and the effect boundary).      *)
ResumeSeesNoForeignChange ==
  [][\A w \in Slots : Resumes(w) => case.rev = works[w].created + works[w].rebased]_vars

(* A Case closes with nothing left over: no work item that could still be  *)
(* claimed, no read whose answer is outstanding, no effect in doubt.       *)
ClosureIsComplete ==
  Terminal =>
    /\ \A w \in Slots : ~Open(works[w]) /\ works[w].status # "BLOCKED"
    /\ \A c \in CallIds : calls[c].state \in {"FREE", "OBSERVED"}
    /\ effect.status \notin {"PREPARED", "DISPATCHED"}

(* A Case is closed on a report that passed at the very revision it was    *)
(* closed at, however late the report is handed over or replayed.          *)
ClosedAsEvaluated ==
  Terminal => \E w \in Slots : /\ reports[w].state # "ABSENT" /\ reports[w].verdict = "PASS"
                               /\ reports[w].rev + 1 = case.rev

LatestTimer ==
  {w \in Slots : /\ works[w].kind = "resume" /\ works[w].status # "ABSENT"
                 /\ \A v \in Slots : works[v].kind = "resume" /\ works[v].status # "ABSENT" => v <= w}

(* A Case that asked to wait is not resumed before its timer, unless by an *)
(* operator: the verification an applied effect asks for waits as well.    *)
ResumesWhenDue ==
  \A w \in Slots : Resumes(w) /\ case.status = "WAITING" /\ works[w].signal # "given"
    => \A v \in LatestTimer : works[v].status = "PENDING" => works[v].due

WaitIsHonoured == [][ResumesWhenDue]_vars

ResumedAs(verifies) ==
  {w \in Slots : works[w].resTok # 0 /\ (works[w].kind = "verify") = verifies}

(* The Case's rows never show more resumed cycles than its orchestration   *)
(* budget, across crashes, redelivered claims and repeated escalations.    *)
CyclesBounded ==
  /\ Cardinality(ResumedAs(TRUE)) <= MaxVerifications
  /\ Cardinality(ResumedAs(FALSE)) <= MaxResumes

(* Cycles leave nothing behind: they stay within the budget and a closure  *)
(* they end in is complete.                                                *)
CyclesAreAccounted == CyclesBounded /\ ClosureIsComplete

Answerable(w) ==
  /\ works[w].kind # "recheck"
  /\ works[w].status = "CLAIMED" \/ (works[w].status = "PENDING" /\ ~Stale(works[w]))

(* A paused Case without an effect has, after every step of every thread,  *)
(* a work item that can still end the pause, unless a read was published   *)
(* outside a claim after the pause (the exception is what WaitingHasTimer  *)
(* is about).                                                              *)
PauseKeepsWork ==
  Paused /\ (\A c \in CallIds : ~calls[c].late) => \E w \in Slots : Answerable(w)

(* A claimed work item does not stay claimed for ever: it ends or goes     *)
(* back to waiting, whatever crashes.                                      *)
ClaimedWorkEnds ==
  \A w \in Slots : works[w].status = "CLAIMED" ~> works[w].status # "CLAIMED"

(* docs/orchestration.md:29: no WAITING Case is left without its timer.    *)
WaitingHasTimer ==
  case.status = "WAITING" => \E w \in Slots : works[w].kind = "resume" /\ Open(works[w])

(* docs/orchestration.md:236 routes an effect whose recovery is exhausted  *)
(* to an operator: an escalated Case with such an effect and no recheck    *)
(* left to run has a work item an operator or a worker can take.           *)
EscalatedHasFollowup ==
  /\ case.status = "ESCALATED" /\ effect.exhausted
  /\ \E w \in Recheck(works) : works[w].status = "BLOCKED"
  => \E w \in Slots : works[w].kind # "recheck" /\ Open(works[w])

=============================================================================

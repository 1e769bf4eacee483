---------------------------- MODULE EffectBoundary ----------------------------
(***************************************************************************)
(* The side-effect boundary of one Case: approvals, signed single-use      *)
(* capabilities, the write-ahead ledger, the dispatch of at most one       *)
(* request per effect to an external system, and the leased, lookup-only   *)
(* recovery of effects whose outcome is not known.                         *)
(*                                                                         *)
(* Every transaction starts by locking the Case row, so one transaction is *)
(* one step; a worker is interleaved with every other between two          *)
(* transactions and around its network call, and may crash there.          *)
(*                                                                         *)
(* Deadlines (approval and capability expiry, grace, backoff, lease) are   *)
(* flags that an action of the environment raises once the row exists, in  *)
(* any order: the model covers every choice of the durations.              *)
(***************************************************************************)
EXTENDS EffectModel, FiniteSets

CONSTANTS Keys,         \* effect keys (tenant, case, order, action, target)
          Noops,        \* the keys whose action is NO_REMEDIATION
          Gated,        \* the keys whose intent requires an approval
          Verifiable,   \* the keys whose action has a post-effect requirement
          Approvals,    \* approval identifiers
          Caps,         \* capability identifiers
          Executors,    \* threads that call execute()
          Recoverers,   \* threads that call recover()
          None,         \* no key, capability or approval
          MaxAttempts,  \* RecoveryPolicy.max_attempts
          MaxMutations, \* bound: revisions the rest of the system commits
          HasResumer,   \* the coordinator was given a PreparedEffectResumer
          NotFoundProvesNoEffect  \* the resolver contract's flag

ASSUME SetsAssumption ==
  /\ Noops \subseteq Keys /\ Gated \subseteq Keys /\ Verifiable \subseteq Keys
  /\ None \notin Keys \cup Caps \cup Approvals
  /\ Executors \cap Recoverers = {}

ASSUME PolicyAssumption ==
  /\ MaxAttempts \in Nat \ {0} /\ MaxMutations \in Nat
  /\ HasResumer \in BOOLEAN /\ NotFoundProvesNoEffect \in BOOLEAN

VARIABLES
  caseOpen,   \* the Case row: its status is not terminal
  revision,   \* the Case row: updated_at
  mutations,  \* bound: revisions committed by the rest of the system
  approvals,  \* remediation_approvals
  caps,       \* execution_capabilities
  ledger,     \* side_effect_ledger
  recovery,   \* effect_recovery_state, the index of the ledger
  attempts,   \* effect_recovery_attempts, by effect and sequence
  handoff,    \* kinds of work item ever published for an effect
  job,        \* what each thread is doing
  inflight,   \* a request for the effect is on the wire
  remote,     \* what the external system did
  sends       \* requests ever sent for the effect

caseVars == <<caseOpen, revision, mutations>>

vars == <<caseVars, approvals, caps, ledger, recovery, attempts, handoff, job,
          inflight, remote, sends>>

Workers == Executors \cup Recoverers
Seqs == 1..MaxAttempts
WorkKinds == {"RECOVERY_RECHECK", "VERIFICATION_REQUIRED", "OPERATOR_FOLLOWUP"}
RemoteStates == {"none", "accepted", "applied", "rejected", "closed"}

ApprovalRow == [status : ApprovalStatus \cup {"ABSENT"}, key : Keys \cup {None},
                rev : Nat, expired : BOOLEAN]

CapRow == [issued : BOOLEAN, key : Keys \cup {None}, rev : Nat,
           approval : Approvals \cup {None}, expired : BOOLEAN,
           used : Keys \cup {None}]

EffectRow == [status : RowStatus, cap : Caps \cup {None}, prepared : Nat,
              attempts : {0, 1}, ref : BOOLEAN]

RecoveryRow == [status : RowStatus, graceOver : BOOLEAN, due : BOOLEAN,
                token : {0} \cup Seqs, live : BOOLEAN, count : {0} \cup Seqs,
                escalated : BOOLEAN]

AttemptRow == [source : RowStatus, open : BOOLEAN,
               lookup : LookupStatus \cup {"none"}]

PCs == {"idle", "verify", "prepare", "dispatch", "send", "wait", "settle",
        "lookup", "persist", "transition", "resume", "finish", "error"}

\* got: what the last call returned (a receipt, a lookup answer, a failure).
Got == ReceiptOutcome \cup {"UNKNOWN"} \cup LookupStatus \cup {"UNBOUND"}
         \cup RecoveryFailure \cup {"none"}

Job == [pc : PCs, cap : Caps \cup {None}, key : Keys \cup {None},
        seq : {0} \cup Seqs, got : Got]

Idle == [pc |-> "idle", cap |-> None, key |-> None, seq |-> 0, got |-> "none"]

Init ==
  /\ caseOpen = TRUE /\ revision = 0 /\ mutations = 0
  /\ approvals = [a \in Approvals |->
       [status |-> "ABSENT", key |-> None, rev |-> 0, expired |-> FALSE]]
  /\ caps = [c \in Caps |-> [issued |-> FALSE, key |-> None, rev |-> 0,
       approval |-> None, expired |-> FALSE, used |-> None]]
  /\ ledger = [k \in Keys |-> [status |-> "ABSENT", cap |-> None,
       prepared |-> 0, attempts |-> 0, ref |-> FALSE]]
  /\ recovery = [k \in Keys |-> [status |-> "ABSENT", graceOver |-> FALSE,
       due |-> TRUE, token |-> 0, live |-> FALSE, count |-> 0,
       escalated |-> FALSE]]
  /\ attempts = [k \in Keys |-> [i \in Seqs |->
       [source |-> "ABSENT", open |-> FALSE, lookup |-> "none"]]]
  /\ handoff = [k \in Keys |-> {}]
  /\ job = [w \in Workers |-> Idle]
  /\ inflight = [k \in Keys |-> FALSE]
  /\ remote = [k \in Keys |-> "none"]
  /\ sends = [k \in Keys |-> 0]
-----------------------------------------------------------------------------
(***************************************************************************)
(* The Case, written by the rest of the system.                            *)
(***************************************************************************)

\* Evidence, budget and lifecycle commits each advance the revision.
CaseMutates ==
  /\ caseOpen
  /\ mutations < MaxMutations
  /\ revision' = revision + 1
  /\ mutations' = mutations + 1
  /\ UNCHANGED <<caseOpen, approvals, caps, ledger, recovery, attempts,
                 handoff, job, inflight, remote, sends>>

\* What keeps a report from PASS: an unresolved effect, an escalation, a live
\* lease or an unfinished attempt.
RecoveryUnresolved(k) ==
  \/ ledger[k].status \in UNRESOLVED_EFFECT_STATES
  \/ recovery[k].escalated
  \/ recovery[k].live
  \/ \E i \in Seqs : attempts[k][i].open

\* VerifiedClosureService.close, as far as effects are concerned: the report
\* is recomputed under the Case lock, so the gate sees the current rows.
CloseCase ==
  /\ caseOpen
  /\ \A k \in Keys : ~RecoveryUnresolved(k)
  /\ caseOpen' = FALSE
  /\ revision' = revision + 1
  /\ UNCHANGED <<mutations, approvals, caps, ledger, recovery, attempts,
                 handoff, job, inflight, remote, sends>>
-----------------------------------------------------------------------------
(***************************************************************************)
(* Approvals and capabilities. An intent is a key and the Case revision it *)
(* was computed from: its snapshot identity contains the revision, so it   *)
(* verifies exactly while the Case is at that revision.                    *)
(***************************************************************************)
request_approval(a, k) ==
  /\ caseOpen
  /\ approvals[a].status = "ABSENT"
  /\ approvals' = [approvals EXCEPT ![a] =
       [status |-> "PENDING", key |-> k, rev |-> revision, expired |-> FALSE]]
  /\ UNCHANGED <<caseVars, caps, ledger, recovery, attempts, handoff, job,
                 inflight, remote, sends>>

decide_approval(a, d) ==
  /\ caseOpen
  /\ \/ ApprovalView(approvals[a]) = "PENDING"
     \/ ApprovalView(approvals[a]) = "APPROVED" /\ d = "REVOKED"
  /\ approvals' = [approvals EXCEPT ![a].status = d]
  /\ UNCHANGED <<caseVars, caps, ledger, recovery, attempts, handoff, job,
                 inflight, remote, sends>>

\* _check_approval: an approval that is given must be bound to this very
\* intent and granted now; a gated intent must be given one.
ApprovalHolds(k, rev, a) ==
  IF a = None
  THEN k \notin Gated
  ELSE /\ approvals[a].key = k /\ approvals[a].rev = rev
       /\ ApprovalView(approvals[a]) = "APPROVED"

issue_capability(c, k, a) ==
  /\ caseOpen
  /\ ~caps[c].issued
  /\ ApprovalHolds(k, revision, a)
  /\ ledger[k].status \notin LOOKUP_ONLY
  /\ caps' = [caps EXCEPT ![c] = [issued |-> TRUE, key |-> k, rev |-> revision,
       approval |-> a, expired |-> FALSE, used |-> None]]
  /\ UNCHANGED <<caseVars, approvals, ledger, recovery, attempts, handoff, job,
                 inflight, remote, sends>>

\* _check_capability: unexpired, registered, approval still holding.
CapabilityHolds(c) ==
  /\ caps[c].issued
  /\ ~caps[c].expired
  /\ ApprovalHolds(caps[c].key, caps[c].rev, caps[c].approval)

\* _existing: the ledger row of the capability's effect consumes the
\* capability, unless another effect already has.
ConsumesExisting(c) ==
  /\ ledger[caps[c].key].status # "ABSENT"
  /\ caps[c].used \in {None, caps[c].key}

NothingExists(c) ==
  ledger[caps[c].key].status = "ABSENT" /\ caps[c].used = None
-----------------------------------------------------------------------------
(***************************************************************************)
(* Writing a ledger row. synchronize_effect runs in the same transaction:  *)
(* it publishes the handoff and refreshes the recovery index. A recheck of *)
(* an effect already marked for escalation escalates the Case as well,     *)
(* which advances its revision unless the Case was escalated before; a     *)
(* recheck that some worker holds is left alone.                           *)
(***************************************************************************)

SyncRow(r, status) ==
  [r EXCEPT !.status = status, !.graceOver = FALSE,
            !.escalated = @ /\ status \in RECOVERABLE]

Publish(k, status) ==
  \E followup, bump \in BOOLEAN :
    /\ bump => followup
    /\ followup => /\ status \in {"UNKNOWN", "DISPATCHED"}
                   /\ recovery[k].escalated
    /\ handoff' = [handoff EXCEPT ![k] =
         @ \cup effect_handoff(status, k \in Verifiable)
           \cup (IF followup THEN {"OPERATOR_FOLLOWUP"} ELSE {})]
    /\ revision' = IF bump THEN revision + 1 ELSE revision
    /\ UNCHANGED <<caseOpen, mutations>>

\* A recovery worker that fails goes on to finish_error; an executor raises.
Fail(w, failure) ==
  job' = [job EXCEPT ![w] =
    IF @.seq = 0 THEN Idle ELSE [@ EXCEPT !.pc = "error", !.got = failure]]

Goto(w, pc) == job' = [job EXCEPT ![w].pc = pc]
-----------------------------------------------------------------------------
(***************************************************************************)
(* execute(signed_capability). The calls of one execution are separate     *)
(* transactions: existing, the fresh verification, prepare,                *)
(* dispatch_prepared, the adapter's network call, transition.              *)
(***************************************************************************)

\* existing() finds the effect of an earlier execution: an idempotent replay.
ExecuteReplays(c) ==
  /\ CapabilityHolds(c)
  /\ ConsumesExisting(c)
  /\ caps[c].used = None
  /\ caps' = [caps EXCEPT ![c].used = caps[c].key]
  /\ UNCHANGED <<caseVars, approvals, ledger, recovery, attempts, handoff, job,
                 inflight, remote, sends>>

ExecuteStarts(w, c) ==
  /\ job[w].pc = "idle"
  /\ CapabilityHolds(c)
  /\ NothingExists(c)
  /\ job' = [job EXCEPT ![w] = [Idle EXCEPT !.pc = "verify", !.cap = c,
                                            !.key = caps[c].key]]
  /\ UNCHANGED <<caseVars, approvals, caps, ledger, recovery, attempts, handoff,
                 inflight, remote, sends>>

\* FreshIntentVerifier.verify rebuilds the intent from the current Case.
VerifyFresh(w) ==
  /\ job[w].pc = "verify"
  /\ revision = caps[job[w].cap].rev
  /\ Goto(w, "prepare")
  /\ UNCHANGED <<caseVars, approvals, caps, ledger, recovery, attempts, handoff,
                 inflight, remote, sends>>

\* A stale verification looks once more for a concurrent winner's effect.
VerifyStale(w) ==
  LET c == job[w].cap IN
  /\ job[w].pc = "verify"
  /\ revision # caps[c].rev
  /\ caps' = IF CapabilityHolds(c) /\ ConsumesExisting(c)
             THEN [caps EXCEPT ![c].used = caps[c].key] ELSE caps
  /\ job' = [job EXCEPT ![w] = Idle]
  /\ UNCHANGED <<caseVars, approvals, ledger, recovery, attempts, handoff,
                 inflight, remote, sends>>

PrepareAllowed(c) == caseOpen /\ CapabilityHolds(c)

\* No row of this effect yet, and the Case still at the capability's revision.
PrepareCAS(c) == NothingExists(c) /\ revision = caps[c].rev

\* Mutant: the worker that prepared goes straight to the wire.
AfterPrepare_SkipsDispatch == "send"

\* What the owner of a new PREPARED row does next.
AfterPrepare == "dispatch"

PrepareInserts(w) ==
  LET c == job[w].cap
      k == caps[c].key
      status == IF k \in Noops THEN "NOOP" ELSE "PREPARED"
  IN /\ job[w].pc = "prepare"
     /\ PrepareAllowed(c)
     /\ PrepareCAS(c)
     /\ revision' = IF k \in Noops THEN revision ELSE revision + 1
     /\ ledger' = [ledger EXCEPT ![k] = [status |-> status, cap |-> c,
          prepared |-> revision', attempts |-> 0, ref |-> FALSE]]
     /\ caps' = [caps EXCEPT ![c].used = k]
     /\ recovery' = [recovery EXCEPT ![k] = SyncRow(@, status)]
     /\ handoff' = [handoff EXCEPT ![k] =
          @ \cup effect_handoff(status, k \in Verifiable)]
     /\ job' = [job EXCEPT ![w] =
          IF k \in Noops THEN Idle ELSE [@ EXCEPT !.pc = AfterPrepare]]
     /\ UNCHANGED <<caseOpen, mutations, approvals, attempts, inflight, remote,
                    sends>>

\* Another capability of the same effect won: not the owner of the dispatch.
PrepareReplays(w) ==
  LET c == job[w].cap IN
  /\ job[w].pc = "prepare"
  /\ PrepareAllowed(c)
  /\ ConsumesExisting(c)
  /\ caps' = [caps EXCEPT ![c].used = caps[c].key]
  /\ job' = [job EXCEPT ![w] = Idle]
  /\ UNCHANGED <<caseVars, approvals, ledger, recovery, attempts, handoff,
                 inflight, remote, sends>>

PrepareRaises(w) ==
  LET c == job[w].cap IN
  /\ job[w].pc = "prepare"
  /\ ~(PrepareAllowed(c) /\ (PrepareCAS(c) \/ ConsumesExisting(c)))
  /\ job' = [job EXCEPT ![w] = Idle]
  /\ UNCHANGED <<caseVars, approvals, caps, ledger, recovery, attempts, handoff,
                 inflight, remote, sends>>

\* A claim still owns its effect: its token is the row's and the lease lives.
LeaseHeld(k, seq) == recovery[k].token = seq /\ recovery[k].live

\* Mutant: any worker that reaches a prepared or dispatched row may send.
DispatchAllowed_NoCAS(c, k, seq) ==
  /\ caseOpen
  /\ CapabilityHolds(c)
  /\ caps[c].used = k /\ ledger[k].cap = c
  /\ seq # 0 => LeaseHeld(k, seq)
  /\ revision = ledger[k].prepared
  /\ ledger[k].status \in {"PREPARED", "DISPATCHED"}

\* Mutant: evidence committed after prepare does not stop the dispatch.
DispatchAllowed_AnyRevision(c, k, seq) ==
  /\ caseOpen
  /\ CapabilityHolds(c)
  /\ caps[c].used = k /\ ledger[k].cap = c
  /\ seq # 0 => LeaseHeld(k, seq)
  /\ ledger[k].status = "PREPARED"

\* dispatch_prepared's gate: everything the authorization rested on is
\* checked again, in the transaction that commits DISPATCHED.
DispatchAllowed(c, k, seq) ==
  /\ caseOpen
  /\ CapabilityHolds(c)
  /\ caps[c].used = k /\ ledger[k].cap = c
  /\ seq # 0 => LeaseHeld(k, seq)
  /\ revision = ledger[k].prepared
  /\ ledger[k].status = "PREPARED"

DispatchCommits(w) ==
  LET k == job[w].key IN
  /\ job[w].pc = "dispatch"
  /\ DispatchAllowed(job[w].cap, k, job[w].seq)
  /\ ledger' = [ledger EXCEPT ![k].status = "DISPATCHED", ![k].attempts = 1]
  /\ recovery' = [recovery EXCEPT ![k] = SyncRow(@, "DISPATCHED")]
  /\ Publish(k, "DISPATCHED")
  /\ Goto(w, "send")
  /\ UNCHANGED <<approvals, caps, attempts, inflight, remote, sends>>

DispatchRaises(w) ==
  /\ job[w].pc = "dispatch"
  /\ ~DispatchAllowed(job[w].cap, job[w].key, job[w].seq)
  /\ Fail(w, "RECOVERY_STALE")
  /\ UNCHANGED <<caseVars, approvals, caps, ledger, recovery, attempts, handoff,
                 inflight, remote, sends>>

\* adapter.dispatch puts the request on the wire.
Send(w) ==
  LET k == job[w].key IN
  /\ job[w].pc = "send"
  /\ inflight' = [inflight EXCEPT ![k] = TRUE]
  /\ sends' = [sends EXCEPT ![k] = @ + 1]
  /\ Goto(w, "wait")
  /\ UNCHANGED <<caseVars, approvals, caps, ledger, recovery, attempts, handoff,
                 remote>>

\* The receipt the external system would give for its present state.
ReceiptOf(k) ==
  CASE remote[k] = "applied"  -> {"APPLIED"}
    [] remote[k] = "accepted" -> {"ACCEPTED"}
    [] remote[k] \in {"rejected", "closed"} -> {"FAILED_CONFIRMED"}
    [] OTHER -> {}

ReceiptArrives(w) ==
  /\ job[w].pc = "wait"
  /\ ~inflight[job[w].key]
  /\ \E outcome \in ReceiptOf(job[w].key) :
       job' = [job EXCEPT ![w].pc = "settle", ![w].got = outcome]
  /\ UNCHANGED <<caseVars, approvals, caps, ledger, recovery, attempts, handoff,
                 inflight, remote, sends>>

\* A timeout, a transport error or a receipt that does not validate: the
\* request may be anywhere, applied or still on the wire.
CallFails(w) ==
  /\ job[w].pc = "wait"
  /\ job' = [job EXCEPT ![w].pc = "settle", ![w].got = "UNKNOWN"]
  /\ UNCHANGED <<caseVars, approvals, caps, ledger, recovery, attempts, handoff,
                 inflight, remote, sends>>

\* Mutant: the sender writes its outcome over whatever the row says now.
TransitionCAS_Blind(k) == TRUE

\* transition(effect, DISPATCHED, outcome): compare-and-set on the status.
TransitionCAS(k) == ledger[k].status = "DISPATCHED"

Transition(w) ==
  LET k == job[w].key
      status == job[w].got
  IN /\ job[w].pc = "settle"
     /\ TransitionCAS(k)
     /\ ledger' = [ledger EXCEPT ![k].status = status,
          ![k].ref = IF status = "UNKNOWN" THEN @
                     ELSE status # "FAILED_CONFIRMED"]
     /\ recovery' = [recovery EXCEPT ![k] = SyncRow(@, status)]
     /\ Publish(k, status)
     /\ job' = [job EXCEPT ![w] =
          IF @.seq = 0 THEN Idle ELSE [@ EXCEPT !.pc = "finish", !.got = "none"]]
     /\ UNCHANGED <<approvals, caps, attempts, inflight, remote, sends>>

\* Recovery moved the row first: the late receipt is refused.
TransitionRaises(w) ==
  /\ job[w].pc = "settle"
  /\ ~TransitionCAS(job[w].key)
  /\ Fail(w, "RECOVERY_STALE")
  /\ UNCHANGED <<caseVars, approvals, caps, ledger, recovery, attempts, handoff,
                 inflight, remote, sends>>
-----------------------------------------------------------------------------
(***************************************************************************)
(* recover(effect_id): claim a lease and open an attempt, then either look *)
(* the effect up and settle it from the persisted proof, or, for a row     *)
(* still PREPARED, resume the original dispatch.                           *)
(***************************************************************************)

\* _locked refuses an unresolved effect of a closed Case.
Locked(k) == caseOpen \/ ledger[k].status \notin RECOVERABLE

\* Mutant: claim does not check the attempt budget.
Exhausted_Never(k) == recovery[k].escalated

\* Mutant: claim gives up silently once the attempt budget is spent.
MarkExhausted_Silent(k) == recovery

Exhausted(k) == recovery[k].escalated \/ recovery[k].count >= MaxAttempts

MarkExhausted(k) == [recovery EXCEPT ![k].escalated = TRUE]

\* Past grace and backoff, and no live lease.
Eligible(k) == recovery[k].due /\ recovery[k].graceOver /\ ~recovery[k].live

\* Mutant: a takeover leaves the previous holder's attempt open.
Abandon_Forgets(k) == attempts[k]

\* A takeover closes the attempt the expired lease left open (LEASE_LOST).
Abandon(k) ==
  IF recovery[k].token # 0
  THEN [attempts[k] EXCEPT ![recovery[k].token].open = FALSE]
  ELSE attempts[k]

Claim(w, k) ==
  LET seq == recovery[k].count + 1 IN
  /\ job[w].pc = "idle"
  /\ ledger[k].status \in RECOVERABLE
  /\ Locked(k)
  /\ ~Exhausted(k)
  /\ Eligible(k)
  /\ recovery' = [recovery EXCEPT ![k] =
       [@ EXCEPT !.token = seq, !.live = TRUE, !.count = seq]]
  /\ attempts' = [attempts EXCEPT ![k] = [Abandon(k) EXCEPT ![seq] =
       [source |-> ledger[k].status, open |-> TRUE, lookup |-> "none"]]]
  /\ job' = [job EXCEPT ![w] = [Idle EXCEPT !.key = k, !.seq = seq,
       !.pc = IF ledger[k].status = "PREPARED" THEN "resume" ELSE "lookup"]]
  /\ UNCHANGED <<caseVars, approvals, caps, ledger, handoff, inflight, remote,
                 sends>>

ClaimEscalates(k) ==
  /\ ledger[k].status \in RECOVERABLE
  /\ Locked(k)
  /\ Exhausted(k)
  /\ ~recovery[k].escalated
  /\ recovery' = MarkExhausted(k)
  /\ UNCHANGED <<caseVars, approvals, caps, ledger, attempts, handoff, job,
                 inflight, remote, sends>>

Attempt(w) == attempts[job[w].key][job[w].seq]

\* _locked and _owned: the claim's token is current, live, its attempt open.
Owned(w) ==
  /\ Locked(job[w].key)
  /\ LeaseHeld(job[w].key, job[w].seq)
  /\ Attempt(w).open

\* The ledger row is still in the state the claim saw, and lookup-only.
AtSource(w) ==
  /\ ledger[job[w].key].status = Attempt(w).source
  /\ ledger[job[w].key].status \in LOOKUP_ONLY

\* What the resolver may answer. A weak index may miss anything; the strong
\* contract answers NOT_FOUND only for a request it has not seen, and then
\* closes it for good.
Answers(k) ==
  {"INDETERMINATE", "UNBOUND"}
  \cup (CASE remote[k] = "applied"  -> {"FOUND_APPLIED"}
          [] remote[k] = "accepted" -> {"FOUND_ACCEPTED"}
          [] remote[k] = "rejected" -> {"FOUND_FAILED_NO_EFFECT"}
          [] OTHER -> {})
  \cup (IF NotFoundProvesNoEffect => remote[k] \in {"none", "closed"}
        THEN {"NOT_FOUND"} ELSE {})

\* capture: read the row, then ask the resolver.
LookupAnswers(w) ==
  LET k == job[w].key IN
  /\ job[w].pc = "lookup"
  /\ AtSource(w)
  /\ \E answer \in Answers(k) :
       /\ job' = [job EXCEPT ![w].pc = "persist", ![w].got = answer]
       /\ remote' = IF answer = "NOT_FOUND" /\ NotFoundProvesNoEffect
                    THEN [remote EXCEPT ![k] = "closed"] ELSE remote
  /\ UNCHANGED <<caseVars, approvals, caps, ledger, recovery, attempts, handoff,
                 inflight, sends>>

LookupRaises(w) ==
  /\ job[w].pc = "lookup"
  /\ \E failure \in {"LOOKUP_TIMEOUT", "LOOKUP_TRANSPORT_ERROR",
                     "INVALID_LOOKUP_RECEIPT", "RECOVERY_STALE"} :
       /\ (failure = "RECOVERY_STALE") <=> ~AtSource(w)
       /\ Fail(w, failure)
  /\ UNCHANGED <<caseVars, approvals, caps, ledger, recovery, attempts, handoff,
                 inflight, remote, sends>>

\* The verdict of a transaction that uses a lookup result: _persist_lookup
\* checks the fresh answer, recover_transition the persisted one again.
ProofVerdict(w, answer, fresh) ==
  CASE ~Owned(w)                 -> "LEASE_LOST"
    [] Owned(w) /\ ~AtSource(w)  -> "RECOVERY_STALE"
    [] Owned(w) /\ AtSource(w)   ->
         validate_lookup(answer, fresh, ledger[job[w].key].ref)

PersistLookup(w) ==
  /\ job[w].pc = "persist"
  /\ \E fresh \in BOOLEAN :
       LET verdict == IF Owned(w) /\ AtSource(w) /\ Attempt(w).lookup # "none"
                      THEN "LOOKUP_PROOF_CONFLICT"
                      ELSE ProofVerdict(w, job[w].got, fresh)
       IN
       IF verdict = "OK"
       THEN /\ attempts' = [attempts EXCEPT ![job[w].key][job[w].seq].lookup =
                              job[w].got]
            /\ job' = [job EXCEPT ![w].pc = "transition", ![w].got = "none"]
       ELSE Fail(w, verdict) /\ UNCHANGED attempts
  /\ UNCHANGED <<caseVars, approvals, caps, ledger, recovery, handoff, inflight,
                 remote, sends>>

\* _finish releases the lease, starts the backoff and decides on escalation.
FinishRow(r, seq, status, escalate) ==
  [r EXCEPT !.token = 0, !.live = FALSE, !.due = FALSE,
            !.escalated = /\ status \in RECOVERABLE
                          /\ escalate \/ seq >= MaxAttempts]

CloseAttempt(w) ==
  attempts' = [attempts EXCEPT ![job[w].key][job[w].seq].open = FALSE]

RecoverTransition(w) ==
  LET k == job[w].key
      answer == Attempt(w).lookup
      status == reconcile_status(answer, NotFoundProvesNoEffect)
  IN /\ job[w].pc = "transition"
     /\ \E fresh \in BOOLEAN :
          LET verdict == ProofVerdict(w, answer, fresh) IN
          IF verdict = "OK"
          THEN /\ ledger' = [ledger EXCEPT ![k].status = status,
                    ![k].ref =
                      @ \/ answer \in {"FOUND_APPLIED", "FOUND_ACCEPTED"}]
               /\ recovery' = [recovery EXCEPT ![k] =
                    FinishRow(SyncRow(@, status), job[w].seq, status, FALSE)]
               /\ Publish(k, status)
               /\ CloseAttempt(w)
               /\ job' = [job EXCEPT ![w] = Idle]
          ELSE /\ Fail(w, verdict)
               /\ UNCHANGED <<caseVars, ledger, recovery, attempts, handoff>>
     /\ UNCHANGED <<approvals, caps, inflight, remote, sends>>

\* PreparedEffectResumer.resume up to its dispatch: the original capability
\* must still hold and the Case must be at the prepared revision.
ResumeAllowed(k) ==
  /\ HasResumer
  /\ ledger[k].status = "PREPARED"
  /\ CapabilityHolds(ledger[k].cap)
  /\ revision = ledger[k].prepared

Resume(w) ==
  LET k == job[w].key IN
  /\ job[w].pc = "resume"
  /\ IF ResumeAllowed(k)
     THEN job' = [job EXCEPT ![w].pc = "dispatch", ![w].cap = ledger[k].cap]
     ELSE Fail(w, "RECOVERY_STALE")
  /\ UNCHANGED <<caseVars, approvals, caps, ledger, recovery, attempts, handoff,
                 inflight, remote, sends>>

\* finish_resume; a lost lease raises and finish_error is refused as well.
FinishResume(w) ==
  LET k == job[w].key IN
  /\ job[w].pc = "finish"
  /\ IF Owned(w)
     THEN /\ recovery' = [recovery EXCEPT ![k] =
               FinishRow(@, job[w].seq, ledger[k].status, FALSE)]
          /\ CloseAttempt(w)
     ELSE UNCHANGED <<recovery, attempts>>
  /\ job' = [job EXCEPT ![w] = Idle]
  /\ UNCHANGED <<caseVars, approvals, caps, ledger, handoff, inflight, remote,
                 sends>>

\* finish_error: an attempt that failed on the state it claimed leaves the
\* effect UNKNOWN; an outcome committed meanwhile is never overwritten, and a
\* worker that lost its lease changes nothing.
FinishError(w) ==
  LET k == job[w].key
      seq == job[w].seq
      escalate == escalates(job[w].got)
  IN /\ job[w].pc = "error"
     /\ \/ /\ ~Owned(w)
           /\ UNCHANGED <<caseVars, ledger, recovery, attempts, handoff>>
        \/ /\ Owned(w) /\ AtSource(w)
           /\ ledger' = [ledger EXCEPT ![k].status = "UNKNOWN"]
           /\ recovery' = [recovery EXCEPT ![k] =
                FinishRow(SyncRow(@, "UNKNOWN"), seq, "UNKNOWN", escalate)]
           /\ Publish(k, "UNKNOWN")
           /\ CloseAttempt(w)
        \/ /\ Owned(w) /\ ~AtSource(w)
           /\ recovery' = [recovery EXCEPT ![k] =
                FinishRow(@, seq, ledger[k].status, escalate)]
           /\ CloseAttempt(w)
           /\ UNCHANGED <<caseVars, ledger, handoff>>
     /\ job' = [job EXCEPT ![w] = Idle]
     /\ UNCHANGED <<approvals, caps, inflight, remote, sends>>
-----------------------------------------------------------------------------
(***************************************************************************)
(* Crashes, deadlines and the external system.                             *)
(***************************************************************************)

\* A process dies between two transactions; only its local state is lost.
Crash(w) ==
  /\ job[w].pc # "idle"
  /\ job' = [job EXCEPT ![w] = Idle]
  /\ UNCHANGED <<caseVars, approvals, caps, ledger, recovery, attempts, handoff,
                 inflight, remote, sends>>

ApprovalExpires(a) ==
  /\ approvals[a].status # "ABSENT" /\ ~approvals[a].expired
  /\ approvals' = [approvals EXCEPT ![a].expired = TRUE]
  /\ UNCHANGED <<caseVars, caps, ledger, recovery, attempts, handoff, job,
                 inflight, remote, sends>>

CapabilityExpires(c) ==
  /\ caps[c].issued /\ ~caps[c].expired
  /\ caps' = [caps EXCEPT ![c].expired = TRUE]
  /\ UNCHANGED <<caseVars, approvals, ledger, recovery, attempts, handoff, job,
                 inflight, remote, sends>>

GraceElapses(k) ==
  /\ recovery[k].status \in RECOVERABLE /\ ~recovery[k].graceOver
  /\ recovery' = [recovery EXCEPT ![k].graceOver = TRUE]
  /\ UNCHANGED <<caseVars, approvals, caps, ledger, attempts, handoff, job,
                 inflight, remote, sends>>

BackoffElapses(k) ==
  /\ recovery[k].status \in RECOVERABLE /\ ~recovery[k].due
  /\ recovery' = [recovery EXCEPT ![k].due = TRUE]
  /\ UNCHANGED <<caseVars, approvals, caps, ledger, attempts, handoff, job,
                 inflight, remote, sends>>

LeaseExpires(k) ==
  /\ recovery[k].live
  /\ recovery' = [recovery EXCEPT ![k].live = FALSE]
  /\ UNCHANGED <<caseVars, approvals, caps, ledger, attempts, handoff, job,
                 inflight, remote, sends>>

\* The external system handles a request once; a repeated request finds its
\* earlier outcome and a closed request is refused.
RemoteHandles(k) ==
  /\ inflight[k]
  /\ inflight' = [inflight EXCEPT ![k] = FALSE]
  /\ IF remote[k] = "none"
     THEN \E outcome \in {"accepted", "applied", "rejected"} :
            remote' = [remote EXCEPT ![k] = outcome]
     ELSE UNCHANGED remote
  /\ UNCHANGED <<caseVars, approvals, caps, ledger, recovery, attempts, handoff,
                 job, sends>>

RemoteCompletes(k) ==
  /\ remote[k] = "accepted"
  /\ \E outcome \in {"applied", "rejected"} :
       remote' = [remote EXCEPT ![k] = outcome]
  /\ UNCHANGED <<caseVars, approvals, caps, ledger, recovery, attempts, handoff,
                 job, inflight, sends>>

RequestLost(k) ==
  /\ inflight[k]
  /\ inflight' = [inflight EXCEPT ![k] = FALSE]
  /\ UNCHANGED <<caseVars, approvals, caps, ledger, recovery, attempts, handoff,
                 job, remote, sends>>
-----------------------------------------------------------------------------
ExecutorStep(w) ==
  \/ VerifyFresh(w) \/ VerifyStale(w)
  \/ PrepareInserts(w) \/ PrepareReplays(w) \/ PrepareRaises(w)

DispatchStep(w) ==
  \/ DispatchCommits(w) \/ DispatchRaises(w)
  \/ Send(w) \/ ReceiptArrives(w) \/ CallFails(w)
  \/ Transition(w) \/ TransitionRaises(w)

RecovererStep(w) ==
  \/ LookupAnswers(w) \/ LookupRaises(w) \/ PersistLookup(w)
  \/ RecoverTransition(w) \/ Resume(w) \/ FinishResume(w) \/ FinishError(w)

Authorize ==
  \/ \E a \in Approvals, k \in Keys : request_approval(a, k)
  \/ \E a \in Approvals, d \in Decisions : decide_approval(a, d)
  \/ \E c \in Caps, k \in Keys, a \in Approvals \cup {None} :
       issue_capability(c, k, a)

Deadline ==
  \/ \E a \in Approvals : ApprovalExpires(a)
  \/ \E c \in Caps : CapabilityExpires(c)
  \/ \E k \in Keys : GraceElapses(k) \/ BackoffElapses(k) \/ LeaseExpires(k)

External ==
  \E k \in Keys : RemoteHandles(k) \/ RemoteCompletes(k) \/ RequestLost(k)

Next ==
  \/ CaseMutates \/ CloseCase
  \/ Authorize
  \/ \E c \in Caps : ExecuteReplays(c)
  \/ \E w \in Executors, c \in Caps : ExecuteStarts(w, c)
  \/ \E w \in Executors : ExecutorStep(w)
  \/ \E w \in Workers : DispatchStep(w) \/ Crash(w)
  \/ \E w \in Recoverers, k \in Keys : Claim(w, k)
  \/ \E k \in Keys : ClaimEscalates(k)
  \/ \E w \in Recoverers : RecovererStep(w)
  \/ Deadline
  \/ External

Spec == Init /\ [][Next]_vars

(***************************************************************************)
(* Fairness: a running thread takes its next step, the scan keeps calling  *)
(* recover for every effect, and clocks advance. Nothing is assumed of     *)
(* operators, of new executions, of the external system, nor that crashes  *)
(* ever stop.                                                              *)
(***************************************************************************)
ClaimFairness(k) ==
  /\ WF_vars(\E w \in Recoverers : Claim(w, k))
  /\ WF_vars(ClaimEscalates(k))
  /\ WF_vars(GraceElapses(k))
  /\ WF_vars(BackoffElapses(k))
  /\ WF_vars(LeaseExpires(k))

Fairness ==
  /\ \A w \in Executors : WF_vars(ExecutorStep(w) \/ DispatchStep(w))
  /\ \A w \in Recoverers : WF_vars(RecovererStep(w) \/ DispatchStep(w))
  /\ \A k \in Keys : ClaimFairness(k)

FairSpec == Spec /\ Fairness
-----------------------------------------------------------------------------
(***************************************************************************)
(* Properties.                                                             *)
(***************************************************************************)

\* Every row and every thread has the shape the tables and services give it;
\* in particular a dispatch is counted at most once and the recovery attempts
\* of an effect stay within RecoveryPolicy.max_attempts.
TypeOK ==
  /\ caseOpen \in BOOLEAN /\ revision \in Nat /\ mutations \in 0..MaxMutations
  /\ approvals \in [Approvals -> ApprovalRow]
  /\ caps \in [Caps -> CapRow]
  /\ ledger \in [Keys -> EffectRow]
  /\ recovery \in [Keys -> RecoveryRow]
  /\ attempts \in [Keys -> [Seqs -> AttemptRow]]
  /\ handoff \in [Keys -> SUBSET WorkKinds]
  /\ job \in [Workers -> Job]
  /\ inflight \in [Keys -> BOOLEAN]
  /\ remote \in [Keys -> RemoteStates]
  /\ sends \in [Keys -> Nat]

\* Whatever the capabilities, executors, resumed recoveries and crashes, an
\* effect key is put on the wire at most once (execute, resume and
\* _complete_dispatch share the PREPARED -> DISPATCHED compare-and-set).
AtMostOneSend == \A k \in Keys : sends[k] <= 1

\* The ledger is a write-ahead record: nothing reaches the wire, and nothing
\* happens remotely, for an effect whose row does not say it was dispatched.
LedgerBeforeWire ==
  \A k \in Keys : sends[k] > 0 \/ remote[k] # "none" =>
    /\ ledger[k].status \notin {"ABSENT", "PREPARED", "NOOP"}
    /\ ledger[k].attempts = 1

\* A settled row tells the truth about the external system, now and for good:
\* APPLIED means applied, FAILED_CONFIRMED that the request can no longer take
\* effect, even if its sender was slow or its request is still on the wire.
SettledIsTrue ==
  \A k \in Keys :
    /\ ledger[k].status = "APPLIED" => remote[k] = "applied"
    /\ ledger[k].status = "FAILED_CONFIRMED" =>
         remote[k] \in {"rejected", "closed"}

\* At most one recovery attempt of an effect is unfinished, the one whose
\* token the recovery row carries, and a live lease always has it (claim,
\* _finish): two recoverers never both work on an effect with authority.
LeaseAndAttemptAgree ==
  \A k \in Keys :
    /\ \A i \in DOMAIN attempts[k] : attempts[k][i].open => recovery[k].token = i
    /\ recovery[k].live => \E i \in DOMAIN attempts[k] :
                             attempts[k][i].open /\ recovery[k].token = i

\* synchronize_effect: "indexed discovery never lags its source", whichever
\* of the four transactions wrote the ledger row.
IndexNeverLags == \A k \in Keys : recovery[k].status = ledger[k].status

\* Only an unresolved effect waits for an operator: an outcome found by
\* anyone, including the original sender, withdraws the escalation.
EscalatedIsUnresolved ==
  \A k \in Keys : recovery[k].escalated => ledger[k].status \in RECOVERABLE

\* The recovery bookkeeping agrees with the ledger after any mix of sender,
\* recoverers, crashes and expired leases: each lease has its one open
\* attempt, the index shows the ledger's status, and only an unresolved
\* effect is marked for an operator.
RecoveryAgrees == LeaseAndAttemptAgree /\ IndexNeverLags /\ EscalatedIsUnresolved

\* effect_handoff never loses a next step: a dispatched effect without an
\* outcome has a recheck, an applied one its verification (or a follow-up
\* where none is defined), a failed one a follow-up.
NoEffectIsForgotten ==
  \A k \in Keys :
    /\ ledger[k].status \in LOOKUP_ONLY => "RECOVERY_RECHECK" \in handoff[k]
    /\ ledger[k].status = "APPLIED" =>
         (IF k \in Verifiable THEN "VERIFICATION_REQUIRED"
          ELSE "OPERATOR_FOLLOWUP") \in handoff[k]
    /\ ledger[k].status = "FAILED_CONFIRMED" =>
         "OPERATOR_FOLLOWUP" \in handoff[k]

\* Once the Case is closed nothing more happens in the external system on its
\* behalf: no late sender, no request on the wire, no accepted request that
\* completes later (close against prepare, dispatch and recovery).
NoEffectAfterClosure == [][~caseOpen => remote' = remote]_vars

Rank(status) ==
  CASE status = "ABSENT" -> 0
    [] status = "PREPARED" -> 1
    [] status = "DISPATCHED" -> 2
    [] status \in {"ACCEPTED", "UNKNOWN"} -> 3
    [] status \in {"APPLIED", "FAILED_CONFIRMED", "NOOP"} -> 4

\* A row never moves back (UNKNOWN never becomes DISPATCHED or PREPARED), and
\* an outcome is final: a late receipt, a stale proof or a failing attempt
\* cannot change it (transition, recover_transition, finish_error).
LedgerNeverRegresses ==
  [][\A k \in Keys :
       /\ Rank(ledger'[k].status) >= Rank(ledger[k].status)
       /\ ledger[k].status \in Settled \cup {"NOOP"} =>
            ledger'[k].status = ledger[k].status]_vars

\* When DISPATCHED is committed, by an execution or by a resumed recovery, the
\* Case has changed since the capability was issued by that effect's own
\* prepare alone, the capability has not expired, and the approval it names is
\* granted, unexpired and bound to the same intent.
DispatchesAuthorized ==
  \A k \in Keys :
    ledger[k].status = "PREPARED" /\ ledger'[k].status = "DISPATCHED" =>
      LET cap == caps[ledger[k].cap] IN
      /\ caseOpen
      /\ revision = cap.rev + 1
      /\ ~cap.expired
      /\ k \in Gated => cap.approval # None
      /\ cap.approval # None =>
           approvals[cap.approval] =
             [status |-> "APPROVED", key |-> k, rev |-> cap.rev,
              expired |-> FALSE]

DispatchIsAuthorized == [][DispatchesAuthorized]_vars

\* An unresolved effect is eventually settled or handed to an operator, even
\* if every worker that touches it crashes (max_attempts bounds the retries).
ResolvedOrEscalated ==
  \A k \in Keys : ledger[k].status \in RECOVERABLE ~>
    (ledger[k].status \notin RECOVERABLE \/ recovery[k].escalated)

\* "An unfinished attempt left by an expired lease is marked LEASE_LOST"
\* (docs/recovery.md): it does not stay open.
AbandonedAttemptIsMarked ==
  \A k \in Keys : \A i \in Seqs :
    (attempts[k][i].open /\ ~recovery[k].live) ~> ~attempts[k][i].open
=============================================================================

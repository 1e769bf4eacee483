# Verification of the credit-incident resolution harness

TLA+ models, TLC runs and TLAPS proofs for the Python system under
`src/src/credit_harness`. An LLM agent investigates credit incidents with
read-only tools; deterministic services decide what counts as evidence, whether
a remediation may be executed, how a remediation whose outcome is unknown is
recovered, and when a Case may be closed. The models cover those services: the
transactions, locks, leases, retries and hand-offs between them, the rules that
turn readings of a moving world into conclusions, verdicts and proposals, the
loop of the agent around them, the registry of the sources it reads, the memory
it consults, and the frames people are shown. What a language model says is an
input.

## 1. The system

### 1.1 Parts

| part (package) | state it keeps | operations | what must be right |
| --- | --- | --- | --- |
| `cases` | the Case row: status, revision (`updated_at`), tool budget; one row per reserved call | `create`, `reserve_call`, `mark_error`, `pause`, `pause_if_current`, the work fence | budget never exceeded under races; nothing moves a closed Case; a writer that lost its lease commits nothing |
| `evidence` | observations bound to calls, evidence rows | `record_call`, provenance checks | one publication per call, none after closure |
| `authorization` | approvals, capabilities, the side-effect ledger | `request_approval`, `decide_approval`, `issue`, `execute` (`existing`, verify, `prepare`, `dispatch_prepared`, adapter call, `transition`) | an effect is sent at most once, only under a live authorization, and never before the ledger says so |
| `recovery` | recovery index, attempts, read-recovery receipts, checkpoints | `list_recoverable_effects`, `claim`, `capture`, `_persist_lookup`, `recover_transition`, `finish_error`, `finish_resume`, `PreparedEffectResumer.resume`, orphan-read recovery | the outcome written is the true one and is final; no effect is forgotten or retried for ever |
| `orchestration` | work items with leases, quotas, signals, report outbox | `create_work`, `poll_due_work`, `claim`, `renew`, `resume`, `start_once`, `process`, `_finish`, `_recheck`, `submit_signal`, hand-offs | one in-flight cycle per Case; a run starts once; a paused Case can be woken |
| `evaluation` | reports, closure record | `evaluate`, `record`, `close` | a Case closes only on a fresh PASS with nothing pending |
| `hypotheses`, `identity` | none: a graph computed from the evidence | `build`, payment identity, gaps, validation | what is confirmed or eliminated was so, whatever order the readings came in |
| `remediation` | none: proposals | `plan`, `validate`, `preview` | an intent is borne out by the evidence of its moment |
| `agent`, `planner`, `context` | run traces | load, plan, revalidate, reserve or pause; the snapshot a model is shown; validation, policy and ranking | every committed step is justified by what is known when it is committed |
| `investigation` | stored frames, cursors | `get_frame`, pages, `prune` | a frame is one state of the Case; pages belong to one frame |
| `registry` | immutable versions behind a head, route revisions, reservations | `activate`, `bind_case_route`, resolve, `reserve`, `promote_protocol` | a call reads the source it was planned and reserved for |
| `registry_admin` | change requests, previews, inventory | create, edit, review, activate, roll back, import | what takes effect was reviewed as it is |
| `retrieval`, `memory` | vector spaces, index jobs and counters, experiences, skills | publish, revoke, enqueue, claim, embed, complete, reconcile, search, guidance | an admitted index is complete; a result is current; guidance never relaxes a safety invariant |
| `adapters`, `tools`, `simulator` | the synthetic external systems | `dispatch`, `lookup`, `observe` | idempotent on the correlation identity |
| `production`, `api`, `persistence`, `frontend`, `benchmark` | settings, heartbeats, HTTP, sessions, pseudonyms, console, measurements | worker loops and façades | schedule the services above; no protocol state of their own |

### 1.2 How the parts interact

Everything about a Case is serialised by its row: each transaction begins with
an UPDATE of the Case row, so two transactions of one Case never overlap. What
does overlap are the *sequences* of transactions of different workers, with
network calls between them. The Case revision is the common optimistic lock:
evidence, reservations, pauses, prepared effects and escalations advance it, and
proposals, capabilities, work items and reports name the revision they were made
for. Writing the ledger publishes the next work item and refreshes the recovery
index in the same transaction (`synchronize_effect`, `effect_handoff`). Leases
(of recovery attempts and of work items) are tokens with a deadline; a worker
that lost its lease finds out at its next transaction. Registry and memory have
their own serialisation points: the registry head row, and the database triggers
that count every change of a source or a vector. Decisions (hypotheses, plans,
proposals, verdicts) are functions of a reading; each is computed outside any
transaction and checked again, against the Case row or a second reading, when it
is committed.

### 1.3 What is hard

Threads and processes race for one effect or one work item; a worker dies
between a commit and the network call, or between the call and the next commit;
a request is lost, slow or answered after a timeout; a lookup index misses what
it should show; leases, approvals, capabilities and grace periods run out at any
moment; the Case is closed while something is on the wire. Readings of one Case
are made at different instants of a changing world, by sources that time out,
lag or answer from a cache; a plan, a preview or a frame is built while the Case
moves on; people approve what somebody else has just edited. `PROJECT.json` lists
each such hazard at the line where it bites, with the properties that would
catch it going wrong.

## 2. The modules

| module | models |
| --- | --- |
| `EffectModel` | vocabulary and pure decisions of authorization and recovery: statuses, `validate_lookup`, `reconcile_status`, `effect_handoff` |
| `EffectBoundary` | authorization, ledger, dispatch and recovery of the effects of one Case, with the external system, the wire, crashes and deadlines |
| `EffectContract` | what that boundary promises of one effect, without tables or leases |
| `EffectRefinement` | the refinement mapping from `EffectBoundary` to `EffectContract` |
| `EffectProofs` | theorems about `EffectBoundary`: types, the ledger's order, one send, leases, settled rows, closure, authorization, and the refinement |
| `CaseWork` | one Case between its investigations: work items and leases, resumes, runs and their tool calls, signals, reports, the outbox, closure, and the rechecks of an effect that appears with its ledger status only |
| `CaseWorkProofs`, `CaseLifeProofs` | theorems about `CaseWork`: what a resume finds; the rows and threads, closure, the cost of cycles, timers, what a pause leaves |
| `RegistryAdmin` | change requests, review, activation, rollback and spreadsheet imports of one tenant's registry |
| `RegistryModel` | what a registry definition means: integrity, eligibility, resolution, risk and impact of a change |
| `RegistryDispatch` | one Case reading registered sources while definitions and its route change |
| `RegistryProofs` | theorems about `RegistryAdmin`, and about `RegistryModel` and `RegistryDispatch` |
| `Knowledge` | eligibility, ranking, composition of skills and the guidance bundle, as operators |
| `MemoryIndex` | documents, embedding jobs, spaces, counters and the retrieval that relies on them |
| `MemoryProofs` | theorems about `MemoryIndex` and the filters of `Knowledge` |
| `World` | the credit world of the simulator, scenarios S1 to S8, visibility faults and the observation of a tool |
| `Evidence` | extraction of claims, the store, its verified re-reading |
| `Hypotheses` | the evidence index, payment identity, the rules of the ten hypotheses, gaps, the graph and its validator |
| `Inquiry` | tool calls in any order on a moving world |
| `InquiryProofs` | theorems about `Inquiry`, with the lemmas about `World`, `Evidence` and `Hypotheses` |
| `Evaluation` | the evaluator: snapshot, checks, dimensions, verdict |
| `Verification` | sweeps, lost and late answers, effects with lost receipts, and the evaluator at any moment |
| `VerificationProofs` | theorems about `Verification`, with the lemmas about `Evaluation` |
| `Remediation` | catalog of actions, validation, preflight, choice |
| `Proposal` | plans beside a Case that moves between their steps |
| `Planner` | the snapshot a model is shown, validation, policy, ranking, the offline model |
| `Agent` | the runtime's loop, operators' calls, other workers' claims, lost answers, crashes, resumptions |
| `InvestigationFrames` | frames, cursors and pages on several replicas |
| `FramesProofs` | theorems about `InvestigationFrames` |
| `MCEffectBoundary`, `MCCaseWork`, `MCRegistry`, `MCMemory`, `MCInquiry`, `MCInvestigationFrames`, `MCAgent` | the TLC instances |

`World`, `Evidence`, `Hypotheses` are one chain of operators; `Inquiry` gives it
state; `Verification`, `Proposal` and `Agent` each extend `Inquiry` with the
component that acts on the same world and evidence. `MCInquiry` joins the first
two, `MCRegistry` joins `RegistryAdmin` and `RegistryDispatch`.

### 2.1 EffectBoundary and the code

One transaction is one action; `job[w].pc` is the place between two transactions
at which thread `w` stands.

| action | code |
| --- | --- |
| `request_approval`, `decide_approval`, `issue_capability` | the methods of `SQLApprovalStore` behind the service methods of the same names |
| `ExecuteReplays`, `ExecuteStarts` | `execute`, the look for an existing effect |
| `VerifyFresh`, `VerifyStale` | `FreshIntentVerifier.verify` and the second look of a stale execution |
| `PrepareInserts`, `PrepareReplays`, `PrepareRaises` | `prepare` |
| `DispatchCommits`, `DispatchRaises` | `dispatch_prepared`, for executions and for resumed recoveries |
| `Send`, `ReceiptArrives`, `CallFails` | the adapter call of `_complete_dispatch` |
| `Transition`, `TransitionRaises` | `transition` |
| `Claim`, `ClaimEscalates` | `RecoveryRepository.claim` |
| `LookupAnswers`, `LookupRaises`, `PersistLookup`, `RecoverTransition` | `capture`, `_persist_lookup`, `recover_transition` |
| `Resume`, `FinishResume`, `FinishError` | `PreparedEffectResumer.resume`, `finish_resume`, `finish_error` |
| `CaseMutates`, `CloseCase` | every other writer of the Case, and `VerifiedClosureService.close` as far as effects go |
| `Crash`, `*Expires`, `*Elapses` | process death and the clock |
| `RemoteHandles`, `RemoteCompletes`, `RequestLost` | the external system and the network |

`synchronize_effect` is part of every action that writes the ledger (`SyncRow`,
`Publish`). Abstractions: an effect key stands for (tenant, Case, order, action,
target); an intent is a key and the Case revision it was computed from, because
its snapshot identity contains the revision; signatures and hashes either match
or do not; a deadline is a flag the environment raises at any time after the row
is written, so every duration and every order of deadlines is covered. The
values VERIFIED and REJECTED of `EffectStatus` are written by no transition and
are left out. The three authorization failures of a recovery attempt are one
value, since `recover` treats them alike.

Two contracts of the resolver are checked: the weak one, whose index may miss
anything (`NotFoundProvesNoEffect = FALSE`), and the strong one, whose NOT_FOUND
closes the request at the external system for good. The strong one is what
`docs/recovery.md` asks of a real integration and what the tests declare with an
explicit resolver; the resolver of this repository, `SyntheticEffectStatusResolver`,
declares the weak one.

### 2.2 CaseWork and the code

State: `case` (status, revision, used calls), `quota` (the cycle counters),
`works` (the work table, a fixed number of slots filled in order), `calls` (the
call rows and whether the tool service stored an observation), `effect` (ledger
status, revision it was prepared at, exhausted recovery), `reports` (report and
outbox row of the cycle of each work item), `job` (what each thread is doing).
A worker thread processes claims; a client thread is anybody who runs the agent
or calls a tool without a lease.

| action | code |
| --- | --- |
| `poll_due_work`, `claim`, `submit_signal` | `WorkRepository`; the READY mark of a poll is not a state of its own |
| `Redeliver` | a second `process` of the same claim |
| `Begin`, `recover_if_owned`, `Inspect` | `recover_before_resume`: its first transactions, one per recovered read, the rest |
| `Interrupt`, `GoesStale`, `GivesUp` | the other outcomes of `_current`, at each place that calls it |
| `ResumeCommits`, `ResumeBlocks`, `start_once` | `resume`, `start_once` |
| `DirectRun`, `before_investigation`, `Turn`, `RunStops`, `ReserveRaises` | `InvestigationAgentRuntime.run` |
| `reserve_call`, `execute`, `record_call`, `mark_error`, `pause_if_current` | the Case and evidence repositories and `CaseToolExecutor`; `pause_if_current` contains `pause_handoff` |
| `VerifyBlocks`, `LeaseLost` | the verification branch of `process`; any transaction that finds the lease gone |
| `record`, `finish`, `close`, `consume`, `HandoffRaises`, `ack`, `poll_unhanded_reports` | `EvaluationRepository.record`, `_finish`, `VerifiedClosureService.close`, `EvaluationHandoffService` |
| `RecheckBegins`, `RecheckEnds`, `EnsureRecheck` | `recover_effect_work`, `_recheck`, the repair step of the recovery worker |
| `EffectPrepared`, `EffectMoves`, `EffectExhausted` | the ledger writers of the effect boundary, with the work they publish |
| `ObservationStored`, `DueArrives`, `LeaseExpires`, `Crash` | tool service, clock, process death |

Functions over the pair of Case row and work table (`create_work`,
`escalate_in`, `check_recovery_work`, `ensure_recovery_work`, `effect_handoff`,
`RouteAll`...) are the code's helpers, which several transactions share.

Abstractions: the revision is a counter; the key of a work item is its type and
the thing it was created for, and requirements of one report with the same route
are one item; whether knowledge progressed between two fingerprints is a choice;
the verdict is a choice, except that PASS needs no outstanding read and no
effect in doubt; FAILED also stands for applied administrative actions, which
have the same hand-off; a lookup that a resume asks the recovery coordinator for
is one of the effect's own steps. The last step
of a leased run contains the renewal that follows it in `process`, so a lease
found lost there ends the thread like a crash; `record` itself, as in the code,
asks for an open Case and for no lease. A verification's reads end with
`RunStops` too. The outbox scan cancels a stale report only; a report refused
because the Case was closed on it, or on its twin of the same revision, and has
changed since keeps its row. `CaseRepository.pause`, which only benchmark
baselines and `CaseService.pause` use, and the revival of legacy STALE rechecks,
which no current writer produces, are left out.

### 2.3 The registry and the code

`RegistryAdmin`: every operation of `RegistryAdministration` locks the head row
first, so one operation is one action: `Create`, `Rollback`, `Get` (what a
person has seen), `Edit`, `Transition` (submit, approve, reject, withdraw...),
`ActivateRegistry`, `ActivateInventory`, `Preview`, `ConfirmImport`,
`ConfirmAgain`. A version is the hash of its payload, hence the definition
itself; a workbook is a sequence of sheets with the defects the importer looks
for. A person acts on a request as they last read it, with the revision they
read.

`RegistryModel` has the pure part: `WellFormed`, `Eligible`, resolution of a
tool or a claim by authority, `VerificationTool`, `RiskReasons`,
`ChangedCapabilities`. `RegistryDispatch`: `Activate`, `BindRoute`,
`InitializeLegacy`, `Project` (the planner's capability snapshot), `Reserve`
with or without a plan, `Observe` through the client looked up from the
reservation, `MarkError`, `PromoteProtocol`, `Close`. Tenant, business domain
and environment are one field; contract versions are part of the adapter. Of the
types of a capability only READ_PROTOCOL_SCHEMA decides anything: `Verified` asks
for it before an answer becomes a routing fact.

### 2.4 Memory, retrieval and the code

`MemoryIndex`: the repositories of skills and experiences (`AddSkill`,
`Activate`, `Retire`, `Publish`, `Revoke`), spaces (`CreateSpace`,
`ActivateSpace`, `RollbackSpace`), the index worker
(`Enqueue`, `Claim`, `Embed`, `CompleteJob`, `Reject`), the triggers (part of
every action that changes a source or a vector), the completeness reconciler
(`ReconcileRead`, `ReconcileWrite`: a REPEATABLE READ scan and a conditional
upsert), and a query (`StartQuery`, admission, search, recheck). Bodies are
immutable, so a document stands for its content hash; a vector is present or
not. `Knowledge` has `Eligible` on the primary record beside `SqlEligible` on
the columns of the index row, `RankKey`, `Rerank` and `BuildResult`; texts are
their sizes. `Search` returns at most `SearchLimit` documents (`top_k`, 20 in the
code); which of more it returns is arbitrary, since distances are not modelled.
PostgreSQL's approximate index may stop its iterative scan early and return fewer;
the model's does not, as the exact repository of the tests does not.

### 2.5 World, evidence, hypotheses and the code

`World` is `simulator` and `tools`: the parties' records, `build_scenario`, the
faults with their windows, and `observe`. `Evidence.extract` is the extractor of
each tool, `record_call` the store, `ProvenanceValid` the verified reading.
`Hypotheses.Index` is `EvidenceIndex`; `current`, `latest`, `agreed` keep their
names, as do the witnesses of the rules; `Graph` is the engine and `validate`
its invariants. `Inquiry` has three actions: `Call`, `progress` (the benchmark's
changes of the world) and `add_fault`. Of an identity value only its agreement
with what the Case expects matters; times are seconds.

### 2.6 Evaluation, remediation and the code

`Evaluation` is `IndependentEvaluator` check by check, on the
snapshot that `evaluation/snapshot.py` assembles; `oracle_converged` is the
benchmark's independent oracle, used in properties only. `Verification` adds
`read`, `read_orphan` and `recover_reads` (an answer the service kept but the
Case never got), `advance`, `dispatch` and `resolve` (an effect of the synthetic
adapter and its late resolution) and `evaluate`. `Remediation` has the catalog
(`Contract`), `Validate`, `Preview`, `Recheck` and `Best`; `Proposal` runs
`RemediationPlanner.plan` as three steps, `plan_begin`, `plan_preview` per
candidate and `plan_decide`, each on its own reading. A draft is a short list of
candidates with what they cite.

### 2.7 Planner, agent and the code

`Planner.Snapshot` is the reasoning snapshot: the open gaps, undecided
hypotheses, facts, tools and the compacted lookup history (`lookup_groups`,
`lookup_history_complete`). `policy_filter` is validation and hard policy,
`RankingDetail` the ranking, `fake_plan` the offline model. `Agent` is
`InvestigationAgentRuntime.run` by its awaits: `Load`, `Plan`, `Reload`,
`Revalidate`, then `Reserve` or `Pause` under the precondition on the Case row,
`Observed` or `CallFails`, `EndTurn`, with `Retry` for replanning. Beside it
`OperatorCalls`, `OperatorObserves` (the API), `Serve` (the tool service),
`Fence` (another worker claims the Case), `Crash`, `Resume` (with the recovery
of reads before it). Left out: auxiliary identity references, denied
eligibility, and the character budget of a prompt with its overflow; which
evidence a model is shown in preview is arbitrary. `resume` starts the retry window
at the orchestrator's own time, and the compactor compares it with the time of the
sources' readings: the model has one clock, that is, it takes these to agree.

### 2.8 Frames and the code

`InvestigationFrames` is `InvestigationFrameService`: `get_frame`, `Build` (first
read, projection, `recheck`, insert that does nothing on conflict), `page`,
`prune`; `Write`, `record` and `close` are the other components; `roll_key`
restarts one replica with the next cursor key, which ends its requests and, when
caches are private, empties its cache. A store is the set of its rows, each with
its frame, expiry and order of insertion; the shared store keeps a row until it
is pruned, a private one drops the oldest beyond its capacity. The Case is a
version number per part, and fingerprints agree exactly when the numbers do.
History: `since` and `still` record what moved during a build, `until` when the
frame that a client was answered with expires.

## 3. What the runs check

| run | instance | properties |
| --- | --- | --- |
| `effect_safety` | 1 key; three deployments: *plain* (1 executor, 2 recoverers, 2 attempts, weak resolver), *race* (2 capabilities, 2 executors, a recoverer that may resume), *gate* (an effect that needs an approval and a no-op) | `AtMostOneSend`, `LedgerBeforeWire`, `SettledIsTrue`, `RecoveryAgrees`, `NoEffectIsForgotten`, `NoEffectAfterClosure`, `LedgerNeverRegresses`, `GatedDispatchIsAuthorized` |
| `effect_liveness` | *plain* and *strong* with 1 executor and 1 recoverer, fairness | `TypeOK`, `ResolvedOrEscalated`, `ImplementsContract` |
| `effect_abandoned` | as *plain*, fairness | `AbandonedAttemptIsMarked`, violated |
| `case_lease` | 2 workers, 1 client, 3 work items, 2 claims each, 1 tool call, redelivery, outbox scan | `TypeOK`, `ClosedAsEvaluated`, `PauseKeepsWork`, `ResumeSeesNoForeignChange` |
| `case_effect` | 1 worker, an effect, 4 work items with 2 claims (*given*, fairness) or 5 with 1 (*long*), 1 tool call, 2 resumes, 1 verification | `CyclesAreAccounted`, `LongWaitIsHonoured`, `GivenClaimedWorkEnds` |
| `case_late` | 1 worker, 2 clients, no effect | `WaitingHasTimer`, violated |
| `case_reescalated` | 1 worker, an effect, no tool calls | `EscalatedHasFollowup`, violated |
| `registry` | two people, one system, four-eyes duties apart or overlapping, small workbooks (*import*, *config*, *binding*); one Case with two systems and up to three capabilities (*change*, *reading*) | `RegistryIsSound`, `CallsReadTheirSource`, `ProtocolIsProven`, `ChangesAreReviewed`, `PreviewWasTrue`, `ActivationIsUnderstood` |
| `memory` | one experience with two workers and fairness (*index*), a skill and an experience with queries (*search*), two experiences of which a search returns one (*limit*), a skill in two spaces (*spaces*), the operators of `Knowledge` over bounded inputs (*rules*) | `IndexIsSound`, `CandidatesAreRight`, `GuidanceIsSafe`, `RetrievalIsExact`, `EventuallyReady` |
| `inquiry` | three lines of inquiry of four calls, one change and one fault each; verdicts on the money and on two effects, with a full sweep and one more reading; plans for a replay and a redelivery | `InquiryIsSound`, `VerdictIsSafe`, `SweepDecides`, `PlanIsBorneOut` |
| `frames` | two clients of one replica (*shared*), two clients of two replicas while the key rolls twice (*rotation*), a Case evaluated and closed (*closure*), a local cache of one frame (*local*) | `ShownFrameIsTrue`, `QuietBuildSucceeds`, `CursorsSurviveRotation` |
| `agent` | any model with an operator, a lost answer and a resumption (*anything*), a race with an operator and another claim (*race*), a history cut to one item (*compacted*), a run under contention with fairness (*contention*), the offline model during outages of three lengths with fairness (*offline*) | `CallsAreJustified`, `SafetyFirst`, `RunEnds`, `FinalityIsLearned` |

Where one run covers several instances of a component, each is an `INSTANCE` of
it with its own constants, and a behaviour belongs to one of them, chosen in the
initial state. Several properties are conjunctions of named parts, which the
modules state one by one: `RecoveryAgrees` of the lease, index and escalation
parts; `InquiryIsSound` of types, `ConfirmedWasTrue`, `EliminatedWasFalse`,
`AbsenceDecidesNothing`, `NewestReadingDecides`, the graph and provenance;
`VerdictIsSafe` of `PassIsEarned`, `PassIsTrue`, `MoneyIsNotDenied`, `NothingOutstanding`.

Deadlock is checked in `inquiry` and `frames`, whose bounds end in explicit last
steps (`Done`, `Finished`, ...) taken only where nothing more can happen, and in
`agent`, where a run can always be started again. In the others a behaviour may really end: no work is left, the Case
is closed, every request is decided.

**What the less obvious properties say.** `ChangesAreReviewed`: what takes
effect was approved by somebody who neither created nor submitted it, at the
revision they had read. `PreviewWasTrue`: an activated import changes exactly
what its preview showed. `ActivationIsUnderstood`: a change of the source of
payment finality is HIGH_RISK and the impact analysis misses no capability.
`CallsReadTheirSource`: a planned call reads the source of its plan, its answer
comes from the source it reserved, and a draining source serves old Cases only.
`RetrievalIsExact`: a search finds what a scan of the primary records would, or as
many of them as its limit, and nothing revoked enters a result. `VerdictIsSafe`: PASS only where the newest
readings that left evidence, put together, satisfy an oracle the evaluator does
not share code with (4.7 says what a reading that leaves none does), and only
where the world itself satisfies it if none of these readings is older than its
last change. `SweepDecides` is the other direction: PASS after every sweep of a
quiet world that has converged. `CallsAreJustified`:
no call is reserved while an answer is out, nor a fourth time after three equal
failures, although the model proposes it and history was compacted.

**Bounds.** Effects of one Case share only the Case row (`caseOpen`,
`revision`), so one key with every kind of actor reaches the races and the
second key is there for the no-op. Two capabilities and two executors are the
least for a race of two executions; one recoverer that may resume is the least
for a race of execution and recovery; two recoverers and two attempts the least
for a takeover after a lease and for a stale first holder. `MaxMutations = 1`
is one foreign revision, which can fall between any two steps. The theorems of
section 4 have no bounds. Identifiers are permuted by `Symmetry` in safety runs
only.

In `CaseWork`, two workers are the least for a takeover with the first holder
still alive, one client for a run or a call beside a claim, one call for an
answer that is late, lost or recovered. Three work items allow a timer, the
cycle it resumes and what that cycle creates; five allow the chain recheck,
follow-up, timer, verification that `LongWaitIsHonoured` is about, with one to
spare. `MaxClaims` bounds crashes and expiries of one work item; the bound on
work items never cuts a cycle short, because a claim needs room for what it may
create (`ClaimRoom`) and other writers leave it that room; a hand-off without
room ends like a crash (`OutOfRoom`).

In the registry two requests and two previews are the least for a stale review
and a stale import; two activations let a definition change between plan,
reservation and answer. Two embedding workers are the least for a late
completion. An inquiry of four calls allows a good reading, a change or fault, a
second reading of the same tool and one of another tool; eleven calls are one
sweep of all tools, the twelfth repeats one. Two writes and two requests let a
Case move during a build and between two pages; two clients, two replicas and
three keys let one reader's cursor outlive a key while the other client's build
stores the same frame again. Four calls of the agent are the
least for a fourth failure, and `compacted` has five; the offline outages last a
moment, over one pause and over two.

**Fairness.** *Effects*: weak fairness of a running
thread's next step (threads are not suspended for ever), of the claim of a
recoverable effect (the worker loop of `production/workers.py` ticks until it is
told to stop and scans `list_recoverable_effects`), and of the clocks. Nothing
is assumed of operators, new executions, the external system or the network,
and crashes may go on for ever: each uses up an attempt, and `max_attempts` is
what makes `ResolvedOrEscalated` true. *Cases*: the same of
threads and of the worker loop (`poll_due_work`, `claim` per work item), that a
tool call ends by an answer or its timeout, and that a lease nobody renews
expires; nothing of operators, clients, the effect or new observations.
*Memory*: the index worker rescans, a claimable job is claimed again and again
and the provider's calls return; the claim and the reconciler's scan are
strongly fair, because the loop repeats them although a competitor can disable
them in between. *Agent*: a run in progress goes on and the service answers; for
the offline model also the production loop, which resumes a paused Case whose
time has come and runs it.

**Finding: an abandoned attempt can stay open.** `docs/recovery.md` says an
unfinished attempt left by an expired lease is marked LEASE_LOST. The marking
happens inside a successful `claim` only, after its early returns. A recoverer
claims a DISPATCHED effect and dies; the original sender's receipt then settles
the row: no later `claim` gets past the check that the effect is recoverable,
the attempt keeps `completed_at` NULL, and the evaluator counts it as unresolved
recovery, so the Case cannot be evaluated to PASS. The same happens when the
dead attempt was the last one of the budget.

**Finding: a late answer outdates the timer.** `record_call` has no work fence.
A call is on the wire while the agent pauses the Case; its answer is published
afterwards and advances the revision; the timer, bound to the revision of the
pause, is cancelled as stale by the next poll, and the Case is WAITING with
nothing that could wake it (`docs/orchestration.md:29` excludes exactly that
state). The same publication after an INTERRUPTED_RUN escalation leaves a
follow-up that no signal can be submitted for. `PauseKeepsWork` says
that, without an effect, this is the only way to lose the work of a pause; it is
proved for any number of threads and calls (section 4.2).

**Finding: the second escalation for one effect has no follow-up.** An exhausted
effect escalates its Case with a follow-up named after the recheck. When an
operator has acknowledged it and the run it allowed ends with the effect still
unresolved, the report escalates again under the same name; `_create_work`
returns the completed item, and the Case is ESCALATED with no open work item,
against `docs/orchestration.md:190` and `:236`.

Some observations are not findings, because no run contradicts a stated
property. No production process calls `poll_unhanded_reports`, so a crash
between `record` and `consume` leaves a report in the outbox. A call marked
ERROR whose observation never appears keeps its Case from PASS for good. In
`registry_admin/service.py`, `edit` restores credential references from the
draft it replaces, so an edit that drops a system followed by one that restores
it loses the reference (the comment at line 124 says the browser cannot remove
one); and `transition` compares an approver with `created_by` and
`submitted_by` only, so somebody who rewrote a draft that a colleague created
and submitted may approve it (`docs/registry-admin-console.md:86` requires
independent approval at every level of risk).

**Mutants.** For every property of a passing run, `PROJECT.json` names a
definition and a mutated form of it, kept beside the definition, that breaks the
property: a dropped compare-and-set, a missing freshness check, an index that is
not refreshed, a lost hand-off, an empty index read as proof, a preview
confirmed twice, a second read left out, one matching reading taken for all of them.

## 4. What is proved

Every theorem holds for all values of the constants that satisfy the `ASSUME`s
of its module: any number of threads, keys, replicas, people, requests and any
budget. None of the proofs uses a bound of a TLC instance. The assumptions only
give the constants their types, with these exceptions, which the code justifies:
the registry's `NULL` is neither a person nor a number, a deployment's own
definition binds no company system (`DeployedUnbound`: it exists before any
inventory does), the routes and bodies of `DispatchAssumption` are those
pydantic accepts, with finitely many capabilities, and the documents and the
query of `MemoryAssumption` are those the models' validators let through
(`WellFormed`, `WellFormedQuery`: a skill has no source Case, an experience has
one, a query names a Case and an instant). `VerificationAssumption` says beside
types that only a query of PROTOCOL names a version, which the service enforces,
and that the two versions are strings, which the provers do not know. `PausedCaseKeepsWork` is about a Case
without an effect (`HasEffect = FALSE`, a constant), as the property itself is.

| module | theorem | statement |
| --- | --- | --- |
| `EffectProofs` | `TypeCorrect` | `Spec => []TypeOK` |
| | `NeverRegresses` | `Spec => LedgerNeverRegresses` |
| | `SentAtMostOnce` | `Spec => []AtMostOneSend` |
| | `WriteAhead` | `Spec => []LedgerBeforeWire` |
| | `LeaseDiscipline` | `Spec => []RecoveryAgrees` |
| | `NextStepPublished` | `Spec => []NoEffectIsForgotten` |
| | `SettledTruth` | `Spec => []SettledIsTrue` |
| | `ClosureIsFinal` | `Spec => NoEffectAfterClosure` |
| | `AuthorizedDispatch` | `Spec => DispatchIsAuthorized` |
| | `KeepsContract` | `Spec => ImplementsContract` |
| `CaseWorkProofs` | `NoForeignChange` | `Spec => ResumeSeesNoForeignChange` |
| `CaseLifeProofs` | `CaseTyped` | `Spec => []TypeOK` |
| | `ClosedOnItsReport` | `Spec => []ClosedAsEvaluated` |
| | `CyclesPaidFor` | `Spec => []CyclesAreAccounted` |
| | `TimersAreHonoured` | `Spec => WaitIsHonoured` |
| | `PausedCaseKeepsWork` | `HasEffect = FALSE` implies `Spec => []PauseKeepsWork` |
| `RegistryProofs` | `ChangesReviewed` | `Spec => ChangesAreReviewed` |
| | `ImportsAsPreviewed` | `Spec => PreviewWasTrue` |
| | `VersionsStaySound` | `Spec => []RegistryIsSound` |
| | `CallsReadAsMeant` | `DispatchSpec => []CallsReadTheirSource` |
| | `ProtocolProven` | `DispatchSpec => []ProtocolIsProven` |
| | `ActivationsUnderstood` | `DispatchSpec => ActivationIsUnderstood` |
| `FramesProofs` | `FramesShowTheCase` | `Spec => []ShownFrameIsTrue` |
| | `QuietBuildsSucceed` | `Spec => []QuietBuildSucceeds` |
| | `CursorsSurvive` | `Spec => CursorsSurviveRotation` |
| `MemoryProofs` | `FiltersAgree` | `SqlEligible(d, q) <=> Eligible(d, q)` for well-formed `d`, `q` |
| | `IndexSound` | `Spec => []IndexIsSound` |
| | `RetrievalExact` | `Spec => RetrievalIsExact` |
| `InquiryProofs` | `InquirySound` | `Spec => []InquiryIsSound` |
| `VerificationProofs` | `VerdictStaysSafe` | `VSpec => []VerdictIsSafe` |

### 4.1 The effect boundary

*Types.* `TypeOK` is not inductive: nothing in it says that a thread in the
middle of a dispatch has a key and a capability, or that a row that exists names
its capability. `TypeInv` adds `JobShape` (what a thread's program counter says
of its locals) and `RowShape` (what a row's status says of its columns).

*No regression.* `LedgerSteps` classifies every step by what it does to the
ledger: it leaves a row alone, or makes one of the five moves of `LedgerMove`
(insert, dispatch, settle by the sender, settle by recovery, give up to
UNKNOWN), each with its source and target status. `NeverRegresses` reads the
order of `Rank` off that list.

*One send, after the ledger.* `SendInv` counts permissions: a row that was not
dispatched has no sender and no request; a dispatched row has at most one thread
at `send`, and if there is one nothing has been sent; what was sent or happened
remotely belongs to a row with `attempts = 1`. It is preserved because a new
sender only comes from the PREPARED -> DISPATCHED compare-and-set. `QuietSteps`
shows once that all other steps neither create a sender nor touch the wire.

*Leases and attempts.* `RecoveryAgrees` speaks of some open attempt under a live
lease; the inductive `RecoveryInv` names it, the one the row's token points at.
A takeover closes what the old token pointed at in the transaction that moves
the token, which is why two attempts are never open.

*Settled rows are true.* A thread may hold a receipt, and an attempt a persisted
lookup answer, for any length of time before either reaches the ledger.
`TruthInv` says that all three, row, answer and receipt, are true of the
external system *now*: what they claim (applied, rejected, closed for good) is
stable there. NOT_FOUND claims something only under the strong contract of the
resolver, and the proof covers both.

*Closure and authorization.* `ClosedInv`: a closed Case has no unresolved row.
Nothing creates one afterwards, since `prepare` needs an open Case and every
other write starts from an unresolved row; so nobody can send, and what was on
the wire was settled or closed. `PreparedInv` recovers what
`dispatch_prepared` compares only indirectly, that the revision of the prepare
is one above the revision of the capability. `DispatchIsAuthorized` is the
property that the run checks in its gated instance as `GatedDispatchIsAuthorized`.

*The contract.* `KeepsContract` is the step simulation of `EffectContract`: each
step of the boundary is, for each key, a step of the contract or a stutter under
the mapping of `EffectRefinement`. Beside `SendInv` and `TruthInv` it needs
`WireInv`: a request in flight or an outcome at the external system shows that
the permission to send was spent.

### 4.2 The Case between its investigations

*A resume sees no foreign change.* The code compares the Case only with the
work item's `expected_revision`, a column `recover_if_owned` itself moves. The
invariant `Inv` says what the column means: for every work item, `expRev` is
`created + rebased`, its creation revision plus the reads its own claims
published. The functions that transactions are built from (`create_work`,
`Ends`, `escalate_in`, `ensure_recovery_work`, `RouteAll`, ...) are shown one by
one to keep the table balanced and to resume nothing. Only `ResumeCommits`
resumes, and its guard `expRev = case.rev` turns the invariant into the property.

*Types.* `LifeInv` ties three tables together. A row obeys the protocol of its
claims (`RowOK`: claimed, recovered, resumed and started in that order); at most
one row is claimed, and a resumed one leaves room for the idle cycle it may turn
out to be (`ClaimOK`); what a thread believes of its row is still so
(`ThreadOK`), because rows are never overwritten: new work goes to a free slot,
and each transaction that creates work found room for it. The last point is why
the proof counts free slots (`HasRoom`).

*Closure and cycles.* Three facts about a step carry both proofs: only `close`
makes a Case terminal; a terminal Case, its calls, its effect and its reports do
not move any more; only `ResumeCommits` resumes a work item, and it pays one
unit of the quota.

*Timers.* Only the order of the rows says which work is older than a timer, so
the invariant `Timely` is about that order, which the code never reads: rows are
created without gaps; a timer expects a later revision than every row before it
(the pause that creates it takes a new revision, and `recover_if_owned` moves
only a row that expects the latest one); a verification created while a timer
runs is not due before it; a follow-up waits for a signal. Work resumed in a
waiting Case is then no older than the timer, for it would be stale, and no
younger: a verification is dated after the timer, a follow-up needs an operator,
a recheck is never resumed. `Grows`, the relation in which each transaction is
followed, carries the invariant through the nested functions.

*What a pause leaves.* `PauseInv` says which rows can still wake a paused Case,
and why their names are free when they are created. `create_work` returns the
existing row when the name was used, completed or not; that a pause never meets
such a row is the content of `Keyed`: a decision is named after a revision,
which the Case reaches once, and a follow-up after a work item that has ended.
A row `Waits` if it is open, was never resumed and expects the status and the
revision that the Case has. Ending a row that does not wait takes nothing away (`EndKeeps`); every step that ends a waiting
row either moves the Case out of its pause or creates another in the same
transaction. The revision of a paused Case moves by a late answer only
(`NoLate`), which makes every decision stale: that is the finding of section 3
and the exception in the property. With an effect the statement is false, as the
second finding about escalations shows.

### 4.3 The registry

*Changes are reviewed.* Four eyes only help if the approver saw what is
activated. `AdminInv` says that whoever read a request at its current revision
read its current content (`SawIt`), and that an approved request has in the
audit log the submission and the approval, by a third person, of exactly the
content it holds (`Reviewed`); every edit returns it to a draft.

*Imports do what their preview showed.* `PreviewInv`: a preview is true of the
inventory it was made for, so it is true at activation, which compares the
inventory revision; a confirmed request carries the rows of a preview.

*Versions stay sound.* `RowsOK` follows company codes and credential references
through edits, imports and rollbacks: every registered version refers to known
systems, although the inventory it was checked against has grown since.

*Dispatch.* `CallsInv`: a planned call's source is what the snapshot's version
resolves for the snapshot's route, and the client that answered is the one bound
to the reservation. `RouteInv`: each later revision of the route rests on an
observed call, answered under an earlier revision, and observed calls are never
written again. `ActivationsUnderstood` compares the two definitions before and
after an activation: where none of the capabilities that could serve a tool or a
claim is among those `Differing` lists, both definitions have the same candidates
with the same rules, and the choice among them is the same.

### 4.4 The frames

*What a reader is shown.* `FrameInv` describes a build at each of its steps
(`RequestOK`): what was read is a sound Case and, while nothing moved, the
current one; a projected frame's epoch is not in the future; what the second
read confirmed is among the Cases since the projection; a finished walk has
collected a prefix of the frame's items and its cursor points behind it. A
stored frame was inserted no earlier than its epoch (`RowOK`), which with
`expires = inserted + TTL` gives `QuietBuildSucceeds`: a frame of the current
epoch cannot have expired, so the insert that does nothing on conflict never
leaves an expired row in the way. `ClosureOK` is what makes the closure binding
of a frame hold for good.

*Cursors.* `KeyInv` relates keys, time and expiry: every replica has the newest
key or the one before; what the key before the newest signed expires within one
lifetime after the last replica gave it up; what an older key signed has
expired. The wait of one lifetime between rollouts is exactly what preserves it.

### 4.5 The index

*Filters.* `FiltersAgree`: the SQL over the columns of an index row and the
Python recheck of the primary record decide alike. They are written in opposite
styles (a list of conditions to meet, a list of reasons to reject), and compare
NULL differently; the proof goes field by field.

*The index.* Every write that could leave an index incomplete is counted
(`Tick`: a counter that stands still means that what was indexed stays indexed).
So a count taken together with a complete index vouches for it as long as the
counter has not moved. `MemInv` says this of the three places that keep such a
count: a reconciler's snapshot (`SnapshotsOK`), the row it stored (`RowsVouch`,
from which `ReadyMeansComplete` follows) and an admitted query (`QueryOK`). A
token is given out once (`ClaimsOK`), so a job has at most one worker whose
answer is accepted.

*Retrieval.* `RetrievalExact` is the step property: a search returns only
eligible active documents, all of them (or as many as its limit) when the counter
is still the one of the admission, and the recheck lets nothing through that was retired since.

### 4.6 The inquiry

*The world.* `FramesOK`: every frame keeps the invariants of its parties
(`WorldOK`) and, after the six frames that a scenario seeds, the world only goes
one way (`Evolves`: a transaction's time does not change, a consumed message
stays consumed, nothing that ended starts again). Each change of the benchmark is
shown to be such a step (`Orderly`).

*The observations.* `Faithful`: whatever faults are active, an observation that
calls itself OK and CURRENT came from the primary and holds the frame of the
instant it was made; everything else admits what it is. The faults show up as
statuses, sources and freshness, never as a wrong current answer. `ObservationsOK`
adds that instants identify observations, and `ProvenanceHolds` that the stored
rows are exactly what the extraction yields from the recorded observations.

*The conclusions.* From these, without any fact about the order of the calls:
what counts as current evidence was read at one call, so a confirmed hypothesis
was true, and an eliminated one false, of the world at the instant of a call; a
MATCH of the payment's identity compared every field that the Case expects; a
verdict rests on facts that no newer reading of the primary contradicts and no
failed lookup challenges. `InquirySound` states this of the graph
after every call, for every set of scenarios, faults and changes and any number
of calls; the run has four.

*The verdict.* `VerdictInv` has three parts. `RecordInv`: the answers that were
published, together with those the service keeps, are faithful to the frames
(`Recorded`, the same `FramesOK` and `ObservationsOK`); a loss and a late
publication move an answer from one side to the other and leave the union alone,
and an effect of the adapter is a change as `Orderly` as a fixture's.
`EffectsInv`: effects are those of the two repairs. `ReportInv`: a report is what
the evaluator says of the present record. The proof of `VerdictStaysSafe` then
has two halves. The first reads a PASS back through the dimensions to the checks
(`PassMeans`, `ExpectPasses`, `CallbackPasses`, `EffectPasses`,
`SufficiencyPasses`). The second shows what the evaluator's evidence is: all the
claims of the observations that are the last of their tool and version
(`NewestIsLast`, `LastIsNewest`) and recent answers of the primary
(`UsableIsKnown`), so that the lemmas of the inquiry apply to it
(`PaymentIsOwn` cites `MatchIsRight`). `PassIsTrue` adds that an answer of the
primary made after the last change shows the last frame.

### 4.7 What the proofs found

Five statements were wrong or weaker than meant as first written, and TLC had
not noticed because of its bounds or of how it evaluates:

- `CursorsSurviveRotation` said that a cursor is refused only during a rollout.
  It is not so: a slow build can store anew a frame that had expired, and a
  reader with a cursor of the first storing, signed by a key retired since,
  finds the frame and is refused. One client cannot show this; the *rotation*
  instance has two now and the property speaks of the lifetime of the frame that
  the reader was answered with.
- `Outcome` of an activation compared all rules of a source and called a change
  of an unrelated claim's rule a different outcome; it compares the claim's own.
- `PauseKeepsWork` was stated of moments at which no thread is in the middle of
  anything. The proof did not need that, and the property now holds after every
  step of every thread.
- The verdict's property spoke of the newest reading of each tool. Preparing its proof
  showed that the evaluator does not use it in one corner. A list of no messages
  leaves no evidence (`evidence/extractor.py:107`), not even when it is the answer
  of a stale cache, and `latest_observation_evidence`
  (`evaluation/snapshot.py:37`) looks for the last observation among the evidence.
  An older list that shows the message as CONSUMED then stays current, and the
  verdict can be PASS, where `docs/evaluator.md:79` says that a later stale cache
  must not bring back an earlier success. TLC shows it as soon as `FaultMenu` of
  the subject *verdict* has a fault of kind OLD_CACHE for MESSAGES. The property
  now speaks of the newest reading that left evidence, for each version asked
  for, holds with that fault too, and names the two readings of the gateway's
  callback that count side by side, CALLBACK and CALLBACK_RAW.
- `check_recovery_work` and `RouteEffect` were `CASE`s with overlapping guards,
  of which TLC takes the first and logic takes either; they are `IF`s, in the
  order of the code.

The cache of a replica was also completed by what its restart loses and by the
pruning before an insert. `MemoryAssumption` did not say what a validated
document looks like, on which the agreement of the filters depends. Some
definitions were rewritten, without a change of meaning, for operators that the
provers cannot expand: `ContentAt`, `MergeRecords`, `Differing` and
`ReadDefinition`, and the functions of one parameter with which `Evidence` and
`World` build sets of claims and frames (`emit`, `snapshots`).

### 4.8 Only model-checked

Liveness (`ResolvedOrEscalated`, `GivenClaimedWorkEnds`, `EventuallyReady`,
`RunEnds`, `FinalityIsLearned`): fairness and ENABLED are out of the prover's
reach. `GuidanceIsSafe`, the ranking half of `CandidatesAreRight` and
`PlanIsBorneOut` rest on sorting, selecting and summing by folds and recursion,
about which the provers have no induction; the other half of
`CandidatesAreRight` is `FiltersAgree`. The properties of `agent` reach the
planner, which is recursive, through the modules they are stated in. `SweepDecides`
is no theorem: an effect that was applied must still be seen at its target, and a
world in which the delivery's record is removed and the disbursement called off
afterwards has converged while its verdict stays INCONCLUSIVE. TLC checks it where
the changes of the instance do not do that. `LongWaitIsHonoured` and
`GatedDispatchIsAuthorized` are the names that two runs give, each in one of their
settings, to what `TimersAreHonoured` and `AuthorizedDispatch` prove.

### 4.9 How far the properties reach

Where a property says less than its subject suggests:

- `RegistryIsSound` covers credential references that appear or change, not the
  one that is lost when edits drop a system and restore it (section 3).
- `ProtocolIsProven` speaks of the source and the route that a promoted answer was
  read from and of what else a promotion changes. That no later failed lookup and no replaced source stood against it
  when it was made is in the guard `Verified` and in no property.
- `RetrievalIsExact` says that nothing is missing up to the limit of a search. With
  more eligible documents than that, which of them are found is not its subject.
- `VerdictIsSafe` takes as newest the newest reading that left evidence (4.7).
- `CursorsSurviveRotation` and `CursorsSurvive` rest on the operational rule that a
  cursor key is replaced no sooner than one lifetime after the last rollout has
  ended; the code does not enforce it.
- `CallsAreJustified` and `FinalityIsLearned` rest on one clock (2.7). If the
  orchestrator's is ahead of the sources', failures read soon after a resumption
  are not counted; if it is behind, failures of before the pause still are.

## 5. What is not modelled

Cryptographic signing, hashing and canonical JSON (identities either match or
do not); the text of prompts and answers, and the character budget of a prompt;
run traces and checkpoints; the projection of a closed Case into an experience
and the aggregation of experiences into a skill draft; the database engine (its
serialisation of transactions on the Case row and the registry head is the
atomicity of the actions); HTTP, authentication, settings, migrations, the
console, and the measuring part of the benchmark. The evaluator is modelled in
`Evaluation`, but in `CaseWork` its verdict is a choice; the tool calls of
`CaseWork` return no values, while those of `Agent` do. `PROJECT.json` lists
every component with the reason.

## 6. Plan

Done: all components of the table above; theorems about the effect boundary with
its contract, the Case between its investigations, the registry and its
administration, the frames, the index of memories, the inquiry and the verdict.

1. `Proposal`: the parts of `PlanIsBorneOut` that do not depend on the ranking of
   a plan's steps, from `InquiryInv`.
2. `Agent`: the steps that depend on no rule (one publication per call, the
   budget, no call reserved while an answer is out), in a module that does not
   reach the planner.
3. `CaseWork` composed with the contract of the effect boundary: the moves of
   its `effect` shown to be those of `EffectContract`.

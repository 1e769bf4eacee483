-------------------------------- MODULE Agent --------------------------------
(***************************************************************************)
(* The autonomous investigation: runs of the agent on one Case of a moving *)
(* world.  A turn loads the Case, asks a model, loads again, revalidates,  *)
(* and commits one tool call or one pause against the Case row it has      *)
(* read.  Beside it an operator calls tools through the API, another       *)
(* worker claims the Case, answers are late or lost, the process dies, and *)
(* an orchestrator resumes a paused Case.  World, faults, evidence and     *)
(* hypotheses are those of Inquiry, the judgement that of Planner.         *)
(***************************************************************************)
EXTENDS Planner, Inquiry

CONSTANTS
  Model,        \* "fake": the offline model; "any": a model that proposes anything
  MaxTurns, MaxReplans, MaxNoProgress,   \* AgentRunConfig
  WaitTime,     \* seconds between a pause and its resumption
  MaxOperator,  \* bound: calls of the operator
  MaxLost,      \* bound: calls whose answer is lost, and crashes
  MaxFences,    \* bound: changes of another worker's claim
  MaxResumes    \* bound: resumptions

ASSUME AgentAssumption ==
  /\ Model \in {"fake", "any"}
  /\ {MaxTurns, MaxNoProgress, WaitTime} \subseteq Nat \ {0}
  /\ {MaxReplans, MaxOperator, MaxLost, MaxFences, MaxResumes} \subseteq Nat

VARIABLES
  case,    \* the Case row: status, budget, revision, start of the retry window
  calls,   \* its tool calls, in the order of their reservation
  run,     \* the agent's run
  env      \* how often operator, losses, fences and resumptions happened; the claim

agentVars == <<vars, case, calls, run, env>>

Runnable == {"NEW", "INVESTIGATING"}

NewCase == [status |-> "NEW", used |-> 0, max |-> MaxCalls, rev |-> 0, retry |-> NoTime]

\* `read' is the Case row the last load saw, `planned' the snapshot the model
\* was shown, `choice' the action selected, `before' what the turn began with.
NoRun == [pc |-> "idle", turn |-> 0, attempt |-> 0, idle |-> 0,
          read |-> NewCase, planned |-> [case |-> NewCase, rows |-> 0],
          choice |-> {}, call |-> 0, stop |-> "NONE",
          before |-> [evidence |-> {}, retry |-> NoTime]]

AgentInit ==
  /\ Init
  /\ case = NewCase /\ calls = <<>> /\ run = NoRun
  /\ env = [operator |-> 0, lost |-> 0, fences |-> 0, resumes |-> 0, fenced |-> FALSE]
Simulation == <<frames, faults, changed, added>>
Findings == <<observations, stored, graph>>

\* The snapshot of a load whose Case row was read before the evidence.
Snap == Snapshot(run.read, stored, graph)

\* Evidence is only added, so its size identifies it.
SnapshotId == [case |-> run.read, rows |-> Cardinality(stored)]

\* Publishes the answers of the calls in `is', in order, into the evidence.
Publish(is) ==
  LET answer(i) == CHOOSE o \in calls[i].answer : TRUE
      inOrder == SetToSortSeq(is, LAMBDA i, j : i < j)
  IN  /\ stored' = FoldLeft(LAMBDA rows, i : record_call(rows, answer(i)), stored, inOrder)
      /\ observations' = observations \cup {answer(i) : i \in is}
      /\ graph' = IF is = {} THEN graph ELSE Graph(stored', TRUE)
      /\ calls' = [i \in DOMAIN calls |-> IF i \in is THEN [calls[i] EXCEPT !.state = "OBSERVED"]
                                          ELSE calls[i]]
      /\ case' = [case EXCEPT !.rev = @ + Cardinality(is)]

(***************************************************************************)
(* The run.                                                                *)
(***************************************************************************)
Stop(reason) ==
  run' = [NoRun EXCEPT !.stop = reason]

\* before_investigation: the calls nobody heard of again are published if
\* the service has stored an answer to them, whoever made them.
StartRun ==
  /\ run.pc = "idle"
  /\ Publish({i \in DOMAIN calls : calls[i].state \in {"DISPATCHED", "ERROR"}
                                   /\ calls[i].answer # {}})
  /\ run' = [NoRun EXCEPT !.pc = "load", !.turn = 1]
  /\ UNCHANGED <<Simulation, clock, env>>

\* load_current_context reads the Case row first and the evidence in a later
\* transaction; a turn that finds the Case paused ends the run.
Load ==
  /\ run.pc = "load"
  /\ IF run.attempt = 0 /\ case.status \notin Runnable THEN Stop("RUNTIME_SAFETY_STOP")
     ELSE run' = [run EXCEPT !.pc = "plan", !.read = case]
  /\ UNCHANGED <<vars, case, calls, env>>

Reload ==
  /\ run.pc = "planned"
  /\ run' = [run EXCEPT !.pc = "check", !.read = case]
  /\ UNCHANGED <<vars, case, calls, env>>

\* The drafts a model may return: the offline model's, or one candidate of
\* any kind; an empty one stands for a draft that violates the schema.
Drafts(s) ==
  LET names == {g.name : g \in s.gaps}
      targets == IF names = {} THEN {} ELSE {names} \cup {{n} : n \in names}
  IN  IF Model = "fake" THEN {fake_plan(s)}
      ELSE {{}} \cup {{CallTool(1, q.tool, q.version, t, Capability(q.tool))}
                      : q \in Queries, t \in targets}
           \cup {{Defer(1, k, t, r, "NONE")}
                 : k \in {"WAIT", "ESCALATE"}, t \in targets,
                   r \in {"REPEATED_SOURCE_FAILURE", "NO_AVAILABLE_TOOL"}}

\* The model is asked about the snapshot just loaded, and its answer judged
\* against it; it is not asked twice about one snapshot.
Ask(attempt) ==
  IF attempt > 0 /\ SnapshotId = run.planned THEN Stop("STALE_REPLAN_EXHAUSTED")
  ELSE \E draft \in Drafts(Snap) :
         IF draft = {} THEN Stop("PLANNER_UNAVAILABLE")
         ELSE run' = [run EXCEPT !.pc = "planned", !.planned = SnapshotId, !.attempt = attempt,
                                 !.choice = plan(Snap, draft),
                                 !.before = IF attempt = 0
                                            THEN [evidence |-> stored, retry |-> run.read.retry] ELSE @]

Plan ==
  /\ run.pc = "plan"
  /\ Ask(run.attempt)
  /\ UNCHANGED <<vars, case, calls, env>>

\* RuntimeActionRevalidator.validate.  A stale plan is made anew from the
\* snapshot that showed it to be stale; a turn that was stale once and then
\* finds its new plan refused keeps the earlier reason to stop.
Revalidate ==
  /\ run.pc = "check"
  /\ IF run.choice = {} THEN Stop("SAFE_NO_ACTION")
     ELSE IF SnapshotId # run.planned
          THEN IF run.attempt = MaxReplans THEN Stop("STALE_REPLAN_EXHAUSTED")
               ELSE Ask(run.attempt + 1)
     ELSE IF \/ run.read.status \notin Runnable
             \/ \E c \in run.choice : policy_filter(Snap, c) # {}
          THEN Stop(IF run.attempt = 0 THEN "RUNTIME_SAFETY_STOP" ELSE "STALE_REPLAN_EXHAUSTED")
     ELSE run' = [run EXCEPT !.pc = "ready"]
  /\ UNCHANGED <<vars, case, calls, env>>

\* Mutant: only the status is compared.
precondition_status == ~env.fenced /\ case.status = run.read.status /\ case.used < case.max

\* The conditional UPDATE: nobody else holds the Case, and its row is the
\* one the revalidation has read.
precondition == ~env.fenced /\ case = run.read

Reserve ==
  /\ run.pc = "ready"
  /\ \E c \in run.choice :
       /\ c.type = "CALL_TOOL" /\ precondition /\ case.used < case.max
       /\ calls' = Append(calls, [tool |-> c.tool, version |-> c.version, by |-> "agent",
                                  state |-> "DISPATCHED", answer |-> {}])
  /\ case' = [case EXCEPT !.status = "INVESTIGATING", !.used = @ + 1, !.rev = @ + 1]
  /\ run' = [run EXCEPT !.pc = "calling", !.call = Len(calls')]
  /\ UNCHANGED <<vars, env>>

Pause ==
  /\ run.pc = "ready"
  /\ \E c \in run.choice :
       LET status == IF c.type = "WAIT" THEN "WAITING" ELSE "ESCALATED"
       IN  /\ c.type # "CALL_TOOL" /\ precondition
           /\ case' = [case EXCEPT !.status = status, !.rev = @ + 1]
           /\ Stop(status)
  /\ UNCHANGED <<vars, calls, env>>

\* Mutant: a failed attempt starts the turn anew.
Retry_uncounted == run' = [run EXCEPT !.pc = "load", !.attempt = 0]

Retry ==
  IF run.attempt = MaxReplans THEN Stop("STALE_REPLAN_EXHAUSTED")
  ELSE run' = [run EXCEPT !.pc = "load", !.attempt = @ + 1]

PreconditionFailed ==
  /\ run.pc = "ready" /\ ~precondition
  /\ Retry
  /\ UNCHANGED <<vars, case, calls, env>>

Observed ==
  /\ run.pc = "calling" /\ calls[run.call].answer # {}
  /\ Publish({run.call})
  /\ run' = [run EXCEPT !.pc = "ended"]
  /\ UNCHANGED <<Simulation, clock, env>>

\* The answer does not arrive, whether or not the service has stored it.
CallFails ==
  /\ run.pc = "calling" /\ env.lost < MaxLost
  /\ calls' = [calls EXCEPT ![run.call].state = "ERROR"]
  /\ Stop("TOOL_EXECUTION_ERROR")
  /\ env' = [env EXCEPT !.lost = @ + 1]
  /\ UNCHANGED <<vars, case>>

\* The evidence and the lookup history: hypotheses, identity, gaps and facts
\* are functions of them.
knowledge_progress(before, after) ==
  \/ before.evidence # after.evidence
  \/ lookup_groups(before.evidence, before.retry) # lookup_groups(after.evidence, after.retry)

EndTurn ==
  LET progressed == knowledge_progress(run.before, [evidence |-> stored, retry |-> case.retry])
      idle == IF progressed THEN 0 ELSE run.idle + 1
  IN  /\ run.pc = "ended"
      /\ IF idle >= MaxNoProgress THEN Stop("NO_KNOWLEDGE_PROGRESS")
         ELSE IF run.turn = MaxTurns THEN Stop("MAX_TURNS_REACHED")
         ELSE run' = [NoRun EXCEPT !.pc = "load", !.turn = run.turn + 1,
                                   !.idle = idle]
      /\ UNCHANGED <<vars, case, calls, env>>

(***************************************************************************)
(* Everybody else.                                                         *)
(***************************************************************************)
\* The tool service answers, perhaps after its client has given up.
Serve ==
  \E i \in DOMAIN calls :
    /\ calls[i].state # "OBSERVED" /\ calls[i].answer = {}
    /\ clock' = clock + 1
    /\ calls' = [calls EXCEPT ![i].answer =
                   {observe(frames, faults, clock + 1, calls[i].tool, calls[i].version)}]
    /\ UNCHANGED <<Simulation, Findings, case, run, env>>

\* The API's execute: no snapshot, no policy, no expected revision.
OperatorCalls ==
  /\ env.operator < MaxOperator /\ ~env.fenced
  /\ case.status \in Runnable /\ case.used < case.max
  /\ \E q \in Queries :
       /\ q.tool \in AllowedTools
       /\ calls' = Append(calls, [tool |-> q.tool, version |-> q.version, by |-> "operator",
                                  state |-> "DISPATCHED", answer |-> {}])
  /\ case' = [case EXCEPT !.status = "INVESTIGATING", !.used = @ + 1, !.rev = @ + 1]
  /\ env' = [env EXCEPT !.operator = @ + 1]
  /\ UNCHANGED <<vars, run>>

OperatorObserves ==
  /\ \E i \in DOMAIN calls :
       /\ calls[i].by = "operator" /\ calls[i].state = "DISPATCHED" /\ calls[i].answer # {}
       /\ Publish({i})
  /\ UNCHANGED <<Simulation, clock, run, env>>

Crash ==
  /\ run.pc # "idle" /\ env.lost < MaxLost
  /\ Stop("CRASHED")
  /\ env' = [env EXCEPT !.lost = @ + 1]
  /\ UNCHANGED <<vars, case, calls>>

\* Another worker claims a work item of the Case, or lets go of it.
Fence ==
  /\ env.fences < MaxFences
  /\ env' = [env EXCEPT !.fences = @ + 1, !.fenced = ~@]
  /\ UNCHANGED <<vars, case, calls, run>>

\* The orchestrator ends a pause and opens a new window for lookups.  The code
\* writes its own time and compares it with that of the sources' readings: one
\* clock stands for both, which are taken to agree.
Resume ==
  /\ case.status \notin Runnable /\ env.resumes < MaxResumes
  /\ clock' = clock + WaitTime
  /\ case' = [case EXCEPT !.status = "INVESTIGATING", !.rev = @ + 1, !.retry = clock']
  /\ env' = [env EXCEPT !.resumes = @ + 1]
  /\ UNCHANGED <<Simulation, Findings, calls, run>>

Environment ==
  /\ \/ \E c \in Changes : progress(c)
     \/ \E f \in FaultMenu : add_fault(f)
  /\ UNCHANGED <<case, calls, run, env>>

RunSteps ==
  \/ Load \/ Plan \/ Reload \/ Revalidate
  \/ Reserve \/ Pause \/ PreconditionFailed \/ Observed \/ EndTurn

AgentNext ==
  \/ StartRun \/ RunSteps \/ CallFails
  \/ Serve \/ OperatorCalls \/ OperatorObserves
  \/ Crash \/ Fence \/ Resume \/ Environment

AgentSpec == AgentInit /\ [][AgentNext]_agentVars

\* When the run, the service, a new run and a resumption are possible.
CanRun == \/ run.pc \notin {"idle", "calling"}
          \/ run.pc = "calling" /\ calls[run.call].answer # {}
CanServe == \E i \in DOMAIN calls : calls[i].state # "OBSERVED" /\ calls[i].answer = {}
CanStart == run.pc = "idle"
CanResume == case.status \notin Runnable /\ env.resumes < MaxResumes
(***************************************************************************)
(* Properties.                                                             *)
(***************************************************************************)
Reserved(i) == i = Len(calls) + 1 /\ calls'[i].by = "agent"

\* Every answer any source has given to query q since the last resume.
Given(q) ==
  {o \in UNION {calls[i].answer : i \in DOMAIN calls} :
     o.tool = q.tool /\ o.version = q.version /\ o.seen >= case.retry}

\* The agent never asks a fourth time for what has failed in the same way
\* three times in a row since the last resume, although the model proposes
\* it, history is compacted away, and answers arrive late, by another's call
\* or after a crash (planner/policy.py, context/compaction.py).
NoFourthFailure(q) ==
  \A status \in {"TIMEOUT", "NOT_FOUND"} :
    Cardinality({o \in Given(q) : \A p \in Given(q) : p.seen >= o.seen => p.status = status}) < 3

\* The agent reserves no call while the answer of an earlier call of the
\* Case, its own or the operator's, is out or lost: whatever it does not
\* know yet could be the reason not to ask.
AnswersAreIn == \A j \in DOMAIN calls : calls[j].state = "OBSERVED"

\* Every call the agent reserves is justified by all that is known of the
\* Case when it is reserved, not by what the model was shown.
CallsAreJustified ==
  [][\A i \in DOMAIN calls' : Reserved(i) => AnswersAreIn /\ NoFourthFailure(calls'[i])]_agentVars

\* At the moment it commits to a call or a pause, the agent serves an open
\* safety question some tool of the Case could help with, if there is one:
\* the call's tool addresses it, the pause names it.  Evidence published
\* since the model was asked counts.
ServesSafety ==
  LET safety == actionable_safety(Snapshot(case, stored, graph))
  IN  safety # {} =>
        /\ \A i \in DOMAIN calls' : Reserved(i) => \E g \in safety : Addresses(calls'[i].tool, g)
        /\ run'.stop \in {"WAITING", "ESCALATED"} /\ run.stop = "NONE"
           => \E c \in run.choice : \E g \in safety : g.name \in c.targets
=============================================================================

------------------------------ MODULE Proposal ------------------------------
(***************************************************************************)
(* The remediation planner at work beside an investigation: a plan reads   *)
(* the Case, validates the candidates of a draft against that reading,     *)
(* previews each on a fresh reading, and decides on a third one.  Between  *)
(* any two of these the Case may record a call, be closed, or the world    *)
(* may change.  The properties say what the evidence of the calls must     *)
(* show when an intent comes out.                                          *)
(***************************************************************************)
EXTENDS Inquiry, Remediation

CONSTANTS
  Sweep,     \* the order of the first readings
  Drafts,    \* the drafts a model may return: sequences of proposals
  MaxPlans   \* bound on plans

ASSUME ProposalAssumption ==
  /\ MaxPlans \in Nat
  /\ \A d \in Drafts : \A i \in DOMAIN d : d[i].action \in RemediationActionType

VARIABLES
  status,    \* the Case's status
  plan,      \* the plan under way: candidates still to preview, results so far
  plans,     \* number of plans
  decision   \* the decision of this instant, if there is one

proposalVars == <<status, plan, plans, decision>>

NoPlan == [open |-> FALSE, begun |-> <<>>, todo |-> <<>>, results |-> {}]

NoDecision == [made |-> FALSE, intent |-> {}, results |-> {}, begun |-> <<>>]

\* The snapshot identity covers the Case row and all its evidence.
SnapshotId == <<Cardinality(observations), status>>

StateNow == State(status, stored, SnapshotId)

PIdle == status = "INVESTIGATING" /\ plan = NoPlan /\ plans = 0 /\ decision = NoDecision

PInit == Init /\ PIdle

PlanQuery ==
  LET i == Cardinality(observations) + 1
  IN  IF i > Len(Sweep) THEN Queries ELSE {[tool |-> Sweep[i], version |-> "NONE"]}

PCall ==
  /\ \E q \in PlanQuery : Call(q)
  /\ status \notin TerminalStatus
  /\ decision' = NoDecision
  /\ UNCHANGED <<status, plan, plans>>

PProgress ==
  /\ \E c \in Changes : progress(c)
  /\ decision' = NoDecision
  /\ UNCHANGED <<status, plan, plans>>

\* An operator takes the Case over, or it is closed.
SetStatus(next) ==
  /\ status = "INVESTIGATING"
  /\ status' = next
  /\ decision' = NoDecision
  /\ UNCHANGED <<vars, plan, plans>>

\* The candidate a model proposes cites the evidence it was shown: all of
\* it, or the current part.
candidate(s, p) ==
  [action |-> p.action, problems |-> p.problems,
   cited |-> IF p.cites = "ALL" THEN s.index.all ELSE s.index.now]

ValidDraft(s, draft) ==
  IF Eligibility(s).can_plan
  THEN SelectSeq([i \in DOMAIN draft |-> Validate(s, candidate(s, draft[i]))],
                 LAMBDA v : v.reasons = {})
  ELSE <<>>

\* The reading, the eligibility, the draft and its validation.
plan_begin(draft) ==
  /\ ~plan.open /\ plans < MaxPlans
  /\ plan' = [open |-> TRUE, begun |-> SnapshotId, results |-> {},
              todo |-> ValidDraft(StateNow, draft)]
  /\ plans' = plans + 1
  /\ decision' = NoDecision
  /\ UNCHANGED <<vars, status>>

plan_preview ==
  /\ plan.open /\ plan.todo # <<>>
  /\ plan' = [plan EXCEPT !.todo = Tail(@), !.results = @ \cup {Preview(StateNow, Head(plan.todo))}]
  /\ decision' = NoDecision
  /\ UNCHANGED <<vars, status, plans>>

plan_decide ==
  LET results == {Recheck(p, SnapshotId) : p \in plan.results}
  IN  /\ plan.open /\ plan.todo = <<>>
      /\ decision' = [made |-> TRUE, intent |-> Best(results), results |-> results, begun |-> plan.begun]
      /\ plan' = NoPlan
      /\ UNCHANGED <<vars, status, plans>>

PDone ==
  /\ ~plan.open /\ plans = MaxPlans
  /\ UNCHANGED <<vars, proposalVars>>

PNext ==
  \/ PCall \/ PProgress
  \/ \E s \in {"ESCALATED", "CLOSED"} : SetStatus(s)
  \/ \E d \in Drafts : plan_begin(d)
  \/ plan_preview \/ plan_decide
  \/ PDone

PSpec == PInit /\ [][PNext]_<<vars, proposalVars>>

(***************************************************************************)
(* Properties.                                                             *)
(***************************************************************************)
\* What the newest call of `tool' showed, if the primary answered it.
Shown(tool) ==
  UNION {o.data : o \in {x \in observations :
    /\ x.tool = tool /\ x.status = "OK" /\ x.source = "PRIMARY"
    /\ \A y \in observations : y.tool = tool => y.seen <= x.seen}}

Intends(action) == \E p \in decision.intent : p.validated.candidate.action = action

PaidRight ==
  /\ \E w \in Shown("PAYMENT") : RightPayment(w)
  /\ Shown("TRACE") \cup Shown("GUARANTEE") # {}

\* The newest readings bear out a replay: the right payment settled, the
\* callback arrived signed, its message failed, and whoever failed on its
\* schema is attested to accept it by now.
ReplayBorneOut ==
  /\ PaidRight
  /\ \E w \in Shown("CALLBACK"), x \in Shown("MESSAGES") :
       \E g \in w.gateway, m \in x.messages :
         /\ g.signed /\ m.event = g.event /\ m.status = "FAILED"
         /\ m.error # {} => Attested

RedeliveryBorneOut ==
  /\ PaidRight
  /\ \E w \in Shown("GUARANTEE") : w.guarantee.status = "SUCCESS"
  /\ \E w \in Shown("ASSET") : w.asset.status = "PROCESSING"
  /\ \E w \in Shown("ASSET_DELIVERY") : w.delivery.status = "FAILED" /\ w.delivery.ref # "NONE"

\* An intent of an effect comes out only on evidence that bears it out at
\* the instant of the decision, whatever was recorded while the plan was
\* under way (RemediationPlanner.plan, RemediationPreflightService.preview).
EffectIsBorneOut ==
  /\ Intends(REPLAY) => ReplayBorneOut
  /\ Intends(REDELIVER) => RedeliveryBorneOut

\* No result of a plan is ready for a Case that has moved on since its
\* preview, or that was closed meanwhile.
ReadyIsCurrent ==
  decision.made =>
    \A p \in decision.results :
      /\ p.status \in PreflightStatus
      /\ p.status = "READY" => /\ decision.begun = SnapshotId
                               /\ Contract(p.validated.candidate.action).risk = 2
                                  => status \notin TerminalStatus

\* A plan that proposed the repair the evidence calls for, on a Case that
\* stood still, ends in an intent for it and not in a lesser one.
RepairIsChosen ==
  decision.made /\ decision.begun = SnapshotId =>
    \A p \in decision.results :
      /\ p.validated.candidate.action = REPLAY /\ ReplayBorneOut => Intends(REPLAY)
      /\ p.validated.candidate.action = REDELIVER /\ RedeliveryBorneOut => Intends(REDELIVER)
=============================================================================

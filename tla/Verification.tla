---------------------------- MODULE Verification ----------------------------
(***************************************************************************)
(* The evaluation of a Case whose world is still moving: a sweep in the    *)
(* fixed order of the fixture and readings repeated after it, answers lost *)
(* and published late, effects of the synthetic adapter whose receipt may  *)
(* be lost, waiting, and the evaluator, which may be run at any time after *)
(* the sweep.                                                              *)
(* The properties compare its verdict with the readings it was given and   *)
(* with the world, which it never sees.                                    *)
(***************************************************************************)
EXTENDS Inquiry, Evaluation

CONSTANTS
  MaxEvents,  \* bound on changes, faults, losses, effects and waits together
  WaitTime,   \* length of a wait
  Repairs     \* the actions that may be dispatched

\* The service refuses a protocol version in a query of any other tool.
ASSUME VerificationAssumption ==
  /\ MaxEvents \in Nat /\ WaitTime \in Nat /\ Repairs \subseteq {"REPLAY", "REDELIVER"}
  /\ ProtocolVersion \cup {"NONE"} \subseteq STRING
  /\ \A q \in Queries : q.tool # "PROTOCOL" => q.version = "NONE"

VARIABLES
  effects,  \* the Case's effects, as ledger and target
  reads,    \* the number of calls made
  lost,     \* answers the service kept but the Case never received
  events,   \* events so far
  report    \* the evaluation of this instant, if there was one

verificationVars == <<effects, reads, lost, events, report>>

\* The order of one sweep.
READS == <<"TRACE", "FUND", "PAYMENT", "GUARANTEE", "ASSET", "ACCOUNTING",
           "CALLBACK", "MESSAGES", "ASSET_DELIVERY", "PROTOCOL", "PROTOCOL">>

\* What is read next: the sweep, and then any tool again.
NextQuery ==
  LET i == reads + 1
  IN  IF i > Len(READS) THEN Queries
      ELSE {[tool |-> READS[i],
             version |-> IF i = 10 THEN "2.3" ELSE IF i = 11 THEN "2.2" ELSE "NONE"]}

NoReport == [verdict |-> "NONE", path |-> "NONE", reasons |-> {}, unresolved |-> {},
             dimensions |-> [d \in EvaluationDimension |-> "NOT_APPLICABLE"]]

VTypeOK ==
  /\ effects \subseteq BoundEffect
  /\ report.path \in OutcomePath /\ \A d \in EvaluationDimension : report.dimensions[d] \in DimensionStatus

VIdle == effects = {} /\ reads = 0 /\ lost = {} /\ events = 0 /\ report = NoReport

VInit == Init /\ VIdle

Event == events < MaxEvents /\ events' = events + 1

publish(o) ==
  /\ observations' = observations \cup {o}
  /\ stored' = record_call(stored, o)

\* One reading.
read(q) ==
  /\ reads < MaxCalls
  /\ reads' = reads + 1 /\ clock' = clock + 1
  /\ publish(observe(frames, faults, clock + 1, q.tool, q.version))
  /\ report' = NoReport
  /\ UNCHANGED <<frames, faults, graph, changed, added, effects, lost, events>>

\* The service keeps its answer but the response is lost: the call stays
\* without observation until it is recovered.
read_orphan(q) ==
  /\ reads < MaxCalls /\ Event
  /\ reads' = reads + 1 /\ clock' = clock + 1
  /\ lost' = lost \cup {observe(frames, faults, clock + 1, q.tool, q.version)}
  /\ report' = NoReport
  /\ UNCHANGED <<frames, faults, observations, stored, graph, changed, added, effects>>

\* The kept answer is published, with the time at which it was given.
recover_reads ==
  \E o \in lost :
    /\ lost' = lost \ {o}
    /\ publish(o)
    /\ report' = NoReport
    /\ UNCHANGED <<frames, clock, faults, graph, changed, added, effects, reads, events>>

Progress ==
  /\ Event
  /\ \E c \in Changes : progress(c)
  /\ report' = NoReport
  /\ UNCHANGED <<effects, reads, lost>>

AddFault ==
  /\ Event
  /\ \E f \in FaultMenu : add_fault(f)
  /\ report' = NoReport
  /\ UNCHANGED <<effects, reads, lost>>

advance ==
  /\ Event
  /\ clock' = clock + WaitTime
  /\ report' = NoReport
  /\ UNCHANGED <<frames, faults, observations, stored, graph, changed, added, effects, reads, lost>>

(***************************************************************************)
(* Effects.  The adapter changes only a target that is still failed; the   *)
(* receipt may be lost, which leaves the effect unknown until recovery.    *)
(***************************************************************************)
Repairable(w, action) ==
  IF action = "REPLAY" THEN \E m \in w.messages : m.status = "FAILED"
  ELSE w.delivery.status = "FAILED"

Repaired(w, action, now) ==
  IF action = "REPLAY"
  THEN [w EXCEPT !.at = now, !.messages = {ConvergedMessage(m, now) : m \in @}]
  ELSE [w EXCEPT !.at = now, !.delivery.status = "DELIVERED", !.delivery.at = now]

\* At most one effect per action: a repeat of the same command is the
\* idempotency that EffectBoundary is about.
dispatch(action, received) ==
  LET w == Last(frames)
      applied == Repairable(w, action)
      outcome == IF applied THEN "APPLIED" ELSE "FAILED_CONFIRMED"
  IN  /\ \A e \in effects : e.action # action
      /\ Event
      /\ effects' = effects \cup
           {[action |-> action, status |-> IF received THEN outcome ELSE "UNKNOWN",
             created |-> clock, updated |-> clock + 1,
             target |-> IF action = "REPLAY" THEN "MSG" ELSE "DELIVERY", callback |-> "CB"]}
      /\ frames' = IF applied THEN Append(frames, Repaired(w, action, clock + 1)) ELSE frames
      /\ clock' = clock + 1
      /\ report' = NoReport
      /\ UNCHANGED <<faults, observations, stored, graph, changed, added, reads, lost>>

\* Recovery asks the external system what became of an unknown effect.
resolve(effect) ==
  LET applied == \E i \in DOMAIN frames : frames[i].at = effect.created + 1
  IN  /\ effect.status = "UNKNOWN"
      /\ effects' = (effects \ {effect})
                    \cup {[effect EXCEPT !.status = IF applied THEN "APPLIED" ELSE "FAILED_CONFIRMED",
                                         !.updated = clock]}
      /\ report' = NoReport
      /\ UNCHANGED <<vars, reads, lost, events>>

\* The evaluator, on what is published at this instant.
evaluate ==
  LET work == [pending_reads |-> lost # {}, recovery_unresolved |-> FALSE,
               policy_invalid |-> FALSE, terminal |-> FALSE]
  IN  /\ reads >= Len(READS) /\ report = NoReport
      /\ report' = Report(Snapshot(stored, observations, effects, work, clock))
      /\ UNCHANGED <<vars, effects, reads, lost, events>>

Finished ==
  /\ reads = MaxCalls
  /\ UNCHANGED <<vars, verificationVars>>

VNext ==
  \/ \E q \in NextQuery : read(q) \/ read_orphan(q)
  \/ recover_reads
  \/ Progress \/ AddFault \/ advance
  \/ \E a \in Repairs, received \in BOOLEAN : dispatch(a, received)
  \/ \E e \in effects : resolve(e)
  \/ evaluate
  \/ Finished

VSpec == VInit /\ [][VNext]_<<vars, verificationVars>>

(***************************************************************************)
(* Properties.                                                             *)
(***************************************************************************)
\* The benchmark's oracle on a frame.
oracle_converged(w) ==
  IF w.fund.finality = "NOT_EXECUTED"
  THEN /\ w.fund.status = "FAILED" /\ w.guarantee.status = "FAILED"
       /\ w.asset.status = "FAILED" /\ ~w.accounting.entry
  ELSE /\ w.fund.finality = "SETTLED"
       /\ \E t \in w.fund.tx : /\ \A d \in IdentityFields : t[d] = "EXPECTED"
                               /\ t.request = w.guarantee.request
       /\ w.guarantee.status = "SUCCESS" /\ w.asset.status = "SUCCESS" /\ w.accounting.entry
       /\ \A m \in w.messages : m.status = "CONSUMED"
       /\ w.delivery.status = "DELIVERED"

\* A list of no messages is an answer that leaves no evidence.
Tells(o) == \A w \in o.data : project(w, o.tool, o.version) # {}

\* The newest of the readings O of `tool', for each version asked for.
NewestOf(O, tool) ==
  {o \in O : o.tool = tool /\ \A x \in O : x.tool = tool /\ x.version = o.version
                                          => x.seen <= o.seen}

\* The newest reading of `tool' that left evidence.
Newest(tool) == NewestOf({o \in observations : Tells(o)}, tool)

ReadOf(tool) == UNION {o.data : o \in Newest(tool)}

\* The newest reading of `tool' is a recent answer of the primary.
Answered(tool) ==
  \A o \in Newest(tool) :
    o.status = "OK" /\ o.source = "PRIMARY" /\ clock - o.asof <= MaxAge

\* The tools a verdict on the money rests on, and those a settled one needs.
Parties == {"FUND", "PAYMENT", "GUARANTEE", "ASSET", "ACCOUNTING"}
Settling == {"CALLBACK", "CALLBACK_RAW", "MESSAGES", "ASSET_DELIVERY"}

\* The world put together from the newest reading of each tool.
Composite ==
  LET of(tool) == CHOOSE w \in ReadOf(tool) : TRUE
      settled == of("PAYMENT").fund.finality = "SETTLED"
  IN  [fund |-> [of("PAYMENT").fund EXCEPT !.status = of("FUND").fund.status],
       guarantee |-> of("GUARANTEE").guarantee, asset |-> of("ASSET").asset,
       accounting |-> of("ACCOUNTING").accounting,
       gateway |-> IF settled THEN UNION {w.gateway : w \in ReadOf("CALLBACK") \cup ReadOf("CALLBACK_RAW")}
                   ELSE {},
       messages |-> IF settled THEN of("MESSAGES").messages ELSE {},
       delivery |-> IF settled THEN of("ASSET_DELIVERY").delivery ELSE [status |-> "NONE"]]

SignedCallback(w) ==
  w.fund.finality = "SETTLED" =>
    /\ w.messages # {}
    /\ \E g \in w.gateway : g.signed /\ \E m \in w.messages : m.event = g.event /\ m.at >= g.at

\* PASS is earned: each party's newest reading is a recent answer of the
\* primary, and put together they satisfy the benchmark's independent oracle
\* and show a signed callback, however changes, faults, losses and late
\* publications were interleaved with the sweep (evaluation/evaluator.py).
PassIsEarned ==
  report.verdict = "PASS" =>
    /\ \A tool \in Parties : Newest(tool) # {} /\ Answered(tool)
    /\ report.path = "SETTLED_PATH" => \A tool \in Settling : Answered(tool)
    /\ oracle_converged(Composite) /\ SignedCallback(Composite)

\* A payment of the request was shown as settled.
SettlementShown(request) ==
  \E o \in observations :
    /\ o.tool = "PAYMENT" /\ o.status = "OK" /\ o.source = "PRIMARY"
    /\ \E w \in o.data : w.fund.finality = "SETTLED" /\ w.fund.request = request

\* A payment that was once seen to settle is never passed off as never
\* executed, whatever is read later: not the payment of the request that the
\* newest reading is about, which is the Case's own if the verdict is PASS.
MoneyIsNotDenied ==
  report.path = "NO_DISBURSEMENT_PATH" =>
    \A w \in ReadOf("PAYMENT") :
      /\ ~SettlementShown(w.fund.request)
      /\ report.verdict = "PASS" => w.fund.request = "FREQ"

\* Nothing outstanding is passed over: no lost answer, no effect of unknown
\* fate, and every applied effect seen at its target after it was known.
NothingOutstanding ==
  report.verdict = "PASS" =>
    /\ lost = {}
    /\ \A e \in effects :
         /\ e.status # "UNKNOWN"
         /\ e.status = "APPLIED" =>
              \E o \in observations :
                /\ o.tool = IF e.action = "REPLAY" THEN "MESSAGES" ELSE "ASSET_DELIVERY"
                /\ o.seen > e.updated /\ o.source = "PRIMARY"
                /\ \E w \in o.data : ~Repairable(w, e.action)

\* A PASS is true of the world, not only of what was read: when none of the
\* readings it rests on was made before the world's last change, the world
\* has converged and its callback is signed.
PassIsTrue ==
  /\ report.verdict = "PASS"
  /\ \A tool \in Parties \cup IF report.path = "SETTLED_PATH" THEN Settling ELSE {} :
       \A o \in Newest(tool) : o.seen >= Last(frames).at
  => oracle_converged(Last(frames)) /\ SignedCallback(Last(frames))

\* Nothing was left to happen: every tool was read at the primary since the
\* last change and effect, within the age limit, and no answer is outstanding.
Quiet ==
  /\ report # NoReport /\ lost = {}
  /\ Last(frames).fund.request = "FREQ"
  /\ SettlementShown("FREQ") => Last(frames).fund.finality # "NOT_EXECUTED"
  /\ \A e \in effects : e.status # "UNKNOWN"
  /\ \A tool \in Parties \cup Settling \cup {"TRACE", "PROTOCOL"} :
     \A o \in Newest(tool) \cup NewestOf(observations, tool) :
       /\ o.source = "PRIMARY" /\ o.freshness = "CURRENT" /\ o.status # "TIMEOUT"
       /\ clock - o.seen <= MaxAge
       /\ o.seen > Last(frames).at /\ \A e \in effects : o.seen > e.updated

\* A sweep decides: when the world is quiet and has converged, the verdict is
\* PASS; no check waits for something that was already there.
SweepDecides ==
  Quiet /\ oracle_converged(Last(frames)) /\ SignedCallback(Last(frames))
  => report.verdict = "PASS"

\* The evaluator's verdict is safe: PASS is earned, is true of a world that
\* did not change since, passes over nothing that is outstanding, and no
\* verdict denies money that was seen to move, however changes, faults,
\* effects and late answers fall between the readings
\* (evaluation/evaluator.py).
VerdictIsSafe ==
  VTypeOK /\ PassIsEarned /\ PassIsTrue /\ MoneyIsNotDenied /\ NothingOutstanding
=============================================================================

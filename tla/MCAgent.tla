------------------------------ MODULE MCAgent ------------------------------
(***************************************************************************)
(* Runs of the agent for TLC.  A behaviour is about one subject, chosen at *)
(* the start: any proposals of a model, with an operator, a lost answer    *)
(* and a resumption; a race with an operator and another worker's claim;   *)
(* a history that is compacted away; a run under contention; and the       *)
(* offline model during an outage.  The configuration has the largest      *)
(* bounds.                                                                 *)
(***************************************************************************)
EXTENDS Agent

VARIABLE subject

mcvars == <<agentVars, subject>>

Plain(tools) == {[tool |-> t, version |-> "NONE"] : t \in tools}

Fault(tool, kind, lasts, arg) == [tool |-> tool, kind |-> kind, lasts |-> lasts, arg |-> arg]

\* The payment and the fund's record of it.
PaymentTools == {"PAYMENT", "FUND"}

Anything == INSTANCE Agent WITH
  Scenarios <- {"S8"}, Queries <- Plain(PaymentTools), AllowedTools <- PaymentTools, FaultMenu <- {},
  Model <- "any", MaxCalls <- 4, MaxTurns <- 4, MaxReplans <- 0, MaxNoProgress <- 1,
  MaxOperator <- 1, MaxLost <- 1, MaxFences <- 0, MaxResumes <- 1

Race == INSTANCE Agent WITH
  Scenarios <- {"S5"}, Queries <- Plain(PaymentTools), AllowedTools <- PaymentTools, FaultMenu <- {},
  Model <- "any", MaxCalls <- 3, MaxTurns <- 2,
  MaxOperator <- 1, MaxLost <- 0, MaxFences <- 1, MaxResumes <- 0

Compacted == INSTANCE Agent WITH
  Scenarios <- {"S8"}, Queries <- Plain(PaymentTools), AllowedTools <- PaymentTools,
  FaultMenu <- {Fault("FUND", "TIMEOUT", Never, 0)}, MaxHistory <- 1,
  Model <- "any", MaxCalls <- 5, MaxTurns <- 6, MaxReplans <- 0,
  MaxOperator <- 1, MaxLost <- 0, MaxFences <- 0, MaxResumes <- 0

Contention == INSTANCE Agent WITH
  Scenarios <- {"S5"}, Queries <- Plain({"PAYMENT"}), AllowedTools <- {"PAYMENT"}, FaultMenu <- {},
  Model <- "any", MaxCalls <- 2, MaxTurns <- 2, MaxNoProgress <- 1,
  MaxOperator <- 1, MaxLost <- 0, MaxFences <- 1, MaxResumes <- 0

\* An outage of the payment's source: for a moment, over one pause, over two.
Offline == INSTANCE Agent WITH
  Scenarios <- {"S5", "S6", "S7"}, Queries <- Plain({"PAYMENT"}),
  AllowedTools <- PaymentTools \cup {"GUARANTEE", "TRACE"},
  FaultMenu <- {Fault("PAYMENT", "TIMEOUT", n, 0) : n \in {2, 20, 90}},
  Model <- "fake", MaxCalls <- 8, MaxTurns <- 8,
  MaxOperator <- 0, MaxLost <- 0, MaxFences <- 0, MaxResumes <- 3

MCInit ==
  /\ subject \in {"anything", "race", "compacted", "contention", "offline"}
  /\ CASE subject = "anything" -> Anything!AgentInit
       [] subject = "race" -> Race!AgentInit
       [] subject = "compacted" -> Compacted!AgentInit
       [] subject = "contention" -> Contention!AgentInit
       [] subject = "offline" -> Offline!AgentInit

MCNext ==
  /\ \/ subject = "anything" /\ Anything!AgentNext
     \/ subject = "race" /\ Race!AgentNext
     \/ subject = "compacted" /\ Compacted!AgentNext
     \/ subject = "contention" /\ Contention!AgentNext
     \/ subject = "offline" /\ Offline!AgentNext
  /\ UNCHANGED subject

MCSpec == MCInit /\ [][MCNext]_mcvars

FairRun ==
  \/ subject = "contention" /\ Contention!RunSteps
  \/ subject = "offline" /\ Offline!RunSteps

Fair == subject \in {"contention", "offline"}

\* Weak fairness, with the enabling conditions written out: a run in progress
\* goes on, the service answers what it is asked, and, for the offline model,
\* a paused Case is resumed and a resumed one is run, as long as the bounds
\* allow: the production worker polls due work.
MCLiveSpec ==
  /\ MCSpec
  /\ []<>(~ (Fair /\ CanRun)) \/ []<><<FairRun>>_agentVars
  /\ []<>(~ (Fair /\ CanServe)) \/ []<><<Fair /\ Serve>>_agentVars
  /\ []<>(~ (subject = "offline" /\ CanStart)) \/ []<><<subject = "offline" /\ Offline!StartRun>>_agentVars
  /\ []<>(~ (subject = "offline" /\ Offline!CanResume)) \/ []<><<subject = "offline" /\ Offline!Resume>>_agentVars

----------------------------------------------------------------------------
\* In a race with an operator's calls and another worker's claim, every
\* committed call or pause serves an open safety question some tool of the
\* Case could help with.
SafetyFirst == [][subject = "race" => Race!ServesSafety]_agentVars

\* Every run ends, whatever the operator, the claims and the model do to it:
\* neither the replanning nor the loop of turns goes on for ever.
RunEnds ==
  (subject = "contention" /\ run.pc # "idle") ~> run.pc = "idle"

\* A source that fails for a while does not keep the Case from its answer:
\* after the pause the agent asks again, and learns whether money has moved.
FinalityIsLearned ==
  <>(subject = "offline" => \A g \in graph.gaps : g.name = "PAYMENT_FINALITY" => g.status = "SATISFIED")
=============================================================================

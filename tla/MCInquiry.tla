----------------------------- MODULE MCInquiry -----------------------------
(***************************************************************************)
(* Investigation, evaluation and remediation planning for TLC.  A          *)
(* behaviour is about one of eight subjects, chosen at the start: three    *)
(* lines of inquiry, verdicts on the money and on two effects, and plans   *)
(* for a replay and for a redelivery.  What a subject does not use stands  *)
(* still.                                                                  *)
(***************************************************************************)
EXTENDS Verification, Proposal

VARIABLE subject

mcvars == <<vars, verificationVars, proposalVars, subject>>

Plain(tools) == {[tool |-> t, version |-> "NONE"] : t \in tools}

Fault(tool, kind, lasts, arg) == [tool |-> tool, kind |-> kind, lasts |-> lasts, arg |-> arg]

\* Did the payment settle, was it the right one, was it answered.
Payment == INSTANCE Inquiry WITH
  Scenarios <- {"S4", "S8"}, Queries <- Plain({"TRACE", "FUND", "PAYMENT", "GUARANTEE"}),
  FaultMenu <- {Fault("PAYMENT", "TIMEOUT", 2, 0)},
  Changes <- {"missing_account", "no_disbursement"}, MaxCalls <- 4

\* Did the callback arrive, was it consumed, why not.
Callback == INSTANCE Inquiry WITH
  Scenarios <- {"S6"},
  Queries <- Plain({"CALLBACK", "MESSAGES"}) \cup {[tool |-> "PROTOCOL", version |-> v] : v \in {"2.2", "2.3"}},
  FaultMenu <- {Fault("MESSAGES", "REPLICA_LAG", 3, 2)},
  Changes <- {"already_consumed", "converge"}, MaxCalls <- 4

\* The last mile: guarantee record, notification, asset party, protocol.
Asset == INSTANCE Inquiry WITH
  Scenarios <- {"S7"},
  Queries <- Plain({"GUARANTEE", "ASSET", "ASSET_DELIVERY"}) \cup {[tool |-> "PROTOCOL", version |-> "2.3"]},
  FaultMenu <- {Fault("ASSET_DELIVERY", "OLD_CACHE", Never, 5)},
  Changes <- {"converge", "asset_failed"}, MaxCalls <- 4

\* A verdict on the money, with faults and late answers.
Verdict == INSTANCE Verification WITH
  Scenarios <- {"S6"}, Queries <- Plain({"PAYMENT", "MESSAGES"}),
  FaultMenu <- {Fault("PAYMENT", "OLD_CACHE", 12, 0)},
  Changes <- {"converge", "no_disbursement", "signature_invalid"},
  Repairs <- {}, MaxCalls <- 12, MaxChanges <- 2

\* Verdicts on effects whose receipts may be lost.
Replayed == INSTANCE Verification WITH
  Scenarios <- {"S6"}, Queries <- {}, FaultMenu <- {}, Changes <- {"converge"},
  Repairs <- {"REPLAY"}, MaxCalls <- 11

Redelivered == INSTANCE Verification WITH
  Scenarios <- {"S7"}, Queries <- {}, FaultMenu <- {}, Changes <- {"converge"},
  Repairs <- {"REDELIVER"}, MaxCalls <- 11

P(action, problem, cites) == [action |-> action, problems |-> {problem}, cites |-> cites]

\* A plan to replay a callback, where the consumer's schema is attested.
Replay == INSTANCE Proposal WITH
  Scenarios <- {"S6"}, Sweep <- <<"TRACE", "PAYMENT", "CALLBACK", "MESSAGES">>,
  Queries <- Plain({"PAYMENT", "MESSAGES"}), FaultMenu <- {},
  Changes <- {"already_consumed", "request"},
  Drafts <- {<<P(REVIEW, "H6", "NOW"), P(REPLAY, "H6", "NOW")>>,
             <<P(REPLAY, "H6_SCHEMA_MISMATCH", "ALL"), P(NO_ACTION, "H6", "NOW")>>},
  MaxCalls <- 5

\* A plan to redeliver the notification of the asset party.
Redelivery == INSTANCE Proposal WITH
  Scenarios <- {"S7"}, Sweep <- <<"TRACE", "PAYMENT", "GUARANTEE", "ASSET", "ASSET_DELIVERY">>,
  Queries <- Plain({"ASSET", "ASSET_DELIVERY"}), FaultMenu <- {},
  Changes <- {"converge", "asset_failed", "delivery_missing"},
  Drafts <- {<<P(RECONCILE, "H7", "NOW"), P(REDELIVER, "H7", "NOW")>>,
             <<P(REDELIVER, "ASSET_CONVERGENCE", "ALL"), P(REDELIVER, "H7", "NOW")>>},
  MaxCalls <- 6

Evaluating == subject \in {"verdict", "replayed", "redelivered"}
Planning == subject \in {"replay", "redelivery"}

MCInit ==
  /\ subject \in {"money", "callback", "asset", "verdict", "replayed", "redelivered",
                 "replay", "redelivery"}
  /\ CASE subject = "money" -> Payment!Init
       [] subject = "callback" -> Callback!Init
       [] subject = "asset" -> Asset!Init
       [] subject = "verdict" -> Verdict!Init
       [] subject = "replayed" -> Replayed!Init
       [] subject = "redelivered" -> Redelivered!Init
       [] subject = "replay" -> Replay!Init
       [] subject = "redelivery" -> Redelivery!Init
  /\ VIdle /\ PIdle

MCNext ==
  /\ \/ subject = "money" /\ Payment!Next
     \/ subject = "callback" /\ Callback!Next
     \/ subject = "asset" /\ Asset!Next
     \/ subject = "verdict" /\ Verdict!VNext
     \/ subject = "replayed" /\ Replayed!VNext
     \/ subject = "redelivered" /\ Redelivered!VNext
     \/ subject = "replay" /\ Replay!PNext
     \/ subject = "redelivery" /\ Redelivery!PNext
  /\ ~ Evaluating => UNCHANGED verificationVars
  /\ ~ Planning => UNCHANGED proposalVars
  /\ UNCHANGED subject

MCSpec == MCInit /\ [][MCNext]_mcvars

----------------------------------------------------------------------------
(* The properties that depend on the instance, or are about one subject.   *)

\* An intent of an effect comes out only on evidence that bears it out at
\* the instant of the decision.
IntentIsBorneOut ==
  /\ subject = "replay" => Replay!EffectIsBorneOut
  /\ subject = "redelivery" => EffectIsBorneOut

\* A plan that proposed the repair the evidence calls for ends in it.
BestRepairIsChosen ==
  /\ subject = "replay" => Replay!RepairIsChosen
  /\ subject = "redelivery" => RepairIsChosen

\* The outcome of a plan is what the evidence of its moment calls for: no
\* effect it does not bear out, nothing ready for a Case that moved on, and
\* the repair it calls for rather than a lesser one.
PlanIsBorneOut == IntentIsBorneOut /\ ReadyIsCurrent /\ BestRepairIsChosen
=============================================================================

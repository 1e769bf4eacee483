--------------------------- MODULE EffectRefinement ---------------------------
(***************************************************************************)
(* EffectBoundary implements EffectContract.                               *)
(***************************************************************************)
EXTENDS EffectBoundary

\* A thread that has committed DISPATCHED and has not sent yet.
Sender(w, k) == job[w].pc = "send" /\ job[w].key = k

PhaseOf(k) ==
  CASE ledger[k].status = "ABSENT"           -> "absent"
    [] ledger[k].status = "NOOP"             -> "noop"
    [] ledger[k].status = "PREPARED"         -> "reserved"
    [] ledger[k].status \in LOOKUP_ONLY      -> "dispatched"
    [] ledger[k].status = "APPLIED"          -> "applied"
    [] ledger[k].status = "FAILED_CONFIRMED" -> "failed"

PermitOf(k) ==
  CASE sends[k] > 0 -> "spent"
    [] sends[k] = 0 /\ (\E w \in Workers : Sender(w, k)) -> "granted"
    [] sends[k] = 0 /\ ~(\E w \in Workers : Sender(w, k)) ->
         IF ledger[k].attempts = 0 THEN "none" ELSE "lost"

WorldOf(k) ==
  CASE remote[k] = "none"                   -> "untouched"
    [] remote[k] = "accepted"               -> "pending"
    [] remote[k] = "applied"                -> "done"
    [] remote[k] \in {"rejected", "closed"} -> "refused"

Contract == INSTANCE EffectContract WITH
  phase <- [k \in Keys |-> PhaseOf(k)],
  permit <- [k \in Keys |-> PermitOf(k)],
  world <- [k \in Keys |-> WorldOf(k)]

\* The boundary keeps the contract: read through the ledger, the threads that
\* are about to send and the external system, every step of execute, recover,
\* a crash or the wire is a step the contract allows, or none at all.
ImplementsContract == Contract!Spec
=============================================================================

--------------------------- MODULE MCEffectBoundary ---------------------------
(***************************************************************************)
(* EffectBoundary for TLC.  A run checks several deployments of the same   *)
(* boundary: which one a behaviour belongs to is chosen at the start.  The *)
(* one called "plain" has the values the configuration gives.              *)
(***************************************************************************)
EXTENDS EffectRefinement, TLC

CONSTANTS
  Deployments,  \* the deployments a run is about
  key, noop, a, c0, c1, c2, e, e1, e2, r, r1, r2

VARIABLE deployment

\* Two executions of two capabilities and a recovery that may resume.
Race == INSTANCE EffectBoundary WITH
  Caps <- {c1, c2}, Executors <- {e1, e2}, Recoverers <- {r},
  MaxAttempts <- 1, HasResumer <- TRUE, MaxMutations <- 0

\* An effect that needs an approval beside one that does nothing.
Gate == INSTANCE EffectBoundary WITH
  Keys <- {key, noop}, Noops <- {noop}, Gated <- {key}, Approvals <- {a}, Recoverers <- {r},
  MaxAttempts <- 1, HasResumer <- TRUE

\* A resolver whose NOT_FOUND closes the request for good.
Strong == INSTANCE EffectBoundary WITH
  NotFoundProvesNoEffect <- TRUE

MCInit ==
  /\ deployment \in Deployments
  /\ \/ deployment = "plain" /\ Init
     \/ deployment = "race" /\ Race!Init
     \/ deployment = "gate" /\ Gate!Init
     \/ deployment = "strong" /\ Strong!Init

MCNext ==
  /\ \/ deployment = "plain" /\ Next
     \/ deployment = "race" /\ Race!Next
     \/ deployment = "gate" /\ Gate!Next
     \/ deployment = "strong" /\ Strong!Next
  /\ UNCHANGED deployment

MCSpec == MCInit /\ [][MCNext]_<<vars, deployment>>

\* The fairness of EffectBoundary.  The resolver shows in a recoverer's own
\* steps only.
FairMCSpec ==
  /\ MCSpec
  /\ \A w \in Executors : WF_vars(ExecutorStep(w) \/ DispatchStep(w))
  /\ \A w \in Recoverers :
       WF_vars(IF deployment = "strong" THEN Strong!RecovererStep(w) \/ Strong!DispatchStep(w)
                                        ELSE RecovererStep(w) \/ DispatchStep(w))
  /\ \A k \in Keys : ClaimFairness(k)

\* Identifiers are opaque: permuting them permutes the behaviours.
Symmetry == Permutations({c1, c2}) \cup Permutations({e1, e2}) \cup Permutations({r1, r2})

\* DispatchIsAuthorized where effects need an approval.
GatedDispatchIsAuthorized == [][deployment = "gate" => Gate!DispatchesAuthorized]_vars
=============================================================================

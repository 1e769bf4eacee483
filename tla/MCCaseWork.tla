------------------------------ MODULE MCCaseWork ------------------------------
(***************************************************************************)
(* CaseWork for TLC: threads are interchangeable model values.  A run may  *)
(* check a second setting, with one more work item and fewer claims, beside*)
(* the one its configuration gives; a behaviour belongs to one of them.    *)
(***************************************************************************)
EXTENDS CaseWork, TLC

CONSTANTS Settings, w1, w2, c1, c2

VARIABLE setting

OneWorker == {w1}
TwoWorkers == {w1, w2}
NoClient == {}
OneClient == {c1}
TwoClients == {c1, c2}

Interchangeable == Permutations(Workers) \cup Permutations(Clients)

Long == INSTANCE CaseWork WITH MaxWorks <- MaxWorks + 1, MaxClaims <- 1

MCInit ==
  /\ setting \in Settings
  /\ \/ setting = "given" /\ Init
     \/ setting = "long" /\ Long!Init

MCNext ==
  /\ \/ setting = "given" /\ Next
     \/ setting = "long" /\ Long!Next
  /\ UNCHANGED setting

MCSpec == MCInit /\ [][MCNext]_<<vars, setting>>

\* The fairness of CaseWork, in the given setting.
Given(A) == setting = "given" /\ A

MCLiveSpec ==
  /\ MCSpec
  /\ \A t \in Workers : WF_vars(Given(WorkerStep(t)))
  /\ \A w \in Slots : /\ WF_vars(Given(\E t \in Workers : claim(t, w)))
                       /\ WF_vars(Given(poll_due_work(w)))
                       /\ WF_vars(Given(Abandoned(w) /\ LeaseExpires(w)))

\* WaitIsHonoured with room for a recheck, its follow-up, a timer and a
\* verification.
LongWaitIsHonoured == [][setting = "long" => Long!ResumesWhenDue]_vars

\* ClaimedWorkEnds where workers crash and the fairness is stated.
GivenClaimedWorkEnds ==
  \A w \in Slots : Given(works[w].status = "CLAIMED") ~> works[w].status # "CLAIMED"
=============================================================================

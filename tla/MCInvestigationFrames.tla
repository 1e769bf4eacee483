----------------------- MODULE MCInvestigationFrames -----------------------
(***************************************************************************)
(* Frames of one Case for TLC, in one of four settings chosen at the       *)
(* start: two clients of one replica with the shared store (the constants  *)
(* of the configuration), two clients while the cursor key is rolled over  *)
(* two replicas twice, a Case that is evaluated and closed, and a replica  *)
(* with its own cache of one frame.                                        *)
(***************************************************************************)
EXTENDS InvestigationFrames

VARIABLE setting

mcvars == <<vars, setting>>

Rotation == INSTANCE InvestigationFrames WITH
  Replicas <- {"a", "b"}, TTL <- 1, MaxRequests <- 1, MaxTime <- 1, MaxKey <- 3

Closure == INSTANCE InvestigationFrames WITH
  Clients <- {"c"}, Parts <- {"revision", "evidence", "calls", "other"},
  MaxWrites <- 2, MaxReports <- 2, MaxRequests <- 1, MaxTime <- 1

Local == INSTANCE InvestigationFrames WITH Shared <- FALSE, MaxFrames <- 1, MaxTime <- 3

MCInit ==
  /\ setting \in {"shared", "rotation", "closure", "local"}
  /\ CASE setting = "shared" -> Init
       [] setting = "rotation" -> Rotation!Init
       [] setting = "closure" -> Closure!Init
       [] setting = "local" -> Local!Init

MCNext ==
  /\ \/ setting = "shared" /\ Next
     \/ setting = "rotation" /\ Rotation!Next
     \/ setting = "closure" /\ Closure!Next
     \/ setting = "local" /\ Local!Next
  /\ UNCHANGED setting

MCSpec == MCInit /\ [][MCNext]_mcvars
=============================================================================

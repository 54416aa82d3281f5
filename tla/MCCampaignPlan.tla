---------------------------- MODULE MCCampaignPlan ----------------------------
(* The campaign with the jobs it really has, and only the first candidates:  *)
(* what the other jobs are called does not depend on how many masks are      *)
(* tried.                                                                    *)
EXTENDS Campaign, CampaignPlan

CONSTANT TriedBinaries   \* bound: candidates

FirstBinaries == SubSeq(PlanBinaries, 1, TriedBinaries)
=============================================================================

----------------------------- MODULE CampaignPlan -----------------------------
(***************************************************************************)
(* The plan of campaign.py, by the names of its jobs.                      *)
(***************************************************************************)
PlanStartup ==
  <<"gradient0_wave1520", "gradient0_wave1536", "gradient0", "gradient0_wave1565",
    "gradient0_wave1580", "gradient1", "warmup", "coarse", "projection", "sharpen", "fine">>

PlanOptimizations == {"warmup", "coarse", "projection", "sharpen", "fine"}

PlanSource ==
  [n \in PlanOptimizations \ {"warmup"} |->
     CASE n = "coarse" -> "warmup" [] n = "projection" -> "coarse"
       [] n = "sharpen" -> "projection" [] n = "fine" -> "sharpen"]

PlanBinaries == <<"binary1", "binary2", "binary3", "binary4", "binary5", "binary6">>

PlanHoldouts == {"holdout1543_3", "holdout1572_3"}

\* A perturbation at 1550 nm has the name of the perturbation.
PlanValidation ==
  <<"mesh020", "mesh015", "wave1520", "wave1536", "wave1565", "wave1580",
    "boundary", "wave1520_boundary", "wave1536_boundary", "wave1580_boundary",
    "pml", "wave1536_pml", "projection", "wave1536_projection",
    "wave1520_mesh015", "wave1536_mesh015", "wave1580_mesh015",
    "holdout1543_3", "holdout1572_3">>

PlanBaseline ==
  [n \in {"mesh020", "mesh015", "boundary", "pml", "projection", "wave1520_boundary",
          "wave1520_mesh015", "wave1536_boundary", "wave1536_pml", "wave1536_projection",
          "wave1536_mesh015", "wave1580_boundary", "wave1580_mesh015"} |->
     CASE n \in {"mesh020", "mesh015"} -> "selected_binary"
       [] n \in {"boundary", "pml", "projection"} -> "mesh020"
       [] n \in {"wave1520_boundary", "wave1520_mesh015"} -> "wave1520"
       [] n \in {"wave1580_boundary", "wave1580_mesh015"} -> "wave1580"
       [] OTHER -> "wave1536"]
=============================================================================

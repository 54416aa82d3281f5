------------------------------ MODULE MCCampaign ------------------------------
(* A plan with one gradient check, an optimization and its restart, two      *)
(* candidates, and two checks before the holdout.                            *)
EXTENDS Campaign

MCStartup == <<"gradient", "warmup", "coarse">>
MCOptimizations == {"warmup", "coarse"}
MCSource == [n \in {"coarse"} |-> "warmup"]
MCBinaries == <<"binary1", "binary2">>
MCValidation == <<"mesh", "boundary", "holdout">>
MCHoldouts == {"holdout"}
MCBaseline == [n \in {"mesh", "boundary"} |->
                 IF n = "mesh" THEN SelectedBinary ELSE "mesh"]
=============================================================================

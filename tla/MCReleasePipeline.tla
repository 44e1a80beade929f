------------------------- MODULE MCReleasePipeline -------------------------
(* Two platforms, the tested one among them, and the tags v1.0 and 1.0.     *)
EXTENDS ReleasePipeline

MCTags == {[v |-> TRUE, version |-> "1.0"], [v |-> FALSE, version |-> "1.0"]}

MCVersions == {"1.0"}

MCAttempts == [r \in {"r1", "r2"} |-> IF r = "r1" THEN 2 ELSE 1]
=============================================================================

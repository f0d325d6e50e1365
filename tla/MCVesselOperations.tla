------------------------- MODULE MCVesselOperations -------------------------
(* Small instances of VesselOperations for TLC.                             *)
EXTENDS VesselOperations, FiniteSetsExt, TLC

CONSTANTS review1, paid

MCReviewStep == {review1}
MCDefaultPosition == (review1 :> 1) @@ (paid :> 2)
MCSumAmounts(credits) == MapThenSumSet(LAMBDA c : c.amount, credits)
MCRates == {("dry" :> 1) @@ ("other" :> 0), ("dry" :> 2) @@ ("other" :> 0)}

=============================================================================

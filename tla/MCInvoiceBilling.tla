-------------------------- MODULE MCInvoiceBilling --------------------------
(* Small instances of InvoiceBilling for TLC.                               *)
EXTENDS InvoiceBilling, FiniteSetsExt, TLC

CONSTANTS review1, paid, custom1, r1, r2

MCReviewStep == {review1}
MCDefaultPosition == (review1 :> 1) @@ (paid :> 2)
MCSumAmounts(credits) == MapThenSumSet(LAMBDA c : c.amount, credits)
MCSymmetry == Permutations({r1, r2})

=============================================================================

---------------------------- MODULE MCEmailOutbox ----------------------------
(* Small instances of EmailOutbox for TLC.                                  *)
EXTENDS EmailOutbox, TLC

CONSTANTS r1, r2, o1, w1, w2

MCOrgOf == [r \in {r1, r2} |-> o1]
MCSymmetry == Permutations({w1, w2})

=============================================================================

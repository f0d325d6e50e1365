--------------------------- MODULE MCMeasurements ---------------------------
(***************************************************************************)
(* A measurement plan and its agency portal for TLC, under several scopes. *)
(***************************************************************************)
EXTENDS AgencyPortal, TLC

CONSTANTS s1, s2, a1, a2, l1, l2, d1, d2, g1, g2, b1, b2, n1, n2

\* Two lines; an amendment may raise or lower the quantities.
MCQuantities == {l1 :> 3 @@ l2 :> 4, l1 :> 6 @@ l2 :> 5}
\* Rates are not whole cents, so that entitlements are rounded.
MCTerms == {[baseline |-> l1 :> 2 @@ l2 :> 2, opening |-> l1 :> 0 @@ l2 :> 0,
             rate |-> 13, tolerance |-> 1, mode |-> m] : m \in {"threshold", "deductible"}}

\* Two members, two agencies of which one is optional, one amendment.
Workflow ==
  [staff |-> {s1, s2}, trackers |-> {s1, s2}, parties |-> {a1, a2}, returns |-> {a1},
   agreements |-> {a1}, decisions |-> {"agreed", "disputed"},
   quantities |-> {l1 :> 3 @@ l2 :> 4}, terms |-> {}, schedules |-> {d1},
   maxReadings |-> 2, maxProposals |-> 2, maxAssessments |-> 0,
   pages |-> {}, bodies |-> {}, maxLinks |-> 0, maxKeys |-> 0,
   names |-> {n1}, access |-> {"active"}]
\* Rounds of quantities, each assessed and invoiced: three under the same terms, two
\* under terms that may change.
Billing(terms, rounds) ==
  [Workflow EXCEPT !.trackers = {}, !.parties = {a1}, !.agreements = {}, !.decisions = {},
                   !.quantities = MCQuantities, !.terms = terms,
                   !.maxReadings = 1, !.maxProposals = rounds, !.maxAssessments = rounds]
\* Two pages race for one agency's links while a member records readings.
Racing ==
  [Workflow EXCEPT !.staff = {s1}, !.trackers = {}, !.parties = {a1}, !.maxProposals = 0,
                   !.pages = {g1, g2}, !.bodies = {b1}, !.maxLinks = 2, !.maxKeys = 1]
\* One page sends again and again, with the same or with changed entries.
Retrying ==
  [Racing EXCEPT !.schedules = {d1, d2}, !.pages = {g1},
                 !.bodies = {b1, b2}, !.maxLinks = 1, !.maxKeys = 2]
\* Meanwhile the call is edited and the organization suspended.
Disturbed ==
  [Racing EXCEPT !.pages = {g1}, !.maxLinks = 1, !.maxKeys = 2, !.names = {n1, n2},
                 !.access = {"active", "suspended"}]
\* An agency submits while two members propose and finalize.
Closing ==
  [Workflow EXCEPT !.trackers = {}, !.parties = {a2}, !.returns = {a2}, !.agreements = {},
                   !.decisions = {"agreed"}, !.maxProposals = 1, !.pages = {g1}, !.bodies = {b1}, !.maxLinks = 1,
                   !.maxKeys = 1]

MCScopes == {Workflow, Racing, Retrying, Disturbed, Closing, Billing(MCTerms, 2)}
            \cup {Billing({t}, 3) : t \in MCTerms}
=============================================================================

--------------------------- MODULE MeasurementPlan ---------------------------
(***************************************************************************)
(* One measurement plan: agencies return readings of a vessel's cargo, the *)
(* staff propose reconciled quantities, agencies acknowledge a proposal on *)
(* paper, an independent Admin finalizes it, and Finance assesses and      *)
(* invoices what the final quantities exceed the billed baseline by.  An   *)
(* amendment starts the round again.  Every request is served under the    *)
(* lock of the plan's row, so it is one step; what interleaves are the     *)
(* forms of several people, opened on copies of the plan that age.         *)
(*                                                                         *)
(*   plan         its status and its schedule details                      *)
(*   readings     the agencies' returns, oldest first                      *)
(*   proposals    reconciliations; the position is the revision            *)
(*   assessments  disparity assessments, with the invoice once issued      *)
(*   screen       whether each member's cached plan is the server's version *)
(*   form         each member's open form; "current" says that the version *)
(*                it will send still is the plan's (versions only grow, so *)
(*                equality is all a version number can tell)               *)
(*   scope        the bounds of this exploration, chosen once              *)
(***************************************************************************)
EXTENDS Integers, Sequences, FiniteSets, FiniteSetsExt

CONSTANTS Staff, Agencies,
          Lines,              \* cargo lines
          Quantities,         \* reconciled quantities staff may propose
          Terms,              \* billing configurations Finance may enter
          Schedules,          \* title, time and place of the measurement
          MaxReadings, MaxProposals, MaxAssessments, \* largest bounds of a scope
          Scopes,             \* the bounds of each exploration
          NoOne

Decisions == {"none", "agreed", "disputed"}

\* staff, trackers     members at work, and those who also use the agency tracker
\* parties             the plan's participants
\* returns, agreements the participants with required_submission, required_approval
\* decisions           what agencies answer to a proposal
\* the others          figures entered, and how many records are made
PlanScope(s) ==
    /\ s.trackers \subseteq s.staff /\ s.staff \subseteq Staff
    /\ s.parties \subseteq Agencies
    /\ s.returns \subseteq s.parties /\ s.agreements \subseteq s.parties
    /\ s.decisions \subseteq Decisions \ {"none"}
    /\ s.quantities \subseteq Quantities /\ s.terms \subseteq Terms
    /\ s.schedules \subseteq Schedules /\ s.schedules # {}
    /\ s.maxReadings \in 0..MaxReadings /\ s.maxProposals \in 0..MaxProposals
    /\ s.maxAssessments \in 0..MaxAssessments

ASSUME PlanAssumption ==
    /\ Quantities \subseteq [Lines -> Nat]
    /\ \A t \in Terms : /\ t.baseline \in [Lines -> Nat] /\ t.opening \in [Lines -> Nat]
                        /\ t.rate \in Nat /\ t.tolerance \in Nat
                        /\ t.mode \in {"threshold", "deductible"}
    /\ {MaxReadings, MaxProposals, MaxAssessments} \subseteq Nat
    /\ \A s \in Scopes : PlanScope(s)
    /\ NoOne \notin Staff \cup Agencies

VARIABLES plan, readings, proposals, assessments, screen, form, scope

planVars == <<plan, readings, proposals, assessments, screen, form, scope>>

Reading == [party : Agencies, by : {"staff", "agency"}]
Proposal == [status : {"draft", "superseded", "final"}, quantity : Quantities,
             by : Staff, sources : SUBSET (1..MaxReadings),
             decision : [Agencies -> Decisions], finalizedBy : Staff \cup {NoOne}]
Assessment == [proposal : 1..MaxProposals, terms : Terms, amount : [Lines -> Int],
               status : {"held", "ready", "no-charge", "issued"}]
Form == [kind : {"none", "action", "reading"}, party : Agencies \cup {NoOne},
         current : BOOLEAN]

Closed == [kind |-> "none", party |-> NoOne, current |-> FALSE]

Init ==
    /\ scope \in Scopes
    /\ plan \in [status : {"planned"}, schedule : scope.schedules]
    /\ readings = <<>> /\ proposals = <<>> /\ assessments = <<>>
    /\ screen = [u \in Staff |-> TRUE]
    /\ form = [u \in Staff |-> Closed]

-----------------------------------------------------------------------------
(* What the plan holds.                                                    *)

\* Mutant: -1 when nothing is found.
FindsIndex(p, n) ==
    LET own == {i \in 1..n : readings[i].party = p} IN IF own = {} THEN -1 ELSE Max(own)
\* The newest return of party p among the first n, or 0.
LatestReturn(p, n) ==
    LET own == {i \in 1..n : readings[i].party = p} IN IF own = {} THEN 0 ELSE Max(own)
LatestReturns == {LatestReturn(p, Len(readings)) : p \in Agencies} \ {0}
Newest == Len(proposals)
NewestIs(status) == Newest > 0 /\ proposals[Newest].status = status

\* Mutant: the latest reconciliation does not lock the returns.
WhileNotCancelled == plan.status # "cancelled"
\* Returns are taken until the newest reconciliation is final.
AcceptsReturns == plan.status # "cancelled" /\ ~NewestIs("final")

\* The newest proposal is a draft made from the returns as they stand.
CurrentDraft == NewestIs("draft") /\ proposals[Newest].sources = LatestReturns

\* Mutant: only missing agreements stop a finalization, not disputes.
AgreedByRequired(u) ==
    /\ proposals[Newest].by # u
    /\ \A p \in scope.agreements : proposals[Newest].decision[p] = "agreed"
\* No issue keeps member u from finalizing the newest proposal.
NoFinalizationIssue(u) ==
    /\ proposals[Newest].by # u
    /\ \A p \in Agencies : proposals[Newest].decision[p] # "disputed"
    /\ \A p \in scope.agreements : proposals[Newest].decision[p] = "agreed"

-----------------------------------------------------------------------------
(* Disparity billing.  Rates are in tenths of a cent, amounts in cents.    *)

Money(tenths) == (tenths + 5) \div 10
Chargeable(variance, t) ==
    IF variance <= t.tolerance THEN 0
    ELSE IF t.mode = "threshold" THEN variance ELSE variance - t.tolerance
Entitlement(q, t, l) == Money(Chargeable(q[l] - t.baseline[l], t) * t.rate)

Issued == {i \in 1..Len(assessments) : assessments[i].status = "issued"}
\* Mutant: the newest invoice stands for all that was invoiced before.
LastInvoice(l) == IF Issued = {} THEN 0 ELSE assessments[Max(Issued)].amount[l]
prior_invoiced(l) == SumFunction([i \in Issued |-> assessments[i].amount[l]])

AmountDue(q, t) ==
    [l \in Lines |-> Entitlement(q, t, l) - t.opening[l] - prior_invoiced(l)]
AssessmentStatus(q, t) ==
    LET due == AmountDue(q, t) IN
    IF \E l \in Lines : q[l] < t.baseline[l] \/ due[l] < 0 THEN "held"
    ELSE IF SumFunction(due) > 0 THEN "ready" ELSE "no-charge"

-----------------------------------------------------------------------------
(* The members' screens and forms.                                         *)

\* Every accepted change gives the plan a new version: all copies and open
\* forms age.  The sender's screen takes the answer, if it arrives, and its
\* form closes.
Changed(u, answered) ==
    /\ screen' = [v \in Staff |-> v = u /\ answered]
    /\ form' = [v \in Staff |->
           IF v = u /\ answered THEN Closed ELSE [form[v] EXCEPT !.current = FALSE]]
    /\ UNCHANGED scope

\* The screen asks again: every 30 s, and after a conflict.
Refetch(u) ==
    /\ ~screen[u]
    /\ screen' = [screen EXCEPT ![u] = TRUE]
    /\ UNCHANGED <<plan, readings, proposals, assessments, form, scope>>

\* A form of the reconciliation workspace; opening it again builds it anew.
OpenAction(u) ==
    /\ plan.status # "cancelled"
    /\ form' = [form EXCEPT ![u] = [Closed EXCEPT !.kind = "action",
                                                  !.current = screen[u]]]
    /\ UNCHANGED <<plan, readings, proposals, assessments, screen, scope>>

\* A row's button in the agency tracker.  A form that is already open for this
\* agency keeps its contents and takes the newer version number.
EnterReading(u, p) ==
    /\ u \in scope.trackers
    /\ screen[u] => AcceptsReturns
    /\ Len(readings) < scope.maxReadings
    /\ form' = [form EXCEPT ![u] =
           [kind |-> "reading", party |-> p, current |-> screen[u]]]
    /\ UNCHANGED <<plan, readings, proposals, assessments, screen, scope>>

CloseForm(u) ==
    /\ form[u] # Closed
    /\ form' = [form EXCEPT ![u] = Closed]
    /\ UNCHANGED <<plan, readings, proposals, assessments, screen, scope>>

\* The form's version is the plan's (check_version).
MaySend(u, kind) ==
    /\ form[u].kind = kind /\ form[u].current
    /\ plan.status # "cancelled"

-----------------------------------------------------------------------------
(* The requests.                                                           *)

\* A return is recorded after the party's earlier ones.
Record(p, by) ==
    /\ Len(readings) < scope.maxReadings
    /\ readings' = Append(readings, [party |-> p, by |-> by])
    /\ plan' = [plan EXCEPT !.status = "in-progress"]

SendReturn(u, p, answered) ==
    /\ \/ MaySend(u, "action")
       \/ MaySend(u, "reading") /\ form[u].party = p
    /\ AcceptsReturns
    /\ Record(p, "staff")
    /\ UNCHANGED <<proposals, assessments>>
    /\ Changed(u, answered)

\* A new version needs new acknowledgements.
NewProposal(u, q) ==
    [status |-> "draft", quantity |-> q, by |-> u, sources |-> LatestReturns,
     decision |-> [p \in Agencies |-> "none"], finalizedBy |-> NoOne]

Superseding(status) ==
    [i \in 1..Newest |-> IF proposals[i].status = status
                         THEN [proposals[i] EXCEPT !.status = "superseded"] ELSE proposals[i]]

Propose(u, q, answered) ==
    /\ MaySend(u, "action")
    /\ Newest < scope.maxProposals
    /\ LatestReturns # {}
    /\ \A p \in scope.returns : LatestReturn(p, Len(readings)) # 0
    /\ proposals' = Append(Superseding("draft"), NewProposal(u, q))
    /\ plan' = [plan EXCEPT !.status = "in-progress"]
    /\ UNCHANGED <<readings, assessments>>
    /\ Changed(u, answered)

Acknowledge(u, p, d, answered) ==
    /\ MaySend(u, "action")
    /\ CurrentDraft
    /\ proposals' = [proposals EXCEPT ![Newest].decision[p] = d]
    /\ UNCHANGED <<plan, readings, assessments>>
    /\ Changed(u, answered)

\* Sending it again for a finalized proposal answers without a change.
Finalize(u, answered) ==
    /\ MaySend(u, "action")
    /\ CurrentDraft /\ NoFinalizationIssue(u)
    /\ proposals' = [Superseding("final") EXCEPT ![Newest].status = "final",
                                                 ![Newest].finalizedBy = u]
    /\ plan' = [plan EXCEPT !.status = "reconciled"]
    /\ UNCHANGED <<readings, assessments>>
    /\ Changed(u, answered)

\* The first invoice fixes the billing configuration of the plan.
Assess(u, t, answered) ==
    /\ MaySend(u, "action")
    /\ NewestIs("final")
    /\ Len(assessments) < scope.maxAssessments
    /\ \A i \in Issued : assessments[i].terms = t
    /\ LET q == proposals[Newest].quantity IN
       assessments' = Append(assessments,
           [proposal |-> Newest, terms |-> t, amount |-> AmountDue(q, t),
            status |-> AssessmentStatus(q, t)])
    /\ UNCHANGED <<plan, readings, proposals>>
    /\ Changed(u, answered)

\* Only the newest assessment, of the newest and final proposal, is
\* invoiced; sending it again returns the invoice that exists.
Issue(u, answered) ==
    LET n == Len(assessments) IN
    /\ MaySend(u, "action")
    /\ n > 0 /\ assessments[n].proposal = Newest /\ NewestIs("final")
    /\ assessments[n].status = "ready"
    /\ assessments[n].amount =
           AmountDue(proposals[Newest].quantity, assessments[n].terms)
    /\ assessments' = [assessments EXCEPT ![n].status = "issued"]
    /\ UNCHANGED <<plan, readings, proposals>>
    /\ Changed(u, answered)

\* New details leave the participants and lines alone.
EditSchedule(u, s, answered) ==
    /\ MaySend(u, "action")
    /\ plan' = [plan EXCEPT !.schedule = s]
    /\ UNCHANGED <<readings, proposals, assessments>>
    /\ Changed(u, answered)

CancelPlan(u, answered) ==
    /\ MaySend(u, "action")
    /\ \A i \in 1..Newest : proposals[i].finalizedBy = NoOne
    /\ plan' = [plan EXCEPT !.status = "cancelled"]
    /\ UNCHANGED <<readings, proposals, assessments>>
    /\ Changed(u, answered)

StaffStep(u) ==
    \/ Refetch(u) \/ OpenAction(u) \/ CloseForm(u)
    \/ \E p \in scope.parties : EnterReading(u, p)
    \/ \E answered \in BOOLEAN :
          \/ Finalize(u, answered) \/ Issue(u, answered) \/ CancelPlan(u, answered)
          \/ \E p \in scope.parties : SendReturn(u, p, answered)
          \/ \E q \in scope.quantities : Propose(u, q, answered)
          \/ \E p \in scope.parties, d \in scope.decisions : Acknowledge(u, p, d, answered)
          \/ \E t \in scope.terms : Assess(u, t, answered)
          \/ \E s \in scope.schedules : EditSchedule(u, s, answered)

Next == \E u \in scope.staff : StaffStep(u)

Spec == Init /\ [][Next]_planVars

-----------------------------------------------------------------------------
(* Properties.                                                             *)

\* Every variable keeps its type.
TypeOK ==
    /\ plan \in [status : {"planned", "in-progress", "reconciled", "cancelled"},
                 schedule : Schedules]
    /\ readings \in Seq(Reading) /\ Len(readings) <= MaxReadings
    /\ proposals \in Seq(Proposal) /\ Len(proposals) <= MaxProposals
    /\ assessments \in Seq(Assessment) /\ Len(assessments) <= MaxAssessments
    /\ screen \in [Staff -> BOOLEAN] /\ scope \in Scopes
    /\ form \in [Staff -> Form]

\* What was once finalized had the agreement of every required agency, no
\* open dispute and an Admin who did not prepare it; the latest of them is
\* the one marked final. As long as no amendment is open it rests on the
\* newest return of every agency: no return slips in behind a final
\* reconciliation (finalize_reconciliation, assert_open).
FinalIsSound ==
    LET finalized == {i \in 1..Newest : proposals[i].finalizedBy # NoOne} IN
    /\ \A i \in finalized :
          /\ proposals[i].finalizedBy # proposals[i].by
          /\ \A p \in scope.agreements : proposals[i].decision[p] = "agreed"
          /\ \A p \in Agencies : proposals[i].decision[p] # "disputed"
    /\ \A i \in 1..Newest :
          proposals[i].status = "final" <=> finalized # {} /\ i = Max(finalized)
    /\ NewestIs("final") => proposals[Newest].sources = LatestReturns

\* However often the quantities are amended, the opening charges and all
\* invoices of a line add up to what the last invoiced quantities entitle
\* to, and no invoice line is a credit (create_assessment, issue_assessment).
BilledIsEntitlement ==
    Issued # {} =>
        LET last == assessments[Max(Issued)] IN
        \A l \in Lines :
            /\ last.terms.opening[l] + SumFunction([i \in Issued |-> assessments[i].amount[l]])
                   = Entitlement(proposals[last.proposal].quantity, last.terms, l)
            /\ \A i \in Issued : assessments[i].amount[l] >= 0
=============================================================================

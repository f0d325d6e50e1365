-------------------------- MODULE MeasurementProofs --------------------------
(****************************************************************************)
(* Proofs about a measurement plan and its agency portal: what is final was *)
(* agreed (FinalIsSound), what is invoiced adds up to what the quantities   *)
(* entitle to (BilledIsEntitlement), and an agency's links record one       *)
(* reading (OneLinkReading, NoFalseRefusal).                                *)
(****************************************************************************)
EXTENDS AgencyPortal, FiniteFacts

-----------------------------------------------------------------------------
(* The inductive invariant of a plan                                        *)

\* A proposal is only finalized by becoming final.
DraftsOpen ==
  \A i \in 1..Newest : proposals[i].status = "draft" => proposals[i].finalizedBy = NoOne

Finalized(i) == proposals[i].finalizedBy # NoOne

\* FinalIsSound, with the last of the finalized proposals told by what follows it.
FinalSound ==
  /\ \A i \in 1..Newest : Finalized(i) =>
       /\ proposals[i].finalizedBy # proposals[i].by
       /\ \A p \in scope.agreements : proposals[i].decision[p] = "agreed"
       /\ \A p \in Agencies : proposals[i].decision[p] # "disputed"
  /\ \A i \in 1..Newest :
       proposals[i].status = "final" <=>
         Finalized(i) /\ \A j \in 1..Newest : Finalized(j) => j <= i
  /\ NewestIs("final") => proposals[Newest].sources = LatestReturns

\* What may be or was invoiced holds no credit, and an assessment is of a proposal that exists.
AssessmentsSound ==
  \A i \in 1..Len(assessments) :
    /\ assessments[i].proposal <= Newest
    /\ assessments[i].status \in {"ready", "issued"} =>
         \A l \in Lines : assessments[i].amount[l] >= 0

\* BilledIsEntitlement, with the last invoice told by its being no older than the others.
BilledSound ==
  \A n \in Issued : (\A m \in Issued : m <= n) =>
    \A l \in Lines :
      assessments[n].terms.opening[l] + prior_invoiced(l)
        = Entitlement(proposals[assessments[n].proposal].quantity, assessments[n].terms, l)

PlanInv == TypeOK /\ DraftsOpen /\ FinalSound /\ AssessmentsSound /\ BilledSound

\* The invariant gives the properties of the plan.
LEMMA PlanInvImplies == PlanInv => TypeOK /\ FinalIsSound /\ BilledIsEntitlement
<1>. SUFFICES ASSUME PlanInv PROVE FinalIsSound /\ BilledIsEntitlement
  BY DEF PlanInv
<1>0. TypeOK /\ FinalSound /\ BilledSound /\ AssessmentsSound
  BY DEF PlanInv
<1>1. Newest \in Nat /\ Len(assessments) \in Nat
  BY <1>0 DEF TypeOK, Newest
<1>2. FinalIsSound
  <2>. DEFINE finalized == {i \in 1..Newest : proposals[i].finalizedBy # NoOne}
  <2>1. \A i \in finalized :
          /\ proposals[i].finalizedBy # proposals[i].by
          /\ \A p \in scope.agreements : proposals[i].decision[p] = "agreed"
          /\ \A p \in Agencies : proposals[i].decision[p] # "disputed"
    BY <1>0 DEF FinalSound, Finalized
  <2>2. finalized # {} => Max(finalized) \in finalized /\ \A y \in finalized : y <= Max(finalized)
    BY <1>1, MaxOf
  <2>3. ASSUME NEW i \in 1..Newest
        PROVE  proposals[i].status = "final" <=> finalized # {} /\ i = Max(finalized)
    <3>1. proposals[i].status = "final" <=> i \in finalized /\ \A j \in finalized : j <= i
      BY <1>0 DEF FinalSound, Finalized
    <3>2. ASSUME finalized # {}
          PROVE  i \in finalized /\ (\A j \in finalized : j <= i) <=> i = Max(finalized)
      <4>1. PICK m : m = Max(finalized)
        OBVIOUS
      <4>2. m \in finalized /\ \A y \in finalized : y <= m
        BY <2>2, <3>2, <4>1
      <4>3. m \in Nat /\ i \in Nat
        BY <1>1, <4>2
      <4>4. ASSUME i \in finalized, \A j \in finalized : j <= i PROVE i = m
        <5>1. m <= i /\ i <= m
          BY <4>2, <4>4
        <5>. QED
          BY <4>3, <5>1
      <4>. QED
        BY <4>1, <4>2, <4>4
    <3>. HIDE DEF finalized
    <3>. QED
      BY <3>1, <3>2
  <2>4. NewestIs("final") => proposals[Newest].sources = LatestReturns
    BY <1>0 DEF FinalSound
  <2>. QED
    BY <2>1, <2>3, <2>4 DEF FinalIsSound
<1>3. BilledIsEntitlement
  <2>1. SUFFICES ASSUME Issued # {} PROVE BilledIsEntitlement
    BY DEF BilledIsEntitlement
  <2>2. Max(Issued) \in Issued /\ \A y \in Issued : y <= Max(Issued)
    <3>1. Issued \in SUBSET (1..Len(assessments))
      BY DEF Issued
    <3>. QED
      BY <1>1, <2>1, <3>1, MaxOf
  <2>. DEFINE n == Max(Issued)
  <2>3. \A l \in Lines :
          assessments[n].terms.opening[l] + prior_invoiced(l)
            = Entitlement(proposals[assessments[n].proposal].quantity, assessments[n].terms, l)
    BY <1>0, <2>2 DEF BilledSound
  <2>4. \A i \in Issued : \A l \in Lines : assessments[i].amount[l] >= 0
    BY <1>0 DEF AssessmentsSound, Issued
  <2>. HIDE DEF n
  <2>. QED
    BY <2>3, <2>4, Zenon DEF BilledIsEntitlement, prior_invoiced, n
<1>. QED
  BY <1>2, <1>3

-----------------------------------------------------------------------------
(* The steps of a plan                                                      *)

\* What the scope of a behaviour allows.
LEMMA ScopeFacts == ASSUME TypeOK PROVE PlanScope(scope) /\ scope \in Scopes
BY PlanAssumption DEF TypeOK

\* The newest return of a party is one of the returns.
LEMMA LatestReturnType ==
  ASSUME TypeOK
  PROVE  /\ \A p : LatestReturn(p, Len(readings)) \in 0..Len(readings)
         /\ LatestReturns \in SUBSET (1..MaxReadings)
<1>1. Len(readings) \in Nat /\ Len(readings) <= MaxReadings /\ MaxReadings \in Nat
  BY PlanAssumption DEF TypeOK
<1>2. ASSUME NEW p PROVE LatestReturn(p, Len(readings)) \in 0..Len(readings)
  <2>. DEFINE own == {i \in 1..Len(readings) : readings[i].party = p}
  <2>1. own # {} => Max(own) \in own
    BY <1>1, MaxOf
  <2>2. own # {} => Max(own) \in 0..Len(readings)
    BY <1>1, <2>1
  <2>. QED
    BY <1>1, <2>2 DEF LatestReturn
<1>3. LatestReturns \in SUBSET (1..MaxReadings)
  BY <1>1, <1>2 DEF LatestReturns
<1>. QED
  BY <1>2, <1>3

\* Screens and forms after an accepted change.
LEMMA ChangedType ==
  ASSUME TypeOK, NEW u, NEW answered \in BOOLEAN, Changed(u, answered)
  PROVE  /\ screen' \in [Staff -> BOOLEAN] /\ form' \in [Staff -> Form] /\ scope' = scope
<1>1. Closed \in Form
  BY DEF Closed, Form
<1>2. ASSUME NEW v \in Staff
      PROVE  form[v] \in Form /\ [form[v] EXCEPT !.current = FALSE] \in Form
  <2>1. form[v] \in Form
    BY DEF TypeOK
  <2>. QED
    BY ONLY <2>1 DEF Form
<1>. QED
  BY <1>1, <1>2 DEF Changed

\* Sums and amounts are integers.
LEMMA PriorType == ASSUME TypeOK PROVE IsFiniteSet(Issued) /\ \A l \in Lines : prior_invoiced(l) \in Int
<1>1. Issued \in SUBSET (1..Len(assessments)) /\ Len(assessments) \in Nat
  BY DEF TypeOK, Issued
<1>2. IsFiniteSet(Issued)
  <2>1. IsFiniteSet(1..Len(assessments))
    BY <1>1, FS_Interval
  <2>. QED
    BY <1>1, <2>1, FS_Subset
<1>3. ASSUME NEW l \in Lines PROVE prior_invoiced(l) \in Int
  <2>. DEFINE f == [i \in Issued |-> assessments[i].amount[l]]
  <2>1. \A i \in Issued : assessments[i] \in Assessment
    BY <1>1 DEF TypeOK
  <2>2. \A i \in Issued : f[i] \in Int
    BY <2>1 DEF Assessment
  <2>3. DOMAIN f = Issued
    OBVIOUS
  <2>. HIDE DEF f
  <2>4. SumFunction(f) \in Int
    BY <1>2, <2>2, <2>3, SumType DEF SumFunction
  <2>. QED
    BY <2>4 DEF prior_invoiced, f
<1>. QED
  BY <1>2, <1>3

\* What the billing terms hold, and what quantities entitle to, are integers.
LEMMA EntitlementType ==
  ASSUME NEW q \in Quantities, NEW t \in Terms, NEW l \in Lines
  PROVE  Entitlement(q, t, l) \in Int /\ t.opening[l] \in Int
<1>1. /\ q[l] \in Int /\ t.baseline[l] \in Int /\ t.opening[l] \in Int
      /\ t.rate \in Int /\ t.tolerance \in Int
  BY PlanAssumption
<1>2. Chargeable(q[l] - t.baseline[l], t) \in Int
  BY <1>1 DEF Chargeable
<1>3. PICK c \in Int : c = Chargeable(q[l] - t.baseline[l], t) * t.rate
  BY <1>1, <1>2
<1>4. Money(c) \in Int
  BY DEF Money
<1>. QED
  BY <1>1, <1>3, <1>4 DEF Entitlement

\* The amount due closes the gap between what is billed and the entitlement.
LEMMA AmountType ==
  ASSUME TypeOK, NEW q \in Quantities, NEW t \in Terms
  PROVE  /\ AmountDue(q, t) \in [Lines -> Int]
         /\ \A l \in Lines : t.opening[l] + prior_invoiced(l) + AmountDue(q, t)[l] = Entitlement(q, t, l)
<1>1. ASSUME NEW l \in Lines
      PROVE  /\ AmountDue(q, t)[l] \in Int
             /\ t.opening[l] + prior_invoiced(l) + AmountDue(q, t)[l] = Entitlement(q, t, l)
  <2>1. PICK e \in Int, o \in Int, p \in Int :
          e = Entitlement(q, t, l) /\ o = t.opening[l] /\ p = prior_invoiced(l)
    BY EntitlementType, PriorType
  <2>2. AmountDue(q, t)[l] = e - o - p
    BY <2>1 DEF AmountDue
  <2>. QED
    BY <2>1, <2>2
<1>2. AmountDue(q, t) = [l \in Lines |-> AmountDue(q, t)[l]]
  BY DEF AmountDue
<1>. QED
  BY <1>1, <1>2

\* What was invoiced before, when the assessments do not change.
LEMMA PriorKept ==
  ASSUME UNCHANGED assessments
  PROVE  Issued' = Issued /\ \A l : prior_invoiced(l)' = prior_invoiced(l)
BY DEF Issued, prior_invoiced

\* Steps that make no proposal and no assessment; a final proposal admits no return.
LEMMA PlanQuiet ==
  ASSUME PlanInv, UNCHANGED <<proposals, assessments, scope>>,
         plan' \in [status : {"planned", "in-progress", "reconciled", "cancelled"},
                    schedule : Schedules],
         readings' \in Seq(Reading), Len(readings') <= MaxReadings,
         readings' = readings \/ ~NewestIs("final"),
         screen' \in [Staff -> BOOLEAN], form' \in [Staff -> Form]
  PROVE  PlanInv'
<1>1. TypeOK'
  BY DEF PlanInv, TypeOK
<1>2. DraftsOpen' /\ AssessmentsSound'
  BY DEF PlanInv, DraftsOpen, AssessmentsSound, Newest
<1>3. FinalSound'
  <2>1. NewestIs("final")' => NewestIs("final")
    BY DEF NewestIs, Newest
  <2>2. readings' = readings => LatestReturns' = LatestReturns
    BY DEF LatestReturns, LatestReturn
  <2>. QED
    BY <2>1, <2>2 DEF PlanInv, FinalSound, Finalized, Newest
<1>4. BilledSound'
  BY PriorKept DEF PlanInv, BilledSound
<1>. QED
  BY <1>1, <1>2, <1>3, <1>4 DEF PlanInv

\* Steps that only change proposals, without changing a quantity.
LEMMA BilledKept ==
  ASSUME PlanInv, UNCHANGED assessments, proposals' \in Seq(Proposal), Newest <= Newest',
         \A i \in 1..Newest : proposals'[i].quantity = proposals[i].quantity
  PROVE  AssessmentsSound' /\ BilledSound'
<1>0. TypeOK
  BY DEF PlanInv
<1>1. Newest \in Nat /\ Newest' \in Nat
  BY <1>0 DEF TypeOK, Newest
<1>2. \A i \in 1..Len(assessments) : assessments[i].proposal \in 1..Newest
  <2>1. ASSUME NEW i \in 1..Len(assessments) PROVE assessments[i].proposal \in 1..Newest
    <3>1. assessments[i] \in Assessment
      BY <1>0 DEF TypeOK
    <3>2. assessments[i].proposal \in 1..MaxProposals /\ assessments[i].proposal <= Newest
      BY <3>1 DEF Assessment, PlanInv, AssessmentsSound
    <3>. QED
      BY <1>1, <3>2
  <2>. QED
    BY <2>1
<1>3. AssessmentsSound'
  BY <1>1, <1>2 DEF PlanInv, AssessmentsSound
<1>4. \A n \in Issued : proposals'[assessments[n].proposal].quantity
                          = proposals[assessments[n].proposal].quantity
  BY <1>2 DEF Issued
<1>5. BilledSound'
  BY <1>4, PriorKept DEF PlanInv, BilledSound
<1>. QED
  BY <1>3, <1>5

\* A screen asks again, a form is opened or closed.
LEMMA DeskKeeps ==
  ASSUME PlanInv, NEW u \in Staff,
         \/ Refetch(u) \/ OpenAction(u) \/ CloseForm(u)
         \/ \E p \in scope.parties : EnterReading(u, p)
  PROVE  PlanInv'
<1>0. TypeOK
  BY DEF PlanInv
<1>1. UNCHANGED <<plan, readings, proposals, assessments, scope>>
  BY DEF Refetch, OpenAction, CloseForm, EnterReading
<1>2. screen' \in [Staff -> BOOLEAN] /\ form' \in [Staff -> Form]
  <2>1. CASE Refetch(u)
    BY <1>0, <2>1 DEF TypeOK, Refetch
  <2>2. CASE OpenAction(u)
    <3>1. [Closed EXCEPT !.kind = "action", !.current = screen[u]] \in Form
      BY <1>0 DEF TypeOK, Closed, Form
    <3>. QED
      BY <1>0, <2>2, <3>1 DEF TypeOK, OpenAction
  <2>3. CASE CloseForm(u)
    <3>1. Closed \in Form
      BY DEF Closed, Form
    <3>. QED
      BY <1>0, <2>3, <3>1 DEF TypeOK, CloseForm
  <2>4. ASSUME NEW p \in scope.parties, EnterReading(u, p)
        PROVE  screen' \in [Staff -> BOOLEAN] /\ form' \in [Staff -> Form]
    <3>1. p \in Agencies
      BY <1>0, ScopeFacts DEF PlanScope
    <3>2. [kind |-> "reading", party |-> p, current |-> screen[u]] \in Form
      BY <1>0, <3>1 DEF TypeOK, Form
    <3>. QED
      BY <1>0, <2>4, <3>2 DEF TypeOK, EnterReading
  <2>. QED
    BY <2>1, <2>2, <2>3, <2>4
<1>. QED
  BY <1>0, <1>1, <1>2, PlanQuiet DEF TypeOK

\* A return is recorded, by staff or through a link.
LEMMA RecordKeeps ==
  ASSUME PlanInv, NEW p \in Agencies, NEW by \in {"staff", "agency"}, NEW u,
         NEW answered \in BOOLEAN, AcceptsReturns, Record(p, by),
         UNCHANGED <<proposals, assessments>>, Changed(u, answered)
  PROVE  /\ PlanInv'
         /\ readings' = Append(readings, [party |-> p, by |-> by]) /\ scope' = scope
<1>0. TypeOK
  BY DEF PlanInv
<1>1. [party |-> p, by |-> by] \in Reading
  BY DEF Reading
<1>2. Len(readings) < scope.maxReadings /\ scope.maxReadings \in 0..MaxReadings
  BY <1>0, ScopeFacts DEF Record, PlanScope
<1>3. /\ readings' = Append(readings, [party |-> p, by |-> by])
      /\ plan' = [plan EXCEPT !.status = "in-progress"]
  BY DEF Record
<1>4. readings' \in Seq(Reading) /\ Len(readings') <= MaxReadings
  BY <1>0, <1>1, <1>2, <1>3, PlanAssumption DEF TypeOK
<1>5. plan' \in [status : {"planned", "in-progress", "reconciled", "cancelled"},
                 schedule : Schedules]
  BY <1>0, <1>3 DEF TypeOK
<1>6. ~NewestIs("final")
  BY DEF AcceptsReturns
<1>. QED
  BY <1>0, <1>3, <1>4, <1>5, <1>6, ChangedType, PlanQuiet

\* Staff record a return.
LEMMA SendReturnKeeps ==
  ASSUME PlanInv, NEW u, NEW p \in scope.parties, NEW answered \in BOOLEAN, SendReturn(u, p, answered)
  PROVE  /\ PlanInv' /\ scope' = scope
         /\ readings' = Append(readings, [party |-> p, by |-> "staff"])
<1>1. p \in Agencies
  BY ScopeFacts DEF PlanInv, PlanScope
<1>. QED
  BY <1>1, RecordKeeps DEF SendReturn

\* The schedule changes, or the plan is cancelled.
LEMMA PlanStatusKeeps ==
  ASSUME PlanInv, NEW u, NEW answered \in BOOLEAN,
         CancelPlan(u, answered) \/ \E s \in scope.schedules : EditSchedule(u, s, answered)
  PROVE  PlanInv'
<1>0. TypeOK
  BY DEF PlanInv
<1>1. UNCHANGED <<readings, proposals, assessments>> /\ Changed(u, answered)
  BY DEF CancelPlan, EditSchedule
<1>2. plan' \in [status : {"planned", "in-progress", "reconciled", "cancelled"},
                 schedule : Schedules]
  <2>1. CASE CancelPlan(u, answered)
    BY <1>0, <2>1 DEF TypeOK, CancelPlan
  <2>2. ASSUME NEW s \in scope.schedules, EditSchedule(u, s, answered)
        PROVE  plan' \in [status : {"planned", "in-progress", "reconciled", "cancelled"},
                          schedule : Schedules]
    <3>1. s \in Schedules
      BY <1>0, ScopeFacts DEF PlanScope
    <3>. QED
      BY <1>0, <2>2, <3>1 DEF TypeOK, EditSchedule
  <2>. QED
    BY <2>1, <2>2
<1>. QED
  BY <1>0, <1>1, <1>2, ChangedType, PlanQuiet DEF TypeOK

\* A proposal is made, and the one it replaces is no longer a draft.
LEMMA ProposeKeeps ==
  ASSUME PlanInv, NEW u \in Staff, NEW q \in Quantities, NEW answered \in BOOLEAN,
         Propose(u, q, answered)
  PROVE  PlanInv'
<1>0. TypeOK
  BY DEF PlanInv
<1>n. PICK n \in Nat : n = Newest
  BY <1>0 DEF TypeOK, Newest
<1>. DEFINE new == NewProposal(u, q)
<1>1. /\ proposals' = Append(Superseding("draft"), new)
      /\ n < scope.maxProposals /\ scope.maxProposals \in 0..MaxProposals
      /\ UNCHANGED <<readings, assessments>>
      /\ plan' = [plan EXCEPT !.status = "in-progress"] /\ Changed(u, answered)
  BY <1>0, <1>n, ScopeFacts DEF Propose, PlanScope
<1>2. /\ new \in Proposal /\ new.status = "draft" /\ new.finalizedBy = NoOne
  BY <1>0, LatestReturnType DEF NewProposal, Proposal, Decisions
<1>3. n \in Nat /\ \A i \in 1..n : proposals[i] \in Proposal
  BY <1>0, <1>n DEF TypeOK, Newest
<1>4. Superseding("draft") \in Seq(Proposal) /\ Len(Superseding("draft")) = n
  <2>1. \A i \in 1..n : [proposals[i] EXCEPT !.status = "superseded"] \in Proposal
    BY <1>3 DEF Proposal
  <2>2. Superseding("draft") \in [1..n -> Proposal]
    BY <1>n, <1>3, <2>1 DEF Superseding
  <2>. QED
    BY <1>3, <2>2
<1>5. /\ proposals' \in Seq(Proposal) /\ Newest' = n + 1 /\ proposals'[n + 1] = new
      /\ \A i \in 1..n : proposals'[i] = Superseding("draft")[i]
  BY <1>1, <1>2, <1>3, <1>4 DEF Newest
<1>6. ASSUME NEW i \in 1..n
      PROVE  /\ proposals'[i].quantity = proposals[i].quantity
             /\ proposals'[i].finalizedBy = proposals[i].finalizedBy
             /\ proposals'[i].by = proposals[i].by
             /\ proposals'[i].decision = proposals[i].decision
             /\ proposals'[i].status = IF proposals[i].status = "draft" THEN "superseded"
                                       ELSE proposals[i].status
  <2>1. proposals'[i] = IF proposals[i].status = "draft"
                        THEN [proposals[i] EXCEPT !.status = "superseded"] ELSE proposals[i]
    BY <1>n, <1>3, <1>5 DEF Superseding
  <2>2. proposals[i] \in Proposal
    BY <1>3
  <2>. QED
    BY <2>1, <2>2 DEF Proposal
<1>. HIDE DEF new
<1>7. TypeOK'
  <2>1. Len(proposals') <= MaxProposals
    <3>1. Newest' <= MaxProposals
      BY <1>1, <1>3, <1>5, PlanAssumption
    <3>. QED
      BY <3>1 DEF Newest
  <2>2. plan' \in [status : {"planned", "in-progress", "reconciled", "cancelled"},
                   schedule : Schedules]
    BY <1>0, <1>1 DEF TypeOK
  <2>. QED
    BY <1>0, <1>1, <1>5, <2>1, <2>2, ChangedType DEF TypeOK
<1>8. DraftsOpen'
  BY <1>n, <1>2, <1>3, <1>5, <1>6 DEF PlanInv, DraftsOpen
<1>9. FinalSound'
  <2>0. scope' = scope
    BY <1>0, <1>1, ChangedType
  <2>1. /\ \A i \in 1..n : Finalized(i)' <=> Finalized(i)
        /\ ~Finalized(n + 1)'
    BY <1>2, <1>5, <1>6 DEF Finalized
  <2>2. ASSUME NEW i \in 1..Newest', Finalized(i)'
        PROVE  /\ proposals'[i].finalizedBy # proposals'[i].by
               /\ \A p \in scope'.agreements : proposals'[i].decision[p] = "agreed"
               /\ \A p \in Agencies : proposals'[i].decision[p] # "disputed"
    <3>1. i \in 1..n /\ Finalized(i)
      BY <1>3, <1>5, <2>1, <2>2
    <3>. QED
      BY <1>n, <1>6, <2>0, <3>1 DEF PlanInv, FinalSound
  <2>3. ASSUME NEW i \in 1..Newest'
        PROVE  proposals'[i].status = "final" <=>
                 Finalized(i)' /\ \A j \in 1..Newest' : Finalized(j)' => j <= i
    <3>1. CASE i = n + 1
      BY <1>2, <1>5, <2>1, <3>1
    <3>2. CASE i \in 1..n
      <4>1. proposals[i].status = "final" <=> Finalized(i) /\ \A j \in 1..n : Finalized(j) => j <= i
        BY <1>n, <3>2 DEF PlanInv, FinalSound
      <4>2. (\A j \in 1..Newest' : Finalized(j)' => j <= i) <=> (\A j \in 1..n : Finalized(j) => j <= i)
        BY <1>3, <1>5, <2>1
      <4>. QED
        BY <1>6, <2>1, <3>2, <4>1, <4>2
    <3>. QED
      BY <1>3, <1>5, <3>1, <3>2
  <2>4. ~NewestIs("final")'
    BY <1>2, <1>5 DEF NewestIs
  <2>. QED
    BY <2>2, <2>3, <2>4 DEF FinalSound
<1>10. AssessmentsSound' /\ BilledSound'
  <2>1. Newest <= Newest'
    BY <1>n, <1>3, <1>5
  <2>. QED
    BY <1>n, <1>1, <1>5, <1>6, <2>1, BilledKept
<1>. QED
  BY <1>7, <1>8, <1>9, <1>10 DEF PlanInv

\* An agency's answer is noted on the newest proposal, which is a draft.
LEMMA AcknowledgeKeeps ==
  ASSUME PlanInv, NEW u \in Staff, NEW a \in Agencies, NEW d \in Decisions,
         NEW answered \in BOOLEAN, Acknowledge(u, a, d, answered)
  PROVE  PlanInv'
<1>0. TypeOK
  BY DEF PlanInv
<1>n. PICK n \in Nat : n = Newest
  BY <1>0 DEF TypeOK, Newest
<1>1. /\ proposals' = [proposals EXCEPT ![n].decision[a] = d]
      /\ UNCHANGED <<plan, readings, assessments>> /\ Changed(u, answered)
      /\ n > 0 /\ proposals[n].status = "draft"
  BY <1>n DEF Acknowledge, CurrentDraft, NewestIs
<1>2. /\ proposals \in Seq(Proposal) /\ Len(proposals) = n /\ n \in 1..n
      /\ proposals[n] \in Proposal
  BY <1>0, <1>n, <1>1 DEF TypeOK, Newest
<1>. DEFINE noted == [proposals[n] EXCEPT !.decision = [@ EXCEPT ![a] = d]]
<1>3. /\ noted \in Proposal /\ noted.status = "draft"
      /\ noted.finalizedBy = proposals[n].finalizedBy /\ noted.quantity = proposals[n].quantity
  BY <1>1, <1>2 DEF Proposal
<1>4. proposals' = [proposals EXCEPT ![n] = noted]
  BY <1>1, <1>2
<1>. HIDE DEF noted
<1>5. /\ proposals' \in Seq(Proposal) /\ Newest' = n /\ proposals'[n] = noted
      /\ \A i \in 1..n : i # n => proposals'[i] = proposals[i]
  BY <1>2, <1>3, <1>4 DEF Newest
<1>6. TypeOK'
  <2>1. Len(proposals') <= MaxProposals
    BY <1>0, <1>2, <1>5 DEF Newest, TypeOK
  <2>. QED
    BY <1>0, <1>1, <1>5, <2>1, ChangedType DEF TypeOK
<1>7. proposals[n].finalizedBy = NoOne
  BY <1>n, <1>1, <1>2 DEF PlanInv, DraftsOpen
<1>8. DraftsOpen'
  BY <1>n, <1>3, <1>5, <1>7 DEF PlanInv, DraftsOpen
<1>9. FinalSound'
  <2>0. scope' = scope
    BY <1>0, <1>1, ChangedType
  <2>1. /\ \A i \in 1..n : Finalized(i)' <=> Finalized(i)
        /\ ~Finalized(n)
    BY <1>3, <1>5, <1>7 DEF Finalized
  <2>2. ASSUME NEW i \in 1..n, Finalized(i)'
        PROVE  /\ proposals'[i].finalizedBy # proposals'[i].by
               /\ \A p \in scope'.agreements : proposals'[i].decision[p] = "agreed"
               /\ \A p \in Agencies : proposals'[i].decision[p] # "disputed"
    <3>1. i # n /\ Finalized(i) /\ proposals'[i] = proposals[i]
      BY <1>5, <2>1, <2>2
    <3>. QED
      BY <1>n, <2>0, <3>1 DEF PlanInv, FinalSound
  <2>3. ASSUME NEW i \in 1..n
        PROVE  proposals'[i].status = "final" <=>
                 Finalized(i)' /\ \A j \in 1..n : Finalized(j)' => j <= i
    <3>1. proposals[i].status = "final" <=> Finalized(i) /\ \A j \in 1..n : Finalized(j) => j <= i
      BY <1>n DEF PlanInv, FinalSound
    <3>2. proposals'[i].status = proposals[i].status
      BY <1>1, <1>3, <1>5
    <3>. QED
      BY <2>1, <3>1, <3>2
  <2>4. ~NewestIs("final")'
    BY <1>3, <1>5 DEF NewestIs
  <2>. QED
    BY <1>5, <2>2, <2>3, <2>4 DEF FinalSound
<1>10. AssessmentsSound' /\ BilledSound'
  <2>1. \A i \in 1..n : proposals'[i].quantity = proposals[i].quantity
    BY <1>3, <1>5
  <2>2. Newest <= Newest'
    BY <1>n, <1>5
  <2>. QED
    BY <1>n, <1>1, <1>5, <2>1, <2>2, BilledKept
<1>. QED
  BY <1>6, <1>8, <1>9, <1>10 DEF PlanInv

\* An Admin who did not prepare it finalizes the newest proposal; it is the last that was.
LEMMA FinalizeKeeps ==
  ASSUME PlanInv, NEW u \in Staff, NEW answered \in BOOLEAN, Finalize(u, answered)
  PROVE  PlanInv'
<1>0. TypeOK
  BY DEF PlanInv
<1>n. PICK n \in Nat : n = Newest
  BY <1>0 DEF TypeOK, Newest
<1>1. /\ proposals' = [Superseding("final") EXCEPT ![n].status = "final", ![n].finalizedBy = u]
      /\ UNCHANGED <<readings, assessments>> /\ Changed(u, answered)
      /\ plan' = [plan EXCEPT !.status = "reconciled"]
      /\ n > 0 /\ proposals[n].status = "draft" /\ proposals[n].sources = LatestReturns
      /\ proposals[n].by # u
      /\ \A p \in Agencies : proposals[n].decision[p] # "disputed"
      /\ \A p \in scope.agreements : proposals[n].decision[p] = "agreed"
  BY <1>n DEF Finalize, CurrentDraft, NewestIs, NoFinalizationIssue
<1>2. n \in 1..n /\ \A i \in 1..n : proposals[i] \in Proposal
  BY <1>0, <1>n, <1>1 DEF TypeOK, Newest
<1>. DEFINE old == Superseding("final")
            done == [proposals[n] EXCEPT !.status = "final", !.finalizedBy = u]
<1>3. /\ done \in Proposal /\ done.status = "final" /\ done.finalizedBy = u
      /\ done.by = proposals[n].by /\ done.quantity = proposals[n].quantity
      /\ done.decision = proposals[n].decision /\ done.sources = proposals[n].sources
  BY <1>2 DEF Proposal
<1>4. /\ old = [i \in 1..n |-> IF proposals[i].status = "final"
                               THEN [proposals[i] EXCEPT !.status = "superseded"] ELSE proposals[i]]
      /\ old[n] = proposals[n]
  BY <1>n, <1>1, <1>2 DEF Superseding
<1>5. proposals' = [old EXCEPT ![n] = done]
  BY <1>1, <1>2, <1>4
<1>. HIDE DEF done
<1>6. ASSUME NEW i \in 1..n, i # n
      PROVE  /\ proposals'[i] \in Proposal
             /\ proposals'[i].quantity = proposals[i].quantity
             /\ proposals'[i].finalizedBy = proposals[i].finalizedBy
             /\ proposals'[i].by = proposals[i].by
             /\ proposals'[i].decision = proposals[i].decision
             /\ proposals'[i].status = IF proposals[i].status = "final" THEN "superseded"
                                       ELSE proposals[i].status
  <2>1. proposals'[i] = IF proposals[i].status = "final"
                        THEN [proposals[i] EXCEPT !.status = "superseded"] ELSE proposals[i]
    BY <1>4, <1>5, <1>6
  <2>2. proposals[i] \in Proposal
    BY <1>2
  <2>. QED
    BY <2>1, <2>2 DEF Proposal
<1>7. /\ proposals' \in Seq(Proposal) /\ Newest' = n /\ Len(proposals') = n /\ proposals'[n] = done
  <2>1. proposals'[n] = done /\ DOMAIN proposals' = 1..n
    BY <1>2, <1>4, <1>5
  <2>2. proposals' = [i \in 1..n |-> proposals'[i]]
    BY <1>4, <1>5
  <2>3. \A i \in 1..n : proposals'[i] \in Proposal
    BY <1>3, <1>6, <2>1
  <2>4. proposals' \in [1..n -> Proposal]
    BY <2>2, <2>3
  <2>. QED
    BY <2>1, <2>4 DEF Newest
<1>. HIDE DEF old
<1>8. TypeOK'
  <2>1. Len(proposals') <= MaxProposals
    BY <1>0, <1>n, <1>7 DEF TypeOK, Newest
  <2>2. plan' \in [status : {"planned", "in-progress", "reconciled", "cancelled"},
                   schedule : Schedules]
    BY <1>0, <1>1 DEF TypeOK
  <2>. QED
    BY <1>0, <1>1, <1>7, <2>1, <2>2, ChangedType DEF TypeOK
<1>9. u # NoOne
  BY PlanAssumption
<1>10. DraftsOpen'
  BY <1>n, <1>3, <1>6, <1>7 DEF PlanInv, DraftsOpen
<1>11. FinalSound'
  <2>0. scope' = scope /\ LatestReturns' = LatestReturns
    BY <1>0, <1>1, ChangedType DEF LatestReturns, LatestReturn
  <2>1. /\ \A i \in 1..n : i # n => (Finalized(i)' <=> Finalized(i))
        /\ Finalized(n)'
    BY <1>3, <1>6, <1>7, <1>9 DEF Finalized
  <2>2. ASSUME NEW i \in 1..n, Finalized(i)'
        PROVE  /\ proposals'[i].finalizedBy # proposals'[i].by
               /\ \A p \in scope'.agreements : proposals'[i].decision[p] = "agreed"
               /\ \A p \in Agencies : proposals'[i].decision[p] # "disputed"
    <3>1. CASE i = n
      BY <1>1, <1>3, <1>7, <2>0, <3>1
    <3>2. CASE i # n
      BY <1>n, <1>6, <2>0, <2>1, <2>2, <3>2 DEF PlanInv, FinalSound
    <3>. QED
      BY <3>1, <3>2
  <2>3. ASSUME NEW i \in 1..n
        PROVE  proposals'[i].status = "final" <=>
                 Finalized(i)' /\ \A j \in 1..n : Finalized(j)' => j <= i
    <3>1. CASE i = n
      BY <1>3, <1>7, <2>1, <3>1
    <3>2. CASE i # n
      <4>1. ~(n <= i) /\ proposals'[i].status # "final"
        BY <1>6, <3>2
      <4>. QED
        BY <1>2, <2>1, <4>1
    <3>. QED
      BY <3>1, <3>2
  <2>4. proposals'[n].sources = LatestReturns'
    BY <1>1, <1>3, <1>7, <2>0
  <2>. QED
    BY <1>7, <2>2, <2>3, <2>4 DEF FinalSound
<1>12. AssessmentsSound' /\ BilledSound'
  <2>1. \A i \in 1..n : proposals'[i].quantity = proposals[i].quantity
    BY <1>3, <1>6, <1>7
  <2>2. Newest <= Newest'
    BY <1>n, <1>7
  <2>. QED
    BY <1>n, <1>1, <1>7, <2>1, <2>2, BilledKept
<1>. QED
  BY <1>8, <1>10, <1>11, <1>12 DEF PlanInv

\* An assessment of the final quantities is added; nothing is invoiced by it.
LEMMA AssessKeeps ==
  ASSUME PlanInv, NEW u \in Staff, NEW t \in Terms, NEW answered \in BOOLEAN, Assess(u, t, answered)
  PROVE  PlanInv'
<1>0. TypeOK
  BY DEF PlanInv
<1>n. PICK n \in Nat : n = Len(assessments)
  BY <1>0 DEF TypeOK
<1>. DEFINE q == proposals[Newest].quantity
            new == [proposal |-> Newest, terms |-> t, amount |-> AmountDue(q, t),
                    status |-> AssessmentStatus(q, t)]
<1>1. /\ assessments' = Append(assessments, new) /\ UNCHANGED <<plan, readings, proposals>>
      /\ Changed(u, answered) /\ NewestIs("final")
      /\ n < scope.maxAssessments /\ scope.maxAssessments \in 0..MaxAssessments
  BY <1>0, <1>n, ScopeFacts DEF Assess, PlanScope
<1>2. Newest \in 1..MaxProposals /\ q \in Quantities
  <2>1. Newest \in 1..Len(proposals) /\ Len(proposals) <= MaxProposals
    BY <1>0, <1>1 DEF TypeOK, NewestIs, Newest
  <2>2. proposals[Newest] \in Proposal
    BY <1>0, <2>1 DEF TypeOK
  <2>. QED
    BY <2>1, <2>2, PlanAssumption DEF Proposal
<1>3. AmountDue(q, t) \in [Lines -> Int]
  BY <1>0, <1>2, AmountType
<1>4. /\ AssessmentStatus(q, t) \in {"held", "ready", "no-charge"}
      /\ AssessmentStatus(q, t) = "ready" => \A l \in Lines : ~(AmountDue(q, t)[l] < 0)
  BY DEF AssessmentStatus
<1>5. /\ new \in Assessment /\ new.status # "issued" /\ new.proposal = Newest
      /\ new.status = "ready" => \A l \in Lines : new.amount[l] >= 0
  BY <1>2, <1>3, <1>4 DEF Assessment
<1>. HIDE DEF new, q
<1>6. /\ assessments' \in Seq(Assessment) /\ Len(assessments') = n + 1
      /\ assessments'[n + 1] = new /\ \A i \in 1..n : assessments'[i] = assessments[i]
  BY <1>0, <1>n, <1>1, <1>5 DEF TypeOK
<1>7. TypeOK'
  <2>1. Len(assessments') <= MaxAssessments
    BY <1>1, <1>6, PlanAssumption
  <2>. QED
    BY <1>0, <1>1, <1>6, <2>1, ChangedType DEF TypeOK
<1>8. DraftsOpen'
  BY <1>1 DEF PlanInv, DraftsOpen, Newest
<1>9. FinalSound'
  <2>1. scope' = scope /\ LatestReturns' = LatestReturns
    BY <1>0, <1>1, ChangedType DEF LatestReturns, LatestReturn
  <2>. QED
    BY <1>1, <2>1 DEF PlanInv, FinalSound, Finalized, Newest, NewestIs
<1>10. AssessmentsSound'
  <2>1. Newest' = Newest
    BY <1>1 DEF Newest
  <2>2. ASSUME NEW i \in 1..(n + 1)
        PROVE  /\ assessments'[i].proposal <= Newest
               /\ assessments'[i].status \in {"ready", "issued"} =>
                    \A l \in Lines : assessments'[i].amount[l] >= 0
    <3>1. CASE i = n + 1
      BY <1>2, <1>5, <1>6, <3>1
    <3>2. CASE i # n + 1
      BY <1>n, <1>6, <3>2 DEF PlanInv, AssessmentsSound
    <3>. QED
      BY <3>1, <3>2
  <2>. QED
    BY <1>6, <2>1, <2>2 DEF AssessmentsSound
<1>11. BilledSound'
  <2>1. Issued' = Issued
    BY <1>n, <1>5, <1>6 DEF Issued
  <2>2. \A i \in Issued : assessments'[i] = assessments[i]
    BY <1>n, <1>6 DEF Issued
  <2>3. ASSUME NEW l PROVE prior_invoiced(l)' = prior_invoiced(l)
    BY <2>1, <2>2 DEF prior_invoiced
  <2>. QED
    BY <1>1, <2>1, <2>2, <2>3 DEF PlanInv, BilledSound
<1>. QED
  BY <1>7, <1>8, <1>9, <1>10, <1>11 DEF PlanInv

\* The newest assessment is invoiced: it closes the gap to what the quantities entitle to.
LEMMA IssueKeeps ==
  ASSUME PlanInv, NEW u \in Staff, NEW answered \in BOOLEAN, Issue(u, answered)
  PROVE  PlanInv'
<1>0. TypeOK
  BY DEF PlanInv
<1>n. PICK n \in Nat : n = Len(assessments)
  BY <1>0 DEF TypeOK
<1>1. /\ assessments' = [assessments EXCEPT ![n].status = "issued"]
      /\ UNCHANGED <<plan, readings, proposals>> /\ Changed(u, answered)
      /\ n \in 1..n /\ assessments[n].proposal = Newest /\ NewestIs("final")
      /\ assessments[n].status = "ready"
      /\ assessments[n].amount = AmountDue(proposals[Newest].quantity, assessments[n].terms)
  BY <1>n DEF Issue
<1>2. \A i \in 1..n : assessments[i] \in Assessment
  BY <1>0, <1>n DEF TypeOK
<1>3. [assessments[n] EXCEPT !.status = "issued"] \in Assessment
  BY <1>1, <1>2 DEF Assessment
<1>4. /\ assessments' \in Seq(Assessment) /\ Len(assessments') = n
      /\ \A i \in 1..n : i # n => assessments'[i] = assessments[i]
      /\ assessments'[n] = [assessments[n] EXCEPT !.status = "issued"]
  BY <1>0, <1>n, <1>1, <1>3 DEF TypeOK
<1>5. /\ assessments'[n].status = "issued" /\ assessments'[n].proposal = Newest
      /\ assessments'[n].terms = assessments[n].terms /\ assessments[n].terms \in Terms
      /\ \A i \in 1..n : assessments'[i].amount = assessments[i].amount
                         /\ assessments'[i].proposal = assessments[i].proposal
  <2>1. assessments[n] \in Assessment
    BY <1>1, <1>2
  <2>. QED
    BY <1>1, <1>4, <2>1 DEF Assessment
<1>6. TypeOK'
  <2>1. Len(assessments') <= MaxAssessments
    BY <1>0, <1>n, <1>4 DEF TypeOK
  <2>. QED
    BY <1>0, <1>1, <1>4, <2>1, ChangedType DEF TypeOK
<1>7. DraftsOpen'
  BY <1>1 DEF PlanInv, DraftsOpen, Newest
<1>8. FinalSound'
  <2>1. scope' = scope /\ LatestReturns' = LatestReturns
    BY <1>0, <1>1, ChangedType DEF LatestReturns, LatestReturn
  <2>. QED
    BY <1>1, <2>1 DEF PlanInv, FinalSound, Finalized, Newest, NewestIs
<1>9. AssessmentsSound'
  <2>1. Newest' = Newest
    BY <1>1 DEF Newest
  <2>2. ASSUME NEW i \in 1..n
        PROVE  /\ assessments'[i].proposal <= Newest
               /\ assessments'[i].status \in {"ready", "issued"} =>
                    \A l \in Lines : assessments'[i].amount[l] >= 0
    BY <1>n, <1>1, <1>4, <1>5 DEF PlanInv, AssessmentsSound
  <2>. QED
    BY <1>4, <2>1, <2>2 DEF AssessmentsSound
<1>10. BilledSound'
  <2>1. Issued' = Issued \cup {n} /\ n \notin Issued /\ Issued \in SUBSET (1..n)
    BY <1>n, <1>1, <1>4, <1>5 DEF Issued
  <2>q. proposals[Newest].quantity \in Quantities
    <3>1. Newest \in 1..Len(proposals)
      BY <1>0, <1>1 DEF TypeOK, NewestIs, Newest
    <3>2. proposals[Newest] \in Proposal
      BY <1>0, <3>1 DEF TypeOK
    <3>. QED
      BY <3>2 DEF Proposal
  <2>2. ASSUME NEW l \in Lines
        PROVE  prior_invoiced(l)' = assessments[n].amount[l] + prior_invoiced(l)
    <3>. DEFINE f == [i \in Issued |-> assessments[i].amount[l]]
                e == [i \in Issued \cup {n} |-> assessments[i].amount[l]]
    <3>1. IsFiniteSet(Issued)
      BY <1>0, PriorType
    <3>2. \A i \in Issued \cup {n} : e[i] = assessments[i].amount[l] /\ e[i] \in Int
      BY <1>1, <1>2, <2>1 DEF Assessment
    <3>3. \A i \in Issued : f[i] = e[i]
      BY <3>2
    <3>4. DOMAIN f = Issued /\ DOMAIN e = Issued \cup {n}
      OBVIOUS
    <3>5. prior_invoiced(l) = SumFunction(f)
      BY DEF prior_invoiced
    <3>6. prior_invoiced(l)' = SumFunction(e)
      BY <1>1, <1>5, <2>1 DEF prior_invoiced
    <3>. HIDE DEF e, f
    <3>7. SumFunctionOnSet(e, Issued \cup {n}) = e[n] + SumFunctionOnSet(e, Issued)
      BY <2>1, <3>1, <3>2, SumAdd
    <3>8. SumFunctionOnSet(e, Issued) = SumFunctionOnSet(f, Issued)
      BY <3>1, <3>2, <3>3, SumSame
    <3>. QED
      BY <3>2, <3>4, <3>5, <3>6, <3>7, <3>8 DEF SumFunction
  <2>3. ASSUME NEW l \in Lines
        PROVE  assessments'[n].terms.opening[l] + prior_invoiced(l)'
                 = Entitlement(proposals[Newest].quantity, assessments'[n].terms, l)
    <3>. DEFINE q == proposals[Newest].quantity
                t == assessments[n].terms
    <3>1. /\ t.opening[l] + prior_invoiced(l) + AmountDue(q, t)[l] = Entitlement(q, t, l)
          /\ AmountDue(q, t)[l] \in Int
      BY <1>0, <1>5, <2>q, AmountType
    <3>2. t.opening[l] \in Int /\ prior_invoiced(l) \in Int
      BY <1>0, <1>5, <2>q, EntitlementType, PriorType
    <3>3. prior_invoiced(l)' = AmountDue(q, t)[l] + prior_invoiced(l)
      BY <1>1, <2>2
    <3>4. PICK o \in Int, p \in Int, a \in Int :
            o = t.opening[l] /\ p = prior_invoiced(l) /\ a = AmountDue(q, t)[l]
      BY <3>1, <3>2
    <3>5. t.opening[l] + prior_invoiced(l)' = Entitlement(q, t, l)
      BY <3>1, <3>3, <3>4
    <3>. QED
      BY <1>5, <3>5
  <2>4. \A m \in Issued' : (\A i \in Issued' : i <= m) => m = n
    BY <2>1
  <2>. QED
    BY <1>1, <1>5, <2>3, <2>4 DEF BilledSound
<1>. QED
  BY <1>6, <1>7, <1>8, <1>9, <1>10 DEF PlanInv

\* What staff do keeps the invariant of the plan.
LEMMA StaffKeeps == ASSUME PlanInv, NEW u \in scope.staff, StaffStep(u) PROVE PlanInv'
<1>0. TypeOK /\ PlanScope(scope)
  BY ScopeFacts DEF PlanInv
<1>u. u \in Staff
  BY <1>0 DEF PlanScope
<1>1. CASE \/ Refetch(u) \/ OpenAction(u) \/ CloseForm(u)
           \/ \E p \in scope.parties : EnterReading(u, p)
  BY <1>u, <1>1, DeskKeeps
<1>2. ASSUME NEW answered \in BOOLEAN,
             \/ Finalize(u, answered) \/ Issue(u, answered) \/ CancelPlan(u, answered)
             \/ \E p \in scope.parties : SendReturn(u, p, answered)
             \/ \E q \in scope.quantities : Propose(u, q, answered)
             \/ \E p \in scope.parties, d \in scope.decisions : Acknowledge(u, p, d, answered)
             \/ \E t \in scope.terms : Assess(u, t, answered)
             \/ \E s \in scope.schedules : EditSchedule(u, s, answered)
      PROVE  PlanInv'
  <2>1. CASE Finalize(u, answered)
    BY <1>u, <2>1, FinalizeKeeps
  <2>2. CASE Issue(u, answered)
    BY <1>u, <2>2, IssueKeeps
  <2>3. CASE CancelPlan(u, answered) \/ \E s \in scope.schedules : EditSchedule(u, s, answered)
    BY <2>3, PlanStatusKeeps
  <2>4. CASE \E p \in scope.parties : SendReturn(u, p, answered)
    BY <2>4, SendReturnKeeps
  <2>5. CASE \E q \in scope.quantities : Propose(u, q, answered)
    BY <1>0, <1>u, <2>5, ProposeKeeps DEF PlanScope
  <2>6. CASE \E p \in scope.parties, d \in scope.decisions : Acknowledge(u, p, d, answered)
    BY <1>0, <1>u, <2>6, AcknowledgeKeeps DEF PlanScope
  <2>7. CASE \E t \in scope.terms : Assess(u, t, answered)
    BY <1>0, <1>u, <2>7, AssessKeeps DEF PlanScope
  <2>. QED
    BY <1>2, <2>1, <2>2, <2>3, <2>4, <2>5, <2>6, <2>7
<1>. QED
  BY <1>1, <1>2, Zenon DEF StaffStep

-----------------------------------------------------------------------------
(* The inductive invariant of the portal                                    *)

\* A link that recorded a reading points to it; one that did not keeps no request.
LinksSound ==
  \A n \in 1..Len(links) :
    /\ links[n].reading = 0 => links[n].request = NoOne
    /\ links[n].reading # 0 =>
         /\ links[n].reading \in 1..Len(readings)
         /\ readings[links[n].reading].by = "agency"
         /\ readings[links[n].reading].party = links[n].party

\* Pages and submissions belong to links, and entries that were sent have a request id.
PagesSound ==
  /\ \A g \in Pages :
       /\ pages[g].link <= Len(links)
       /\ pages[g].phase = "closed" => ~pages[g].peers
       /\ pages[g].phase # "closed" => pages[g].link >= 1 /\ pages[g].print \in Details
       /\ pages[g].body # NoOne => pages[g].key >= 1
  /\ \A r \in posts : r.link <= Len(links)

\* The three parts of OneLinkReading.
FirstByLink ==
  \A i \in 1..Len(readings) : readings[i].by = "agency" =>
    /\ \A j \in 1..(i - 1) : readings[j].party # readings[i].party
    /\ \E n \in 1..Len(links) : links[n].reading = i

OnePerParty ==
  \A m, n \in 1..Len(links) :
    m # n /\ links[m].party = links[n].party => 0 \in {links[m].reading, links[n].reading}

PeersEarned ==
  \A g \in Pages : pages[g].peers =>
    \E i \in 1..Len(readings) :
      readings[i].by = "agency" /\ readings[i].party = links[pages[g].link].party

PortalInv ==
  PlanInv /\ PortalTypeOK /\ LinksSound /\ PagesSound /\ FirstByLink /\ OnePerParty /\ PeersEarned

\* The inductive invariant implies the invariants the run checks.
LEMMA PortalInvImplies == PortalInv => PortalTypeOK /\ OneLinkReading /\ FinalIsSound /\ BilledIsEntitlement
<1>1. PortalInv => OneLinkReading
  BY DEF PortalInv, FirstByLink, OnePerParty, PeersEarned, OneLinkReading
<1>. QED
  BY <1>1, PlanInvImplies DEF PortalInv

\* What staff do to the readings: nothing, or one more of their own.
LEMMA StaffReadings ==
  ASSUME PlanInv, NEW u \in scope.staff, StaffStep(u)
  PROVE  /\ scope' = scope
         /\ \/ readings' = readings
            \/ \E p \in Agencies : readings' = Append(readings, [party |-> p, by |-> "staff"])
<1>0. PlanScope(scope)
  BY ScopeFacts DEF PlanInv
<1>1. CASE \/ Refetch(u) \/ OpenAction(u) \/ CloseForm(u)
           \/ \E p \in scope.parties : EnterReading(u, p)
  BY <1>1 DEF Refetch, OpenAction, CloseForm, EnterReading
<1>2. ASSUME NEW answered \in BOOLEAN,
             \/ Finalize(u, answered) \/ Issue(u, answered) \/ CancelPlan(u, answered)
             \/ \E q \in scope.quantities : Propose(u, q, answered)
             \/ \E p \in scope.parties, d \in scope.decisions : Acknowledge(u, p, d, answered)
             \/ \E t \in scope.terms : Assess(u, t, answered)
             \/ \E s \in scope.schedules : EditSchedule(u, s, answered)
      PROVE  scope' = scope /\ readings' = readings
  BY <1>2 DEF Finalize, Issue, CancelPlan, Propose, Acknowledge, Assess, EditSchedule, Changed
<1>3. ASSUME NEW answered \in BOOLEAN, NEW p \in scope.parties, SendReturn(u, p, answered)
      PROVE  /\ scope' = scope /\ p \in Agencies
             /\ readings' = Append(readings, [party |-> p, by |-> "staff"])
  BY <1>0, <1>3 DEF SendReturn, Record, Changed, PlanScope
<1>. QED
  BY <1>1, <1>2, <1>3, Zenon DEF StaffStep

\* An agency without a reading has none in the list.
LEMMA NoReading ==
  ASSUME TypeOK, NEW p, ~HasReading(p)
  PROVE  \A j \in 1..Len(readings) : readings[j].party # p
<1>. DEFINE own == {i \in 1..Len(readings) : readings[i].party = p}
<1>1. Len(readings) \in Nat
  BY DEF TypeOK
<1>2. ASSUME own # {} PROVE FALSE
  <2>1. Max(own) \in own
    BY <1>1, <1>2, MaxOf
  <2>2. LatestReturn(p, Len(readings)) = Max(own)
    BY <1>2 DEF LatestReturn
  <2>. QED
    BY <1>1, <2>1, <2>2 DEF HasReading
<1>. QED
  BY <1>2

-----------------------------------------------------------------------------
(* The steps of the portal                                                  *)

\* Staff work on the plan while the portal stays.
LEMMA StaffPortalKeeps ==
  ASSUME PortalInv, NEW u \in scope.staff, StaffStep(u), UNCHANGED portalVars
  PROVE  PortalInv'
<1>0. PlanInv /\ TypeOK /\ PortalTypeOK
  BY DEF PortalInv, PlanInv
<1>1. PlanInv' /\ TypeOK'
  BY <1>0, StaffKeeps DEF PlanInv
<1>2. UNCHANGED <<voyage, links, pages, posts>>
  BY DEF portalVars
<1>n. PICK n \in Nat : n = Len(readings)
  BY <1>0 DEF TypeOK
<1>3. \/ readings' = readings
      \/ /\ Len(readings') = n + 1 /\ readings'[n + 1].by = "staff"
         /\ \A i \in 1..n : readings'[i] = readings[i]
  <2>1. CASE readings' = readings
    BY <2>1
  <2>2. ASSUME NEW p \in Agencies, readings' = Append(readings, [party |-> p, by |-> "staff"])
        PROVE  /\ Len(readings') = n + 1 /\ readings'[n + 1].by = "staff"
               /\ \A i \in 1..n : readings'[i] = readings[i]
    <3>0. [party |-> p, by |-> "staff"] \in Reading
      BY DEF Reading
    <3>1. PICK x \in Reading : x = [party |-> p, by |-> "staff"] /\ x.by = "staff"
      BY <3>0
    <3>2. readings \in Seq(Reading) /\ readings' = Append(readings, x)
      BY <1>0, <2>2, <3>1 DEF TypeOK
    <3>. QED
      BY <1>n, <3>1, <3>2
  <2>. QED
    BY <1>0, <2>1, <2>2, StaffReadings
<1>4. CASE readings' = readings
  BY <1>0, <1>1, <1>2, <1>4 DEF PortalInv, PortalTypeOK, LinksSound, PagesSound, FirstByLink,
     OnePerParty, PeersEarned
<1>5. CASE /\ Len(readings') = n + 1 /\ readings'[n + 1].by = "staff"
           /\ \A i \in 1..n : readings'[i] = readings[i]
  <2>1. LinksSound'
    BY <1>n, <1>2, <1>5 DEF PortalInv, LinksSound
  <2>2. FirstByLink'
    BY <1>n, <1>2, <1>5 DEF PortalInv, FirstByLink
  <2>3. PeersEarned'
    BY <1>n, <1>2, <1>5 DEF PortalInv, PeersEarned
  <2>. QED
    BY <1>0, <1>1, <1>2, <2>1, <2>2, <2>3 DEF PortalInv, PortalTypeOK, PagesSound, OnePerParty
<1>. QED
  BY <1>3, <1>4, <1>5

\* The plan as it was.
LEMMA PlanSame == ASSUME PlanInv, UNCHANGED planVars PROVE PlanInv'
<1>1. /\ UNCHANGED <<plan, readings, proposals, assessments, screen, form, scope>>
      /\ TypeOK
  BY DEF planVars, PlanInv
<1>. QED
  BY <1>1, PlanQuiet DEF TypeOK

\* Links are added or ended; what was recorded through them stays.
LEMMA LinksAged ==
  ASSUME PortalInv, UNCHANGED <<planVars, voyage, pages, posts>>,
         links' \in Seq(Link), Len(links') <= MaxLinks, Len(links) <= Len(links'),
         \A n \in 1..Len(links) : /\ links'[n].party = links[n].party
                                  /\ links'[n].reading = links[n].reading
                                  /\ links'[n].request = links[n].request,
         \A n \in 1..Len(links') :
           n \notin 1..Len(links) => links'[n].reading = 0 /\ links'[n].request = NoOne
  PROVE  PortalInv'
<1>0. PlanInv /\ TypeOK /\ PortalTypeOK /\ Len(links) \in Nat /\ Len(links') \in Nat
  BY DEF PortalInv, PlanInv, PortalTypeOK
<1>1. PlanInv' /\ TypeOK' /\ UNCHANGED readings
  BY <1>0, PlanSame DEF PlanInv, planVars
<1>2. PortalTypeOK'
  BY <1>0, <1>1 DEF PortalTypeOK
<1>3. LinksSound'
  BY <1>0, <1>1 DEF PortalInv, LinksSound
<1>4. PagesSound'
  <2>1. \A g \in Pages : pages[g].link \in Nat
    BY <1>0 DEF PortalTypeOK, Page
  <2>2. \A r \in posts : r.link \in Nat
    BY <1>0 DEF PortalTypeOK, Post
  <2>. QED
    BY <1>0, <2>1, <2>2 DEF PortalInv, PagesSound
<1>5. FirstByLink'
  BY <1>0, <1>1 DEF PortalInv, FirstByLink
<1>6. OnePerParty'
  BY <1>0, <1>1 DEF PortalInv, OnePerParty
<1>7. PeersEarned'
  <2>1. \A g \in Pages : pages[g].peers => pages[g].link \in 1..Len(links)
    BY <1>0 DEF PortalInv, PagesSound, PortalTypeOK, Page
  <2>. QED
    BY <1>1, <2>1 DEF PortalInv, PeersEarned
<1>. QED
  BY <1>1, <1>2, <1>3, <1>4, <1>5, <1>6, <1>7 DEF PortalInv

\* Pages and submissions change, the plan and the links do not.
LEMMA PagesChange ==
  ASSUME PortalInv, UNCHANGED <<planVars, voyage, links>>,
         pages' \in [Pages -> Page], posts' \subseteq Post, PagesSound', PeersEarned'
  PROVE  PortalInv'
<1>0. PlanInv /\ PortalTypeOK
  BY DEF PortalInv
<1>1. PlanInv' /\ TypeOK' /\ UNCHANGED readings
  BY <1>0, PlanSame DEF PlanInv, planVars
<1>2. PortalTypeOK'
  BY <1>0, <1>1 DEF PortalTypeOK
<1>3. LinksSound' /\ FirstByLink' /\ OnePerParty'
  BY <1>1 DEF PortalInv, LinksSound, FirstByLink, OnePerParty
<1>. QED
  BY <1>1, <1>2, <1>3 DEF PortalInv


\* One page changes, and submissions of existing links are on their way.
LEMMA OnePageChanges ==
  ASSUME PortalInv, UNCHANGED <<planVars, voyage, links>>,
         NEW g \in Pages, NEW e \in Page, pages' = [pages EXCEPT ![g] = e],
         posts' \subseteq Post, \A r \in posts' : r.link <= Len(links),
         e.link <= Len(links), e.phase = "closed" => ~e.peers,
         e.phase # "closed" => e.link >= 1 /\ e.print \in Details,
         e.body # NoOne => e.key >= 1,
         e.peers => \E i \in 1..Len(readings) :
                      readings[i].by = "agency" /\ readings[i].party = links[e.link].party
  PROVE  PortalInv'
<1>1. pages \in [Pages -> Page] /\ UNCHANGED <<readings, links>>
  BY DEF PortalInv, PortalTypeOK, planVars
<1>2. pages' \in [Pages -> Page]
  BY <1>1
<1>3. \A h \in Pages : pages'[h] = IF h = g THEN e ELSE pages[h]
  BY <1>1
<1>4. PagesSound'
  BY <1>1, <1>3 DEF PortalInv, PagesSound
<1>5. PeersEarned'
  BY <1>1, <1>3 DEF PortalInv, PeersEarned
<1>. QED
  BY <1>2, <1>4, <1>5, PagesChange

\* The fingerprint is of the details a plan and its call can have.
LEMMA FingerprintType == ASSUME PortalInv PROVE fingerprint \in Details
<1>1. plan.schedule \in Schedules
  BY DEF PortalInv, PortalTypeOK, TypeOK
<1>2. voyage.name \in Names
  BY DEF PortalInv, PortalTypeOK
<1>. QED
  BY <1>1, <1>2 DEF fingerprint, Details

\* A new link is made after all others of the agency are ended.
LEMMA CreateLinkKeeps ==
  ASSUME PortalInv, NEW p \in scope.parties, CreateLink(p)
  PROVE  PortalInv'
<1>0. TypeOK /\ PlanScope(scope) /\ scope \in Scopes /\ links \in Seq(Link)
  BY ScopeFacts DEF PortalInv, PortalTypeOK
<1>n. PICK n \in Nat : n = Len(links)
  BY <1>0
<1>1. /\ p \in Agencies /\ fingerprint \in Details
      /\ n < scope.maxLinks /\ scope.maxLinks \in 0..MaxLinks /\ MaxLinks \in Nat
  BY <1>0, <1>n, PortalAssumption, FingerprintType DEF CreateLink, PlanScope
<1>. DEFINE old == [i \in 1..n |-> IF links[i].party = p THEN [links[i] EXCEPT !.live = FALSE]
                                   ELSE links[i]]
<1>2. \A i \in 1..n : /\ old[i] \in Link /\ old[i].party = links[i].party
                      /\ old[i].reading = links[i].reading /\ old[i].request = links[i].request
  <2>1. \A i \in 1..n : links[i] \in Link
    BY <1>0, <1>n
  <2>. QED
    BY <2>1 DEF Link
<1>3. old \in Seq(Link) /\ Len(old) = n
  <2>1. old \in [1..n -> Link]
    BY <1>2
  <2>. HIDE DEF old
  <2>. QED
    BY <2>1
<1>. DEFINE x == [party |-> p, live |-> TRUE, print |-> fingerprint,
                  reading |-> 0, request |-> NoOne]
<1>4. x \in Link /\ x.reading = 0 /\ x.request = NoOne
  <2>1. 0 \in 0..MaxReadings
    BY PlanAssumption
  <2>. QED
    BY <1>1, <2>1 DEF Link
<1>5. links' = Append(old, x) /\ UNCHANGED <<planVars, voyage, pages, posts>>
  BY <1>n DEF CreateLink
<1>. HIDE DEF old, x
<1>6. /\ links' \in Seq(Link) /\ Len(links') = n + 1 /\ links'[n + 1] = x
      /\ \A i \in 1..n : links'[i] = old[i]
  BY <1>n, <1>3, <1>4, <1>5
<1>. QED
  BY <1>n, <1>1, <1>2, <1>4, <1>5, <1>6, LinksAged

\* A link is revoked or expires.
LEMMA EndLinkKeeps ==
  ASSUME PortalInv, NEW i \in 1..Len(links), EndLink(i)
  PROVE  PortalInv'
<1>0. links \in Seq(Link) /\ Len(links) <= MaxLinks /\ Len(links) \in Nat
  BY DEF PortalInv, PortalTypeOK
<1>. DEFINE x == [links[i] EXCEPT !.live = FALSE]
<1>1. /\ x \in Link /\ x.party = links[i].party
      /\ x.reading = links[i].reading /\ x.request = links[i].request
  <2>1. links[i] \in Link
    BY <1>0
  <2>. QED
    BY <2>1 DEF Link
<1>2. links' = [links EXCEPT ![i] = x] /\ UNCHANGED <<planVars, voyage, pages, posts>>
  BY DEF EndLink
<1>. HIDE DEF x
<1>3. /\ links' \in Seq(Link) /\ Len(links') = Len(links)
      /\ \A n \in 1..Len(links) : links'[n] = IF n = i THEN x ELSE links[n]
  BY <1>0, <1>1, <1>2
<1>. QED
  BY <1>0, <1>1, <1>2, <1>3, LinksAged

\* The vessel call is cancelled or edited, or its organization suspended or let in.
LEMMA VoyageKeeps ==
  ASSUME PortalInv,
         \/ CancelCall \/ \E n \in scope.names : EditCall(n)
         \/ \E a \in scope.access : ChangeAccess(a)
  PROVE  PortalInv'
<1>0. /\ voyage \in [status : {"open", "cancelled"}, name : Names, access : Accesses]
      /\ scope.names \subseteq Names /\ scope.access \subseteq Accesses
  BY ScopeFacts, PortalAssumption DEF PortalInv, PortalTypeOK
<1>1. /\ voyage' \in [status : {"open", "cancelled"}, name : Names, access : Accesses]
      /\ UNCHANGED <<planVars, links, pages, posts>>
  <2>1. CASE CancelCall
    BY <1>0, <2>1 DEF CancelCall
  <2>2. CASE \E n \in scope.names : EditCall(n)
    BY <1>0, <2>2 DEF EditCall
  <2>3. CASE \E a \in scope.access : ChangeAccess(a)
    BY <1>0, <2>3 DEF ChangeAccess
  <2>. QED
    BY <2>1, <2>2, <2>3
<1>2. PlanInv' /\ TypeOK' /\ UNCHANGED readings
  BY <1>1, PlanSame DEF PortalInv, PlanInv, planVars
<1>3. PortalTypeOK'
  BY <1>1, <1>2 DEF PortalInv, PortalTypeOK
<1>4. LinksSound' /\ FirstByLink' /\ OnePerParty' /\ PagesSound' /\ PeersEarned'
  BY <1>1, <1>2 DEF PortalInv, LinksSound, FirstByLink, OnePerParty, PagesSound, PeersEarned
<1>. QED
  BY <1>2, <1>3, <1>4 DEF PortalInv

\* A link's own reading came in through it.
LEMMA LinkReading ==
  ASSUME PortalInv, NEW n \in 1..Len(links), links[n].reading # 0
  PROVE  \E i \in 1..Len(readings) :
           readings[i].by = "agency" /\ readings[i].party = links[n].party
BY DEF PortalInv, LinksSound

\* What a page does by itself.
LEMMA PageStepKeeps ==
  ASSUME PortalInv, NEW g \in Pages, PageStep(g)
  PROVE  PortalInv'
<1>0. /\ TypeOK /\ PlanScope(scope) /\ scope \in Scopes /\ links \in Seq(Link)
      /\ Len(links) <= MaxLinks /\ Len(links) \in Nat /\ MaxLinks \in Nat
      /\ posts \subseteq Post /\ PagesSound /\ pages \in [Pages -> Page]
  BY ScopeFacts, PortalAssumption DEF PortalInv, PortalTypeOK
<1>1. /\ pages[g] \in Page /\ pages[g].link \in 0..MaxLinks /\ pages[g].link <= Len(links)
      /\ pages[g].phase = "closed" => ~pages[g].peers
      /\ pages[g].phase # "closed" => pages[g].link >= 1 /\ pages[g].print \in Details
      /\ pages[g].body # NoOne => pages[g].key >= 1
      /\ pages[g].key \in 0..MaxKeys /\ pages[g].body \in Bodies \cup {NoOne}
      /\ pages[g].peers \in BOOLEAN
      /\ pages[g].peers => \E i \in 1..Len(readings) :
           readings[i].by = "agency" /\ readings[i].party = links[pages[g].link].party
  BY <1>0 DEF PortalInv, PagesSound, PeersEarned, Page
<1>2. \A r \in posts : r.link <= Len(links)
  BY <1>0 DEF PagesSound
<1>3. CASE ClosePage(g)
  <2>. DEFINE e == [pages[g] EXCEPT !.link = 0, !.phase = "closed", !.print = NoOne,
                                    !.body = NoOne, !.peers = FALSE]
  <2>2. pages' = [pages EXCEPT ![g] = e]
    BY <1>0, <1>3 DEF ClosePage
  <2>3. e \in Page
    <3>1. 0 \in 0..MaxLinks
      BY <1>0
    <3>. QED
      BY <1>1, <3>1 DEF Page
  <2>4. e.link = 0 /\ e.phase = "closed" /\ e.body = NoOne /\ ~e.peers
    BY <1>1 DEF Page
  <2>5. UNCHANGED <<planVars, voyage, links, posts>>
    BY <1>3 DEF ClosePage
  <2>. HIDE DEF e
  <2>6. /\ e.link <= Len(links) /\ (e.phase = "closed" => ~e.peers)
        /\ (e.phase # "closed" => e.link >= 1 /\ e.print \in Details)
        /\ (e.body # NoOne => e.key >= 1)
        /\ e.peers => \E j \in 1..Len(readings) :
                        readings[j].by = "agency" /\ readings[j].party = links[e.link].party
    BY <1>0, <2>4
  <2>. QED
    BY <1>0, <1>2, <2>2, <2>3, <2>5, <2>6, OnePageChanges
<1>4. CASE TimeOut(g) \/ GiveUp(g)
  <2>1. PICK f \in {"unsure", "failed"} : pages' = [pages EXCEPT ![g].phase = f]
    BY <1>4 DEF TimeOut, GiveUp
  <2>2. pages[g].phase # "closed" /\ UNCHANGED <<planVars, voyage, links, posts>>
    BY <1>4 DEF TimeOut, GiveUp
  <2>3. PICK e : e = [pages[g] EXCEPT !.phase = f]
    OBVIOUS
  <2>4. pages' = [pages EXCEPT ![g] = e]
    BY <2>1, <2>3
  <2>5. /\ e \in Page /\ e.link = pages[g].link /\ e.phase = f /\ e.body = pages[g].body
        /\ e.key = pages[g].key /\ e.peers = pages[g].peers /\ e.print = pages[g].print
    BY <1>1, <2>1, <2>3 DEF Page
  <2>. QED
    BY <1>0, <1>1, <1>2, <2>2, <2>4, <2>5, OnePageChanges
<1>5. CASE Recover(g)
  <2>1. /\ pages[g].phase = "unsure" /\ links[pages[g].link].reading # 0
        /\ pages' = [pages EXCEPT ![g].phase = "receipt", ![g].peers = ShowsPeers(pages[g].link)]
        /\ UNCHANGED <<planVars, voyage, links, posts>>
    BY <1>5 DEF Recover
  <2>2. pages[g].link \in 1..Len(links)
    BY <1>0, <1>1, <2>1
  <2>3. ShowsPeers(pages[g].link) = TRUE
    BY <2>1 DEF ShowsPeers
  <2>4. PICK e : e = [pages[g] EXCEPT !.phase = "receipt", !.peers = TRUE]
    OBVIOUS
  <2>5. pages' = [pages EXCEPT ![g] = e]
    BY <1>0, <2>1, <2>3, <2>4
  <2>6. /\ e \in Page /\ e.link = pages[g].link /\ e.phase = "receipt"
        /\ e.body = pages[g].body /\ e.key = pages[g].key /\ e.print = pages[g].print
    BY <1>1, <2>4 DEF Page
  <2>7. \E i \in 1..Len(readings) :
          readings[i].by = "agency" /\ readings[i].party = links[pages[g].link].party
    BY <2>1, <2>2, LinkReading
  <2>8. /\ e.link <= Len(links) /\ (e.phase = "closed" => ~e.peers)
        /\ (e.phase # "closed" => e.link >= 1 /\ e.print \in Details)
        /\ (e.body # NoOne => e.key >= 1)
        /\ e.peers => \E j \in 1..Len(readings) :
                        readings[j].by = "agency" /\ readings[j].party = links[e.link].party
    BY <1>0, <1>1, <2>1, <2>2, <2>6, <2>7
  <2>. QED
    BY <1>0, <1>2, <2>1, <2>5, <2>6, <2>8, OnePageChanges
\* The page as it is loaded, or an empty one that keeps the session.
<1>6. ASSUME NEW i \in 1..Len(links), NEW f \in {"receipt", "entry", "closed"}, NEW shows \in BOOLEAN,
             shows => f = "receipt" /\ links[i].reading # 0,
             pages' = [pages EXCEPT ![g] =
                         [link |-> i, phase |-> f, print |-> fingerprint, body |-> NoOne,
                          key |-> pages[g].key, peers |-> shows]],
             UNCHANGED <<planVars, voyage, links, posts>>
      PROVE  PortalInv'
  <2>. DEFINE e == [link |-> i, phase |-> f, print |-> fingerprint, body |-> NoOne,
                    key |-> pages[g].key, peers |-> shows]
  <2>1. pages' = [pages EXCEPT ![g] = e]
    BY <1>6
  <2>2. i \in 0..MaxLinks /\ fingerprint \in Details
    BY <1>0, FingerprintType
  <2>3. /\ e.link = i /\ e.phase = f /\ e.body = NoOne /\ e.peers = shows
        /\ e.print = fingerprint
    OBVIOUS
  <2>4. e \in Page
    BY <1>1, <1>6, <2>2 DEF Page
  <2>. HIDE DEF e
  <2>5. e.peers => \E j \in 1..Len(readings) :
                     readings[j].by = "agency" /\ readings[j].party = links[i].party
    BY <1>6, <2>3, LinkReading
  <2>6. e.link >= 1 /\ e.link <= Len(links) /\ (e.phase = "closed" => ~e.peers)
    BY <1>0, <1>6, <2>3
  <2>7. /\ e.link <= Len(links) /\ (e.phase = "closed" => ~e.peers)
        /\ (e.phase # "closed" => e.link >= 1 /\ e.print \in Details)
        /\ (e.body # NoOne => e.key >= 1)
        /\ e.peers => \E j \in 1..Len(readings) :
                        readings[j].by = "agency" /\ readings[j].party = links[e.link].party
    BY <2>2, <2>3, <2>5, <2>6
  <2>. QED
    BY <1>0, <1>2, <1>6, <2>1, <2>4, <2>7, OnePageChanges
<1>8. ASSUME NEW i \in 1..Len(links), NEW f \in {FirstPhase(i), "closed"},
             pages' = [pages EXCEPT ![g] = Loaded(g, i, f)],
             UNCHANGED <<planVars, voyage, links, posts>>
      PROVE  PortalInv'
  <2>1. f \in {"receipt", "entry", "closed"}
    BY DEF FirstPhase
  <2>. DEFINE b == f # "closed" /\ ShowsPeers(i)
  <2>2. b \in BOOLEAN /\ (b => f = "receipt" /\ links[i].reading # 0)
    BY DEF FirstPhase, ShowsPeers
  <2>3. pages' = [pages EXCEPT ![g] = [link |-> i, phase |-> f, print |-> fingerprint,
                                       body |-> NoOne, key |-> pages[g].key, peers |-> b]]
    BY <1>8 DEF Loaded
  <2>. HIDE DEF b
  <2>. QED
    BY <1>6, <1>8, <2>1, <2>2, <2>3
<1>10. ASSUME NEW i \in 1..Len(links), OpenPage(g, i) PROVE PortalInv'
  BY <1>8, <1>10 DEF OpenPage
<1>11. CASE Reload(g)
  <2>. DEFINE i == pages[g].link
              f == IF Usable(i) THEN FirstPhase(i) ELSE "closed"
  <2>1. i \in 1..Len(links) /\ UNCHANGED <<planVars, voyage, links, posts>>
    BY <1>0, <1>1, <1>11 DEF Reload
  <2>2. f \in {FirstPhase(i), "closed"} /\ pages' = [pages EXCEPT ![g] = Loaded(g, i, f)]
    BY <1>11 DEF Reload
  <2>. HIDE DEF i, f
  <2>. QED
    BY <1>8, <2>1, <2>2
<1>7. ASSUME NEW b \in scope.bodies, Submit(g, b) PROVE PortalInv'
  <2>. DEFINE k == IF pages[g].body = b THEN pages[g].key ELSE pages[g].key + 1
              r == [page |-> g, link |-> pages[g].link, print |-> pages[g].print,
                    body |-> b, key |-> k]
  <2>1. /\ pages[g].phase # "closed" /\ k <= scope.maxKeys
        /\ pages' = [pages EXCEPT ![g].phase = "sent", ![g].body = b, ![g].key = k]
        /\ posts' = posts \cup {r} /\ UNCHANGED <<planVars, voyage, links>>
    BY <1>7 DEF Submit
  <2>2. b \in Bodies /\ b # NoOne /\ scope.maxKeys \in 0..MaxKeys /\ MaxKeys \in Nat
    BY <1>0, PortalAssumption
  <2>3. k \in 1..MaxKeys
    BY <1>1, <2>1, <2>2
  <2>. HIDE DEF k
  <2>4. r \in Post /\ r.link <= Len(links)
    BY <1>0, <1>1, <2>1, <2>2, <2>3 DEF Post
  <2>. HIDE DEF r
  <2>5. PICK e : e = [pages[g] EXCEPT !.phase = "sent", !.body = b, !.key = k]
    OBVIOUS
  <2>6. pages' = [pages EXCEPT ![g] = e]
    BY <1>0, <2>1, <2>5
  <2>7. /\ e \in Page /\ e.link = pages[g].link /\ e.phase = "sent"
        /\ e.body = b /\ e.key = k /\ e.peers = pages[g].peers /\ e.print = pages[g].print
    <3>1. k \in 0..MaxKeys /\ b \in Bodies \cup {NoOne}
      BY <2>2, <2>3
    <3>. QED
      BY <1>1, <2>5, <3>1 DEF Page
  <2>8. posts' \subseteq Post /\ \A x \in posts' : x.link <= Len(links)
    BY <1>0, <1>2, <2>1, <2>4
  <2>9. /\ e.link <= Len(links) /\ (e.phase = "closed" => ~e.peers)
        /\ (e.phase # "closed" => e.link >= 1 /\ e.print \in Details)
        /\ (e.body # NoOne => e.key >= 1)
        /\ e.peers => \E j \in 1..Len(readings) :
                        readings[j].by = "agency" /\ readings[j].party = links[e.link].party
    BY <1>1, <2>1, <2>3, <2>7
  <2>. QED
    BY <2>1, <2>6, <2>7, <2>8, <2>9, OnePageChanges
<1>. QED
  BY <1>3, <1>4, <1>5, <1>7, <1>10, <1>11 DEF PageStep

\* A page that takes an answer was waiting for it.
LEMMA AnswerOutcome ==
  ASSUME PortalInv, NEW r \in Post, NEW arrives \in BOOLEAN,
         NEW outcome \in {"failed", "refused", "receipt"}, Answer(r, outcome, arrives)
  PROVE  \/ pages' = pages
         \/ \E e \in Page :
              /\ pages' = [pages EXCEPT ![r.page] = e]
              /\ pages[r.page].phase = "sent" /\ e.phase = outcome
              /\ pages[r.page].link = r.link /\ pages[r.page].key = r.key
              /\ pages[r.page].body = r.body /\ pages[r.page].print = r.print
              /\ e.link = r.link /\ e.key = r.key /\ e.body = r.body /\ e.print = r.print
              /\ e.peers = (outcome = "receipt")
<1>0. pages \in [Pages -> Page] /\ r.page \in Pages
  BY DEF PortalInv, PortalTypeOK, Post
<1>1. CASE ~(/\ arrives /\ pages[r.page].phase = "sent" /\ pages[r.page].link = r.link
             /\ pages[r.page].key = r.key /\ pages[r.page].body = r.body
             /\ pages[r.page].print = r.print)
  BY <1>1 DEF Answer
<1>2. CASE /\ arrives /\ pages[r.page].phase = "sent" /\ pages[r.page].link = r.link
           /\ pages[r.page].key = r.key /\ pages[r.page].body = r.body
           /\ pages[r.page].print = r.print
  <2>1. pages' = [pages EXCEPT ![r.page].phase = outcome, ![r.page].peers = (outcome = "receipt")]
    BY <1>2 DEF Answer
  <2>. DEFINE e == [pages[r.page] EXCEPT !.phase = outcome, !.peers = (outcome = "receipt")]
  <2>2. pages' = [pages EXCEPT ![r.page] = e]
    BY <1>0, <2>1
  <2>3. pages[r.page] \in Page
    BY <1>0
  <2>4. /\ e \in Page /\ e.link = pages[r.page].link /\ e.key = pages[r.page].key
        /\ e.body = pages[r.page].body /\ e.phase = outcome /\ e.peers = (outcome = "receipt")
        /\ e.print = pages[r.page].print
    BY <2>3 DEF Page
  <2>. HIDE DEF e
  <2>. QED
    BY <1>2, <2>2, <2>4
<1>. QED
  BY <1>1, <1>2

\* The server answers a submission without recording anything.
LEMMA AnsweredKeeps ==
  ASSUME PortalInv, NEW r \in posts, NEW arrives \in BOOLEAN,
         NEW outcome \in {"failed", "refused", "receipt"}, Answer(r, outcome, arrives),
         posts' \subseteq posts, UNCHANGED <<planVars, voyage, links>>,
         outcome = "receipt" => links[r.link].reading # 0
  PROVE  PortalInv'
<1>0. /\ posts \subseteq Post /\ r \in Post /\ r.page \in Pages /\ r.link \in 1..MaxLinks
      /\ r.key \in 1..MaxKeys /\ Len(links) \in Nat /\ r.print \in Details
  BY DEF PortalInv, PortalTypeOK, Post
<1>1. \A x \in posts : x.link <= Len(links)
  BY DEF PortalInv, PagesSound
<1>2. r.link \in 1..Len(links)
  BY <1>0, <1>1
<1>3. posts' \subseteq Post /\ \A x \in posts' : x.link <= Len(links)
  BY <1>0, <1>1
<1>4. CASE pages' = pages
  <2>1. PagesSound' /\ PeersEarned' /\ pages' \in [Pages -> Page]
    BY <1>3, <1>4 DEF PortalInv, PagesSound, PeersEarned, PortalTypeOK, planVars
  <2>. QED
    BY <1>3, <2>1, PagesChange
<1>5. ASSUME NEW e \in Page, pages' = [pages EXCEPT ![r.page] = e], e.phase = outcome,
             e.link = r.link, e.key = r.key, e.body = r.body, e.print = r.print,
             e.peers = (outcome = "receipt")
      PROVE  PortalInv'
  <2>1. e.peers => \E i \in 1..Len(readings) :
                     readings[i].by = "agency" /\ readings[i].party = links[r.link].party
    BY <1>2, <1>5, LinkReading
  <2>2. e.phase # "closed" /\ e.link <= Len(links) /\ e.link >= 1 /\ e.key >= 1
    BY <1>0, <1>2, <1>5
  <2>3. /\ e.link <= Len(links) /\ (e.phase = "closed" => ~e.peers)
        /\ (e.phase # "closed" => e.link >= 1 /\ e.print \in Details)
        /\ (e.body # NoOne => e.key >= 1)
        /\ e.peers => \E j \in 1..Len(readings) :
                        readings[j].by = "agency" /\ readings[j].party = links[e.link].party
    BY <1>0, <1>5, <2>1, <2>2
  <2>. QED
    BY <1>0, <1>3, <1>5, <2>3, OnePageChanges
<1>. QED
  BY <1>0, <1>4, <1>5, AnswerOutcome

\* The server records the reading of a submission: the first of its agency.
LEMMA AcceptedKeeps ==
  ASSUME PortalInv, NEW r \in posts, NEW arrives \in BOOLEAN, posts' \subseteq posts,
         UNCHANGED voyage, Accepts(r), Record(links[r.link].party, "agency"),
         links' = [links EXCEPT ![r.link].reading = Len(readings'), ![r.link].request = r],
         UNCHANGED <<proposals, assessments>>, Changed(NoOne, FALSE),
         Answer(r, "receipt", arrives)
  PROVE  PortalInv'
<1>0. /\ PlanInv /\ TypeOK /\ PortalTypeOK /\ links \in Seq(Link) /\ Len(links) \in Nat
      /\ Len(links) <= MaxLinks /\ LinksSound /\ PagesSound /\ posts \subseteq Post
      /\ r \in Post /\ r.page \in Pages /\ r.link \in 1..MaxLinks /\ r.key \in 1..MaxKeys
      /\ readings \in Seq(Reading) /\ r.print \in Details
  BY DEF PortalInv, PortalTypeOK, TypeOK, PlanInv, Post
<1>n. PICK n \in Nat : n = Len(readings)
  BY <1>0
<1>i. PICK i \in 1..Len(links) : i = r.link
  BY <1>0 DEF PagesSound
<1>1. /\ links[i] \in Link /\ links[i].reading = 0 /\ AcceptsReturns
      /\ ~HasReading(links[i].party) /\ links[i].party \in Agencies
  <2>1. links[i] \in Link
    BY <1>0
  <2>2. links[i].party \in Agencies
    BY <2>1 DEF Link
  <2>3. links[i].reading = 0 /\ AcceptsReturns /\ ~HasReading(links[i].party)
    BY <1>i DEF Accepts, Open
  <2>. QED
    BY <2>1, <2>2, <2>3
<1>2. /\ PlanInv' /\ TypeOK' /\ scope' = scope
      /\ readings' = Append(readings, [party |-> links[i].party, by |-> "agency"])
  BY <1>0, <1>i, <1>1, RecordKeeps DEF PlanInv
<1>3. /\ Len(readings') = n + 1 /\ readings'[n + 1].by = "agency"
      /\ readings'[n + 1].party = links[i].party
      /\ \A j \in 1..n : readings'[j] = readings[j]
  <2>1. [party |-> links[i].party, by |-> "agency"] \in Reading
    BY <1>1 DEF Reading
  <2>2. PICK x \in Reading : /\ x = [party |-> links[i].party, by |-> "agency"]
                             /\ x.party = links[i].party /\ x.by = "agency"
    BY <2>1
  <2>3. readings' = Append(readings, x)
    BY <1>2, <2>2
  <2>. QED
    BY <1>0, <1>n, <2>2, <2>3
<1>4. \A j \in 1..n : readings[j].party # links[i].party
  BY <1>0, <1>n, <1>1, NoReading
<1>5. n + 1 \in 0..MaxReadings
  BY <1>2, <1>3, PlanAssumption DEF TypeOK
<1>. DEFINE x == [links[i] EXCEPT !.reading = n + 1, !.request = r]
<1>6. /\ x \in Link /\ x.party = links[i].party /\ x.reading = n + 1 /\ x.request = r
  <2>1. r \in Post \cup {NoOne}
    BY <1>0
  <2>. QED
    BY <1>1, <1>5, <2>1 DEF Link
<1>7. links' = [links EXCEPT ![i] = x]
  BY <1>0, <1>i, <1>3
<1>. HIDE DEF x
<1>8. /\ links' \in Seq(Link) /\ Len(links') = Len(links)
      /\ \A m \in 1..Len(links) : links'[m] = IF m = i THEN x ELSE links[m]
  <2>1. /\ links \in Seq(Link) /\ x \in Link /\ links' = [links EXCEPT ![i] = x]
        /\ Len(links) \in Nat /\ links \in [1..Len(links) -> Link]
    <3>1. links \in Seq(Link)
      BY <1>0
    <3>2. Len(links) \in Nat /\ links \in [1..Len(links) -> Link]
      BY <3>1
    <3>. QED
      BY <1>6, <1>7, <3>1, <3>2
  <2>2. /\ links' \in [1..Len(links) -> Link]
        /\ \A m \in 1..Len(links) : links'[m] = IF m = i THEN x ELSE links[m]
    BY <2>1
  <2>. QED
    BY <2>1, <2>2
<1>9. \A m \in 1..Len(links) : links'[m].party = links[m].party
  BY <1>6, <1>8
<1>10. LinksSound'
  <2>. SUFFICES ASSUME NEW m \in 1..Len(links)
                PROVE  /\ links'[m].reading = 0 => links'[m].request = NoOne
                       /\ links'[m].reading # 0 =>
                            /\ links'[m].reading \in 1..Len(readings')
                            /\ readings'[links'[m].reading].by = "agency"
                            /\ readings'[links'[m].reading].party = links'[m].party
    BY <1>8 DEF LinksSound
  <2>1. CASE m = i
    BY <1>3, <1>6, <1>8, <2>1
  <2>2. CASE m # i
    <3>1. links'[m] = links[m]
      BY <1>8, <2>2
    <3>2. /\ links[m].reading = 0 => links[m].request = NoOne
          /\ links[m].reading # 0 =>
               /\ links[m].reading \in 1..n
               /\ readings[links[m].reading].by = "agency"
               /\ readings[links[m].reading].party = links[m].party
      BY <1>0, <1>n DEF LinksSound
    <3>3. links[m].reading # 0 => /\ links[m].reading \in 1..(n + 1)
                                  /\ readings'[links[m].reading] = readings[links[m].reading]
      BY <1>3, <3>2
    <3>. QED
      BY <1>3, <3>1, <3>2, <3>3
  <2>. QED
    BY <2>1, <2>2
\* The links that recorded a reading are not of this agency.
<1>11. ASSUME NEW m \in 1..Len(links), links[m].reading # 0
       PROVE  links[m].party # links[i].party
  BY <1>0, <1>n, <1>4, <1>11 DEF LinksSound
<1>12. FirstByLink'
  <2>. SUFFICES ASSUME NEW k \in 1..(n + 1), readings'[k].by = "agency"
                PROVE  /\ \A j \in 1..(k - 1) : readings'[j].party # readings'[k].party
                       /\ \E m \in 1..Len(links) : links'[m].reading = k
    BY <1>3, <1>8 DEF FirstByLink
  <2>1. CASE k = n + 1
    BY <1>3, <1>4, <1>6, <1>8, <2>1
  <2>2. CASE k # n + 1
    <3>1. k \in 1..n /\ readings'[k] = readings[k]
      BY <1>3, <2>2
    <3>2. PICK m \in 1..Len(links) : links[m].reading = k
      BY <1>n, <3>1 DEF PortalInv, FirstByLink
    <3>3. links'[m].reading = k
      <4>1. m # i
        BY <1>1, <3>1, <3>2
      <4>. QED
        BY <1>8, <3>2, <4>1
    <3>4. \A j \in 1..(k - 1) : readings[j].party # readings[k].party
      BY <1>n, <3>1 DEF PortalInv, FirstByLink
    <3>5. \A j \in 1..(k - 1) : j \in 1..n /\ readings'[j] = readings[j]
      BY <1>3, <3>1
    <3>. QED
      BY <3>1, <3>3, <3>4, <3>5
  <2>. QED
    BY <2>1, <2>2
<1>13. OnePerParty'
  <2>. SUFFICES ASSUME NEW a \in 1..Len(links), NEW b \in 1..Len(links), a # b,
                       links[a].party = links[b].party
                PROVE  0 \in {links'[a].reading, links'[b].reading}
    BY <1>8, <1>9 DEF OnePerParty
  <2>1. CASE a # i /\ b # i
    BY <1>8, <2>1 DEF PortalInv, OnePerParty
  <2>2. CASE a = i
    BY <1>8, <1>11, <2>2
  <2>3. CASE b = i
    BY <1>8, <1>11, <2>3
  <2>. QED
    BY <2>1, <2>2, <2>3
<1>14. posts' \subseteq Post /\ \A y \in posts' : y.link <= Len(links)
  BY <1>0 DEF PagesSound
<1>15. /\ pages' \in [Pages -> Page] /\ PagesSound' /\ PeersEarned'
  <2>0. pages \in [Pages -> Page]
    BY <1>0 DEF PortalTypeOK
  <2>1. \A g \in Pages : pages[g].peers =>
          \E j \in 1..(n + 1) :
            readings'[j].by = "agency" /\ readings'[j].party = links'[pages[g].link].party
    <3>. SUFFICES ASSUME NEW g \in Pages, pages[g].peers
                  PROVE  \E j \in 1..(n + 1) : /\ readings'[j].by = "agency"
                                               /\ readings'[j].party = links'[pages[g].link].party
      OBVIOUS
    <3>1. pages[g].link \in 1..Len(links)
      BY <1>0, <2>0 DEF PagesSound, Page
    <3>2. PICK j \in 1..n : readings[j].by = "agency" /\ readings[j].party = links[pages[g].link].party
      BY <1>n DEF PortalInv, PeersEarned
    <3>. QED
      BY <1>3, <1>9, <3>1, <3>2
  <2>2. CASE pages' = pages
    <3>1. PagesSound'
      BY <1>0, <1>8, <1>14, <2>2 DEF PagesSound
    <3>2. PeersEarned'
      <4>1. \A g \in Pages : pages'[g].peers =>
              \E j \in 1..Len(readings') :
                readings'[j].by = "agency" /\ readings'[j].party = links'[pages'[g].link].party
        <5>. SUFFICES ASSUME NEW g \in Pages, pages'[g].peers
                      PROVE  \E j \in 1..Len(readings') :
                               /\ readings'[j].by = "agency"
                               /\ readings'[j].party = links'[pages'[g].link].party
          OBVIOUS
        <5>1. pages'[g] = pages[g] /\ pages[g].peers
          BY <2>2
        <5>2. PICK j \in 1..(n + 1) :
                readings'[j].by = "agency" /\ readings'[j].party = links'[pages[g].link].party
          BY <2>1, <5>1
        <5>. QED
          BY <1>3, <5>1, <5>2
      <4>. QED
        BY <4>1 DEF PeersEarned
    <3>. QED
      BY <2>0, <2>2, <3>1, <3>2
  <2>3. ASSUME NEW e \in Page, pages' = [pages EXCEPT ![r.page] = e], e.phase = "receipt",
               e.link = r.link, e.key = r.key, e.print = r.print
        PROVE  pages' \in [Pages -> Page] /\ PagesSound' /\ PeersEarned'
    <3>1. /\ pages' \in [Pages -> Page]
          /\ \A g \in Pages : pages'[g] = IF g = r.page THEN e ELSE pages[g]
      BY <2>0, <2>3
    <3>2. /\ e.phase # "closed" /\ e.link = i /\ e.link >= 1 /\ e.link <= Len(links)
          /\ e.key >= 1 /\ e.print \in Details
      BY <1>0, <1>i, <2>3
    <3>3. PagesSound'
      BY <1>0, <1>8, <1>14, <3>1, <3>2 DEF PagesSound
    <3>4. PeersEarned'
      <4>1. /\ readings'[n + 1].by = "agency" /\ readings'[n + 1].party = links'[e.link].party
            /\ n + 1 \in 1..(n + 1)
        BY <1>3, <1>9, <3>2
      <4>2. ASSUME NEW g \in Pages, pages'[g].peers
            PROVE  \E j \in 1..(n + 1) :
                     readings'[j].by = "agency" /\ readings'[j].party = links'[pages'[g].link].party
        <5>1. CASE g = r.page
          BY <3>1, <4>1, <5>1
        <5>2. CASE g # r.page
          <6>1. pages'[g] = pages[g]
            BY <3>1, <5>2
          <6>. QED
            BY <2>1, <4>2, <6>1
        <5>. QED
          BY <5>1, <5>2
      <4>. QED
        BY <1>3, <4>2 DEF PeersEarned
    <3>. QED
      BY <3>1, <3>3, <3>4
  <2>. QED
    BY <1>0, <2>2, <2>3, AnswerOutcome
<1>16. PortalTypeOK'
  BY <1>0, <1>2, <1>8, <1>14, <1>15 DEF PortalTypeOK
<1>. QED
  BY <1>2, <1>10, <1>12, <1>13, <1>15, <1>16 DEF PortalInv

\* The server takes a submission.
LEMMA ReceiveKeeps ==
  ASSUME PortalInv, NEW r \in posts, NEW arrives \in BOOLEAN, NEW copy \in BOOLEAN,
         Receive(r, arrives, copy)
  PROVE  PortalInv'
<1>1. posts' \subseteq posts /\ UNCHANGED voyage
  BY DEF Receive
<1>2. CASE /\ ~Usable(r.link) /\ Answer(r, "failed", arrives) /\ UNCHANGED <<planVars, links>>
  BY <1>1, <1>2, AnsweredKeeps
<1>3. CASE /\ Usable(r.link) /\ links[r.link].reading # 0
           /\ Answer(r, IF Replays(r) THEN "receipt" ELSE "refused", arrives)
           /\ UNCHANGED <<planVars, links>>
  <2>1. CASE Replays(r)
    BY <1>1, <1>3, <2>1, AnsweredKeeps
  <2>2. CASE ~Replays(r)
    BY <1>1, <1>3, <2>2, AnsweredKeeps
  <2>. QED
    BY <2>1, <2>2
<1>4. CASE /\ Usable(r.link) /\ links[r.link].reading = 0 /\ ~Accepts(r)
           /\ Answer(r, "refused", arrives) /\ UNCHANGED <<planVars, links>>
  BY <1>1, <1>4, AnsweredKeeps
<1>5. CASE /\ Usable(r.link) /\ Accepts(r) /\ Record(links[r.link].party, "agency")
           /\ links' = [links EXCEPT ![r.link].reading = Len(readings'), ![r.link].request = r]
           /\ UNCHANGED <<proposals, assessments>> /\ Changed(NoOne, FALSE)
           /\ Answer(r, "receipt", arrives)
  BY <1>1, <1>5, AcceptedKeeps
<1>. QED
  BY <1>2, <1>3, <1>4, <1>5 DEF Receive

-----------------------------------------------------------------------------
(* The theorems                                                             *)

\* A new plan without links satisfies the invariant.
LEMMA PortalInitInv == PortalInit => PortalInv
<1>. SUFFICES ASSUME PortalInit PROVE PortalInv
  OBVIOUS
<1>1. /\ scope \in Scopes /\ readings = <<>> /\ proposals = <<>> /\ assessments = <<>>
      /\ plan \in [status : {"planned"}, schedule : scope.schedules]
      /\ screen = [u \in Staff |-> TRUE] /\ form = [u \in Staff |-> Closed]
  BY DEF PortalInit, Init
<1>2. /\ voyage \in [status : {"open"}, name : scope.names, access : {"active"}]
      /\ links = <<>> /\ posts = {}
      /\ pages = [g \in Pages |-> [link |-> 0, phase |-> "closed", print |-> NoOne,
                                   body |-> NoOne, key |-> 0, peers |-> FALSE]]
  BY DEF PortalInit
<1>3. TypeOK
  <2>1. scope.schedules \subseteq Schedules
    BY <1>1, PlanAssumption DEF PlanScope
  <2>2. plan \in [status : {"planned", "in-progress", "reconciled", "cancelled"},
                  schedule : Schedules]
    BY <1>1, <2>1
  <2>3. Closed \in Form
    BY DEF Closed, Form
  <2>4. /\ readings \in Seq(Reading) /\ proposals \in Seq(Proposal)
        /\ assessments \in Seq(Assessment) /\ Len(readings) = 0 /\ Len(proposals) = 0
        /\ Len(assessments) = 0
    BY <1>1
  <2>. QED
    BY <1>1, <2>2, <2>3, <2>4, PlanAssumption DEF TypeOK
<1>4. Newest = 0 /\ Issued = {} /\ Len(assessments) = 0 /\ Len(readings) = 0
  BY <1>1 DEF Newest, Issued
<1>5. PlanInv
  BY <1>3, <1>4 DEF PlanInv, DraftsOpen, FinalSound, AssessmentsSound, BilledSound, NewestIs
<1>6. links \in Seq(Link) /\ Len(links) = 0
  BY <1>2
<1>7. \A g \in Pages : /\ pages[g] \in Page /\ pages[g].link = 0 /\ pages[g].phase = "closed"
                       /\ pages[g].body = NoOne /\ ~pages[g].peers
  BY <1>2, PortalAssumption DEF Page
<1>8. PortalTypeOK
  <2>1. pages \in [Pages -> Page]
    BY <1>2, <1>7
  <2>2. voyage \in [status : {"open", "cancelled"}, name : Names, access : Accesses]
    <3>1. scope.names \subseteq Names
      BY <1>1, PortalAssumption
    <3>. QED
      BY <1>2, <3>1 DEF Accesses
  <2>3. posts \subseteq Post
    BY <1>2
  <2>4. links \in Seq(Link) /\ Len(links) <= MaxLinks
    BY <1>6, PortalAssumption
  <2>. QED
    BY <1>3, <2>1, <2>2, <2>3, <2>4 DEF PortalTypeOK
<1>9. LinksSound /\ FirstByLink /\ OnePerParty
  BY <1>4, <1>6 DEF LinksSound, FirstByLink, OnePerParty
<1>10. PagesSound /\ PeersEarned
  BY <1>2, <1>6, <1>7 DEF PagesSound, PeersEarned
<1>. QED
  BY <1>5, <1>8, <1>9, <1>10 DEF PortalInv

\* Every step of staff, pages and server keeps the invariant.
LEMMA PortalNextInv == PortalInv /\ [PortalNext]_vars => PortalInv'
<1>. SUFFICES ASSUME PortalInv, [PortalNext]_vars PROVE PortalInv'
  OBVIOUS
<1>0. scope.pages \subseteq Pages /\ scope.staff \subseteq Staff
  <2>1. scope \in Scopes /\ PlanScope(scope)
    BY ScopeFacts DEF PortalInv, PlanInv
  <2>. QED
    BY <2>1, PortalAssumption DEF PlanScope
<1>1. CASE UNCHANGED vars
  <2>1. UNCHANGED <<planVars, voyage, links, pages, posts>>
    BY <1>1 DEF vars, portalVars
  <2>2. PagesSound' /\ PeersEarned' /\ pages' \in [Pages -> Page] /\ posts' \subseteq Post
    BY <2>1 DEF PortalInv, PagesSound, PeersEarned, PortalTypeOK, planVars
  <2>. QED
    BY <2>1, <2>2, PagesChange
<1>2. CASE Active /\ (\E u \in scope.staff : StaffStep(u)) /\ UNCHANGED portalVars
  BY <1>2, StaffPortalKeeps
<1>3. CASE \/ CancelCall \/ \E n \in scope.names : EditCall(n)
           \/ \E a \in scope.access : ChangeAccess(a)
  BY <1>3, VoyageKeeps
<1>4. CASE \E p \in scope.parties : CreateLink(p)
  BY <1>4, CreateLinkKeeps
<1>5. CASE \E i \in 1..Len(links) : EndLink(i)
  BY <1>5, EndLinkKeeps
<1>6. CASE \E g \in scope.pages : PageStep(g)
  BY <1>0, <1>6, PageStepKeeps
<1>7. CASE \E r \in posts, arrives, copy \in BOOLEAN : Receive(r, arrives, copy)
  BY <1>7, ReceiveKeeps
<1>. QED
  BY <1>1, <1>2, <1>3, <1>4, <1>5, <1>6, <1>7 DEF PortalNext

\* The invariant of plan and portal holds throughout.
LEMMA PortalInvAlways == PortalSpec => []PortalInv
BY PortalInitInv, PortalNextInv, PTL DEF PortalSpec

\* Every variable of the plan and of the portal keeps its type.
THEOREM PortalTypeCorrect == PortalSpec => []PortalTypeOK
<1>1. PortalInv => PortalTypeOK
  BY PortalInvImplies
<1>. QED
  BY <1>1, PortalInvAlways, PTL

\* A finalized reconciliation had every required agreement, no dispute and an independent
\* Admin, and no return slips in behind it, from staff or through a link
\* (finalize_reconciliation, assert_open).
THEOREM FinalIsSoundAlways == PortalSpec => []FinalIsSound
<1>1. PortalInv => FinalIsSound
  BY PortalInvImplies
<1>. QED
  BY <1>1, PortalInvAlways, PTL

\* After any number of amendments the invoices of a line add up to what the last invoiced
\* quantities entitle to, and none is a credit (create_assessment, issue_assessment).
THEOREM BilledIsEntitlementAlways == PortalSpec => []BilledIsEntitlement
<1>1. PortalInv => BilledIsEntitlement
  BY PortalInvImplies
<1>. QED
  BY <1>1, PortalInvAlways, PTL

\* An agency's links yield one reading, its first, whatever is retried, duplicated or lost,
\* and other agencies' figures are shown only after it (PortalSubmissionView, context_data).
THEOREM OneLinkReadingAlways == PortalSpec => []OneLinkReading
<1>1. PortalInv => OneLinkReading
  BY PortalInvImplies
<1>. QED
  BY <1>1, PortalInvAlways, PTL

\* No page is told that its submission was refused when that submission is the one on record
\* (the request id of a retry in PortalSubmissionView).
THEOREM NoFalseRefusalAlways == PortalSpec => NoFalseRefusal
<1>. DEFINE own(g) == [page |-> g, link |-> pages[g].link, print |-> pages[g].print,
                       body |-> pages[g].body, key |-> pages[g].key]
            A == \A g \in Pages : pages[g].phase = "sent" /\ pages'[g].phase = "refused" =>
                   links[pages[g].link].request # own(g)
<1>1. PortalInv /\ [PortalNext]_vars => A \/ UNCHANGED vars
  <2>. SUFFICES ASSUME PortalInv, PortalNext, NEW g \in Pages, pages[g].phase = "sent",
                       pages'[g].phase = "refused"
                PROVE  links[pages[g].link].request # own(g)
    OBVIOUS
  <2>0. pages \in [Pages -> Page] /\ posts \subseteq Post
    BY DEF PortalInv, PortalTypeOK
  <2>1. pages' # pages
    OBVIOUS
  <2>2. ~ UNCHANGED pages
    BY <2>1
  <2>3. ASSUME NEW h \in scope.pages, PageStep(h) PROVE FALSE
    <3>1. CASE ClosePage(h)
      BY <2>0, <3>1 DEF ClosePage, Page
    <3>2. CASE TimeOut(h)
      BY <2>0, <3>2 DEF TimeOut, Page
    <3>3. CASE Recover(h)
      BY <2>0, <3>3 DEF Recover, Page
    <3>4. CASE GiveUp(h)
      BY <2>0, <3>4 DEF GiveUp, Page
    <3>5. CASE \E i \in 1..Len(links) : OpenPage(h, i)
      BY <2>0, <3>5 DEF OpenPage, Page, Loaded, FirstPhase
    <3>7. CASE Reload(h)
      <4>1. PICK f \in {"receipt", "entry", "closed"} :
              pages' = [pages EXCEPT ![h] = Loaded(h, pages[h].link, f)]
        BY <3>7 DEF Reload, FirstPhase
      <4>. QED
        BY <2>0, <4>1 DEF Loaded
    <3>6. CASE \E b \in scope.bodies : Submit(h, b)
      BY <2>0, <3>6 DEF Submit, Page
    <3>. QED
      BY <2>3, <3>1, <3>2, <3>3, <3>4, <3>5, <3>6, <3>7 DEF PageStep
  <2>4. PICK r \in posts, arrives \in BOOLEAN, copy \in BOOLEAN : Receive(r, arrives, copy)
    BY <2>2, <2>3 DEF PortalNext, portalVars, CancelCall, EditCall, ChangeAccess, CreateLink, EndLink
  <2>5. ASSUME NEW outcome \in {"failed", "refused", "receipt"}, Answer(r, outcome, arrives)
        PROVE  outcome = "refused" /\ own(g) = r
    <3>1. r \in Post
      BY <2>0
    <3>2. PICK e \in Page :
              /\ pages' = [pages EXCEPT ![r.page] = e] /\ e.phase = outcome
              /\ pages[r.page].link = r.link /\ pages[r.page].key = r.key
              /\ pages[r.page].body = r.body /\ pages[r.page].print = r.print
      BY <2>1, <2>5, <3>1, AnswerOutcome
    <3>3. g = r.page /\ outcome = "refused"
      BY <2>0, <3>1, <3>2 DEF Post
    <3>4. r = [page |-> r.page, link |-> r.link, print |-> r.print, body |-> r.body,
               key |-> r.key]
      BY <3>1 DEF Post
    <3>. QED
      BY <3>2, <3>3, <3>4
  <2>6. r \in Post /\ r # NoOne /\ r.link \in 1..Len(links)
    BY <2>0, PostAssumption DEF PortalInv, PagesSound, PortalTypeOK, Post
  <2>7. links[r.link].request # r /\ own(g) = r
    <3>1. CASE Answer(r, "failed", arrives) \/ Answer(r, "receipt", arrives)
      BY <2>5, <3>1
    <3>2. CASE /\ links[r.link].reading # 0
               /\ Answer(r, IF Replays(r) THEN "receipt" ELSE "refused", arrives)
      BY <2>5, <3>2 DEF Replays
    <3>3. CASE links[r.link].reading = 0 /\ Answer(r, "refused", arrives)
      BY <2>5, <2>6, <3>3 DEF PortalInv, LinksSound
    <3>. QED
      BY <2>4, <3>1, <3>2, <3>3 DEF Receive
  <2>8. pages[g].link = r.link
    BY <2>7
  <2>. QED
    BY <2>7, <2>8
<1>2. PortalInv /\ [PortalNext]_vars => [A]_vars
  BY <1>1
<1>. QED
  BY <1>2, PortalInvAlways, PTL DEF PortalSpec, NoFalseRefusal

=============================================================================

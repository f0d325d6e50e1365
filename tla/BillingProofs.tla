--------------------------- MODULE BillingProofs ----------------------------
(***************************************************************************)
(* Theorems about the invoice ledger, its status workflow and the vessel   *)
(* operations that bill through it (InvoiceBilling, VesselOperations), for *)
(* every set of invoices, payments, steps, amounts, calls and inspections and*)
(* every number of steps of the system. What a step does to a history is   *)
(* stated once (Recorded), and to the ledger every handler of the operations*)
(* is a step of InvoiceBilling, so that what is proved there holds here.   *)
(***************************************************************************)
EXTENDS VesselOperations, TLAPS

-----------------------------------------------------------------------------
(* Types                                                                    *)

\* The workflow half of TypeOK.
StepsTyped ==
  /\ steps \subseteq Step
  /\ active \subseteq steps
  /\ notifying \subseteq steps
  /\ position \in [Step -> Nat]

\* The half of TypeOK that TransitionInvoice writes.
StatusTyped ==
  /\ status \in [Invoice -> {"unpaid", "paid"}]
  /\ current \in [Invoice -> Step \cup {NoStep}]
  /\ events \in [Invoice -> Seq(Event)]
  /\ notices \subseteq Notice

\* ensure_default_steps leaves a well-typed step table.
LEMMA EnsureDefaultStepsType ==
  ASSUME StepsTyped, EnsureDefaultSteps
  PROVE  StepsTyped'
<1>1. DefaultStep \subseteq Step
  BY DEF Step
<1>2. EnsuredPosition \in [Step -> Nat]
  BY ConstantsAssumption DEF EnsuredPosition, StepsTyped
<1>. QED
  BY <1>1, <1>2 DEF StepsTyped, EnsureDefaultSteps, EnsuredSteps, EnsuredActive,
                    EnsuredNotifying, DefaultStep

\* A history stays a history when an event is appended to it.
LEMMA AppendEvent ==
  ASSUME NEW h \in Seq(Event), NEW e \in Event
  PROVE  Append(h, e) \in Seq(Event)
OBVIOUS

\* transition_invoice writes values of the right types.
LEMMA TransitionInvoiceType ==
  ASSUME TypeOK, NEW i \in Invoice, NEW s \in Step, NEW source \in Source,
         NEW own \in SUBSET Notice, TransitionInvoice(i, s, source, own)
  PROVE  StepsTyped' /\ StatusTyped'
<1>1. StepsTyped'
  BY EnsureDefaultStepsType DEF TransitionInvoice, TypeOK, StepsTyped
<1>2. events' \in [Invoice -> Seq(Event)]
  <2>1. StatusEvent(i, s, source) \in Event
    BY DEF TypeOK, Event, StatusEvent
  <2>2. Append(events[i], StatusEvent(i, s, source)) \in Seq(Event)
    BY <2>1, AppendEvent DEF TypeOK
  <2>. QED
    BY <2>2 DEF TypeOK, TransitionInvoice
<1>3. notices' \subseteq Notice
  <2>1. StatusNotice(i, s) \subseteq Notice
    <3>1. Len(events[i]) + 1 \in Nat
      BY DEF TypeOK
    <3>. QED
      BY <3>1 DEF StatusNotice, Notice
  <2>. QED
    BY <2>1 DEF TypeOK, TransitionInvoice
<1>4. status' \in [Invoice -> {"unpaid", "paid"}] /\ current' \in [Invoice -> Step \cup {NoStep}]
  BY DEF TypeOK, TransitionInvoice
<1>. QED
  BY <1>1, <1>2, <1>3, <1>4 DEF StatusTyped

\* So does reconcile_payment_status.
LEMMA ReconcileType ==
  ASSUME TypeOK, NEW i \in Invoice, NEW rows, NEW source \in Source,
         NEW own \in SUBSET Notice, ReconcilePaymentStatus(i, rows, source, own)
  PROVE  StepsTyped' /\ StatusTyped'
<1>1. ASSUME NEW s \in Step, TransitionInvoice(i, s, source, own)
      PROVE  StepsTyped' /\ StatusTyped'
  BY <1>1, TransitionInvoiceType
<1>2. PaidStep \in Step
  BY DEF Step, DefaultStep
<1>3. CASE notices' = notices \cup own /\ UNCHANGED <<statusVars, stepVars>>
  BY <1>3 DEF TypeOK, StepsTyped, StatusTyped, statusVars, stepVars
<1>. QED
  BY <1>1, <1>2, <1>3 DEF ReconcilePaymentStatus

\* The initial states are well-typed.
LEMMA InitType == BillingInit => TypeOK
<1>. SUFFICES ASSUME BillingInit PROVE TypeOK
  OBVIOUS
<1>1. dues \in [Invoice -> 0 .. MaxAmount]
  <2>1. dues \in [Invoice -> Dues \cup {0}]
    BY DEF BillingInit
  <2>2. Dues \cup {0} \subseteq 0 .. MaxAmount
    BY ConstantsAssumption
  <2>. QED
    BY <2>1, <2>2
<1>2. payments \in [Invoice -> SUBSET Payment]
  <2>1. PICK paid \in SUBSET Legacy :
          \E ledger \in SUBSET {i \in paid : dues[i] > 0} :
            payments = [i \in Invoice |-> IF i \in ledger THEN {LegacyPayment(dues[i])} ELSE {}]
    BY DEF BillingInit
  <2>2. PICK ledger \in SUBSET {i \in paid : dues[i] > 0} :
          payments = [i \in Invoice |-> IF i \in ledger THEN {LegacyPayment(dues[i])} ELSE {}]
    BY <2>1
  <2>3. ASSUME NEW i \in Invoice, i \in ledger
        PROVE  LegacyPayment(dues[i]) \in Payment
    <3>1. dues[i] \in 1 .. MaxAmount
      BY <1>1, <2>3, <2>2, ConstantsAssumption
    <3>. QED
      BY <3>1 DEF LegacyPayment, Payment
  <2>. QED
    BY <2>2, <2>3
<1>3. status \in [Invoice -> {"unpaid", "paid"}]
  BY DEF BillingInit
<1>. QED
  BY <1>1, <1>2, <1>3, ConstantsAssumption DEF BillingInit, TypeOK

\* Every step keeps the types.
LEMMA NextType == TypeOK /\ [BillingNext]_billingVars => TypeOK'
<1>. SUFFICES ASSUME TypeOK, [BillingNext]_billingVars PROVE TypeOK'
  OBVIOUS
<1>. USE DEF billingVars, statusVars, stepVars
<1>b. ASSUME BumpAgain \/ Bump PROVE revision' \in Nat
  BY <1>b DEF TypeOK, BumpAgain, Bump
<1>1. CASE ProvisionSteps
  BY <1>1, EnsureDefaultStepsType DEF ProvisionSteps, TypeOK, StepsTyped
<1>2. ASSUME NEW s \in CustomStep, NEW isActive \in BOOLEAN, NEW notify \in BOOLEAN,
             CreateStep(s, isActive, notify)
      PROVE  TypeOK'
  <2>1. s \in Step /\ DefaultStep \subseteq Step /\ ReviewStep \subseteq DefaultStep
    BY DEF Step, DefaultStep
  <2>2. EnsuredPosition \in [Step -> Nat]
    BY ConstantsAssumption DEF EnsuredPosition, TypeOK
  <2>3. PICK last \in EnsuredSteps :
          position' = [EnsuredPosition EXCEPT ![s] = EnsuredPosition[last] + 1]
    BY <1>2 DEF CreateStep
  <2>4. EnsuredPosition[last] + 1 \in Nat
    BY <2>1, <2>2, <2>3 DEF EnsuredSteps, TypeOK
  <2>5. position' \in [Step -> Nat]
    BY <2>2, <2>3, <2>4
  <2>6. steps' \subseteq Step /\ active' \subseteq steps' /\ notifying' \subseteq steps'
    BY <1>2, <2>1 DEF CreateStep, EnsuredSteps, EnsuredActive, EnsuredNotifying, TypeOK
  <2>. QED
    BY <1>2, <1>b, <2>5, <2>6 DEF CreateStep, TypeOK
<1>3. ASSUME NEW s \in Step, NEW isActive \in BOOLEAN, NEW notify \in BOOLEAN,
             NEW relabel \in BOOLEAN, UpdateStep(s, isActive, notify, relabel)
      PROVE  TypeOK'
  BY <1>3, <1>b DEF UpdateStep, TypeOK
<1>4. ASSUME NEW order \in [steps -> 1 .. Cardinality(steps)], ReorderSteps(order)
      PROVE  TypeOK'
  <2>1. position' \in [Step -> Nat]
    BY <1>4 DEF ReorderSteps, TypeOK
  <2>. QED
    BY <1>4, <1>b, <2>1 DEF ReorderSteps, TypeOK
<1>5. ASSUME NEW i \in Invoice, NEW s \in Step, TransitionManually(i, s)
      PROVE  TypeOK'
  <2>1. StepsTyped' /\ StatusTyped'
    BY <1>5, TransitionInvoiceType DEF TransitionManually, Source
  <2>. QED
    BY <1>5, <1>b, <2>1 DEF TransitionManually, TypeOK, StepsTyped, StatusTyped
<1>6. ASSUME NEW i \in Invoice, NEW k \in Key, ReplayPayment(i, k)
      PROVE  TypeOK'
  BY <1>6 DEF ReplayPayment, TypeOK
<1>7. ASSUME NEW i \in Invoice, NEW amount \in 1 .. dues[i], NEW reference \in Reference,
             NEW k \in Key \cup {NoKey}, CreatePayment(i, amount, reference, k)
      PROVE  TypeOK'
  <2>. DEFINE row == [reference |-> reference, key |-> k, amount |-> amount, reversed |-> FALSE]
              own == {[kind |-> "payment-recorded", invoice |-> i, tag |-> reference]}
  <2>1. row \in Payment
    BY ConstantsAssumption DEF Payment, TypeOK
  <2>2. own \in SUBSET Notice
    BY DEF Notice
  <2>3. ReconcilePaymentStatus(i, payments[i] \cup {row}, "payment", own)
    BY <1>7 DEF CreatePayment
  <2>4. StepsTyped' /\ StatusTyped'
    BY <2>2, <2>3, ReconcileType DEF Source
  <2>5. payments' \in [Invoice -> SUBSET Payment]
    BY <1>7, <2>1 DEF CreatePayment, TypeOK
  <2>. QED
    BY <1>7, <1>b, <2>4, <2>5 DEF CreatePayment, TypeOK, StepsTyped, StatusTyped
<1>8. ASSUME NEW i \in Invoice, NEW p \in payments[i], ReversePayment(i, p)
      PROVE  TypeOK'
  <2>. DEFINE row == [p EXCEPT !.reversed = TRUE]
              own == {[kind |-> "payment-reversed", invoice |-> i, tag |-> p.reference]}
  <2>1. p \in Payment /\ row \in Payment
    <3>1. p \in Payment
      BY DEF TypeOK
    <3>. QED
      BY <3>1 DEF Payment
  <2>2. own \in SUBSET Notice
    BY <2>1 DEF Notice, Payment
  <2>3. ReconcilePaymentStatus(i, (payments[i] \ {p}) \cup {row}, "reversal", own)
    BY <1>8 DEF ReversePayment, ReversedIn
  <2>4. StepsTyped' /\ StatusTyped'
    BY <2>2, <2>3, ReconcileType DEF Source
  <2>5. payments' \in [Invoice -> SUBSET Payment]
    BY <1>8, <2>1 DEF ReversePayment, ReversedIn, TypeOK
  <2>. QED
    BY <1>8, <1>b, <2>4, <2>5 DEF ReversePayment, TypeOK, StepsTyped, StatusTyped
<1>9. ASSUME NEW i \in Invoice, NEW d \in Dues, IssueInvoice(i, d), BumpAgain
      PROVE  TypeOK'
  <2>1. PICK s \in Step :
          /\ current' = [current EXCEPT ![i] = s]
          /\ events' = [events EXCEPT ![i] =
                          <<[from |-> NoStep, to |-> s, source |-> "created"]>>]
    BY <1>9 DEF IssueInvoice
  <2>2. <<[from |-> NoStep, to |-> s, source |-> "created"]>> \in Seq(Event)
    BY DEF Event, Source
  <2>3. events' \in [Invoice -> Seq(Event)] /\ current' \in [Invoice -> Step \cup {NoStep}]
    BY <2>1, <2>2 DEF TypeOK
  <2>4. StepsTyped'
    BY <1>9, EnsureDefaultStepsType DEF IssueInvoice, TypeOK, StepsTyped
  <2>5. dues' \in [Invoice -> 0 .. MaxAmount] /\ status' \in [Invoice -> {"unpaid", "paid"}]
    BY <1>9, ConstantsAssumption DEF IssueInvoice, TypeOK
  <2>. QED
    BY <1>9, <1>b, <2>3, <2>4, <2>5 DEF IssueInvoice, TypeOK, StepsTyped
<1>10. CASE OtherMutation
  BY <1>10, <1>b DEF OtherMutation, TypeOK
<1>11. CASE UNCHANGED billingVars
  BY <1>11 DEF TypeOK
<1>. QED
  BY <1>1, <1>2, <1>3, <1>4, <1>5, <1>6, <1>7, <1>8, <1>9, <1>10, <1>11
     DEF BillingNext, WorkflowNext, PaymentNext

\* Type correctness: through every handler the tables keep their types, only existing
\* steps are active or notify, and amounts fit their column.
THEOREM TypeCorrect == BillingSpec => []TypeOK
BY InitType, NextType, PTL DEF BillingSpec

-----------------------------------------------------------------------------
(* Money                                                                    *)

\* Where an invoice stands: settled by its payments, carried over as paid without
\* any, still owing, or issued for nothing.
Settled(i) ==
  /\ status[i] = "paid" /\ current[i] \in {PaidStep, NoStep}
  /\ ActivePaid(payments[i]) = dues[i] /\ dues[i] > 0
CarriedOver(i) ==
  status[i] = "paid" /\ current[i] = NoStep /\ payments[i] = {} /\ i \in Legacy
Owing(i) ==
  /\ status[i] = "unpaid" /\ current[i] # PaidStep
  /\ ActivePaid(payments[i]) < dues[i]
Nothing(i) ==
  status[i] = "unpaid" /\ current[i] # PaidStep /\ payments[i] = {} /\ dues[i] = 0

\* A payment reference is unique within an invoice, what makes the sum over the rows
\* the sum over references.
UniqueReferences ==
  \A i \in Invoice : \A p, q \in payments[i] : p.reference = q.reference => p = q

\* The inductive invariant behind NeverOverpaid and PaidIffCovered.
MoneyInv ==
  /\ TypeOK
  /\ UniqueReferences
  /\ Legacy \subseteq issued
  /\ \A i \in Invoice \ issued : payments[i] = {} /\ status[i] = "unpaid"
  /\ \A i \in issued : Settled(i) \/ CarriedOver(i) \/ Owing(i) \/ Nothing(i)

\* No payments add up to nothing.
LEMMA NoPayments == ActivePaid({}) = 0
<1>1. ActiveCredits({}) = {}
  BY DEF ActiveCredits
<1>. QED
  BY <1>1, SumAssumption DEF ActivePaid

\* The rows of an invoice add up to a natural number.
LEMMA ActivePaidType ==
  ASSUME NEW rows \in SUBSET Payment
  PROVE  ActiveCredits(rows) \in SUBSET Credit /\ ActivePaid(rows) \in Nat
<1>1. ActiveCredits(rows) \in SUBSET Credit
  BY DEF ActiveCredits, CreditOf, Credit, Payment
<1>. QED
  BY <1>1, SumAssumption DEF ActivePaid

\* One more live row with a reference of its own adds its amount.
LEMMA ActivePaidAdd ==
  ASSUME NEW rows \in SUBSET Payment, NEW p \in Payment, ~p.reversed,
         \A q \in rows : q.reference # p.reference
  PROVE  ActivePaid(rows \cup {p}) = ActivePaid(rows) + p.amount
<1>1. ActiveCredits(rows \cup {p}) = ActiveCredits(rows) \cup {CreditOf(p)}
  BY DEF ActiveCredits
<1>2. CreditOf(p) \in Credit \ ActiveCredits(rows)
  BY DEF ActiveCredits, CreditOf, Credit, Payment
<1>3. CreditOf(p).amount = p.amount
  BY DEF CreditOf
<1>. QED
  BY <1>1, <1>2, <1>3, ActivePaidType, SumAssumption DEF ActivePaid

\* Marking a live row as reversed takes its amount out.
LEMMA ActivePaidReverse ==
  ASSUME NEW rows \in SUBSET Payment, NEW p \in rows, ~p.reversed,
         \A q \in rows : q.reference = p.reference => q = p
  PROVE  ActivePaid(rows)
           = ActivePaid((rows \ {p}) \cup {[p EXCEPT !.reversed = TRUE]}) + p.amount
<1>. DEFINE other == rows \ {p}
            row == [p EXCEPT !.reversed = TRUE]
<1>1. p \in Payment /\ row.reversed
  BY DEF Payment
<1>2. ActiveCredits(other \cup {row}) = ActiveCredits(other)
  BY <1>1 DEF ActiveCredits
<1>3. ActivePaid(other \cup {p}) = ActivePaid(other) + p.amount
  BY <1>1, ActivePaidAdd
<1>4. other \cup {p} = rows
  OBVIOUS
<1>. QED
  BY <1>2, <1>3, <1>4 DEF ActivePaid

\* The step a reversal or a first partial payment restores is never Paid.
LEMMA RestoredIsNotPaid ==
  ASSUME NEW i, NEW s, IsRestored(i, s)
  PROVE  s # PaidStep
BY DEF IsRestored, Restorable, IsActiveDefault

\* What reconcile_payment_status makes of the invoice, given the rows it finds.
LEMMA ReconcileOutcome ==
  ASSUME TypeOK, NEW i \in Invoice, NEW rows \in SUBSET Payment, NEW source, NEW own,
         ReconcilePaymentStatus(i, rows, source, own),
         status[i] = "paid" => current[i] \in {PaidStep, NoStep},
         status[i] = "unpaid" => current[i] # PaidStep
  PROVE  /\ \A j \in Invoice \ {i} : status'[j] = status[j] /\ current'[j] = current[j]
         /\ ActivePaid(rows) >= dues[i] => status'[i] = "paid" /\ current'[i] = PaidStep
         /\ ~(ActivePaid(rows) >= dues[i]) => status'[i] = "unpaid" /\ current'[i] # PaidStep
<1>. USE DEF TypeOK
<1>0. PaidStep # NoStep
  BY ConstantsAssumption DEF Step, DefaultStep
<1>1. CASE /\ ActivePaid(rows) >= dues[i]
           /\ TransitionInvoice(i, PaidStep, source, own)
  BY <1>1 DEF TransitionInvoice
<1>2. CASE /\ ~(ActivePaid(rows) >= dues[i])
           /\ \E s \in Step : IsRestored(i, s) /\ TransitionInvoice(i, s, source, own)
  <2>1. PICK s \in Step : IsRestored(i, s) /\ TransitionInvoice(i, s, source, own)
    BY <1>2
  <2>2. s # PaidStep
    BY <2>1, RestoredIsNotPaid
  <2>. QED
    BY <1>2, <2>1, <2>2 DEF TransitionInvoice
<1>3. CASE /\ ActivePaid(rows) >= dues[i] <=> current[i] = PaidStep
           /\ current[i] # NoStep
           /\ UNCHANGED statusVars
  BY <1>3 DEF statusVars
<1>. QED
  BY <1>1, <1>2, <1>3 DEF ReconcilePaymentStatus, CoversDues

\* The import leaves every invoice carried over, settled or owing.
LEMMA InitMoney == BillingInit => MoneyInv
<1>. SUFFICES ASSUME BillingInit PROVE MoneyInv
  OBVIOUS
<1>1. TypeOK
  BY InitType
<1>2. PICK paid \in SUBSET Legacy :
        /\ status = [i \in Invoice |-> IF i \in paid THEN "paid" ELSE "unpaid"]
        /\ \E ledger \in SUBSET {i \in paid : dues[i] > 0} :
             payments = [i \in Invoice |-> IF i \in ledger THEN {LegacyPayment(dues[i])} ELSE {}]
  BY DEF BillingInit
<1>3. PICK ledger \in SUBSET {i \in paid : dues[i] > 0} :
        payments = [i \in Invoice |-> IF i \in ledger THEN {LegacyPayment(dues[i])} ELSE {}]
  BY <1>2
<1>4. issued = Legacy /\ Legacy \subseteq Invoice /\ current = [i \in Invoice |-> NoStep]
  BY ConstantsAssumption DEF BillingInit
<1>5. PaidStep # NoStep
  BY ConstantsAssumption DEF Step, DefaultStep
<1>6. ASSUME NEW i \in issued
      PROVE  Settled(i) \/ CarriedOver(i) \/ Owing(i) \/ Nothing(i)
  <2>0. i \in Invoice /\ i \in Legacy /\ dues[i] \in Nat
    BY <1>1, <1>4 DEF TypeOK
  <2>1. CASE i \in ledger
    <3>1. payments[i] = {} \cup {LegacyPayment(dues[i])} /\ dues[i] > 0 /\ status[i] = "paid"
      BY <2>0, <2>1, <1>2, <1>3
    <3>2. LegacyPayment(dues[i]) \in Payment
      BY <1>1, <2>0, <3>1 DEF TypeOK
    <3>3. ActivePaid(payments[i]) = ActivePaid({}) + LegacyPayment(dues[i]).amount
      BY <3>1, <3>2, ActivePaidAdd DEF LegacyPayment
    <3>. QED
      BY <2>0, <3>1, <3>3, <1>4, NoPayments DEF Settled, LegacyPayment
  <2>2. CASE i \notin ledger /\ i \in paid
    BY <2>0, <2>2, <1>2, <1>3, <1>4 DEF CarriedOver
  <2>3. CASE i \notin paid
    <3>1. payments[i] = {} /\ status[i] = "unpaid" /\ current[i] # PaidStep
      BY <2>0, <2>3, <1>2, <1>3, <1>4, <1>5
    <3>. QED
      BY <2>0, <3>1, NoPayments DEF Owing, Nothing
  <2>. QED
    BY <2>1, <2>2, <2>3
<1>7. UniqueReferences
  BY <1>3 DEF UniqueReferences
<1>8. \A i \in Invoice \ issued : payments[i] = {} /\ status[i] = "unpaid"
  BY <1>2, <1>3, <1>4
<1>. QED
  BY <1>1, <1>4, <1>6, <1>7, <1>8 DEF MoneyInv

\* An invoice whose columns a step leaves alone stands where it stood.
LEMMA StandingKept ==
  ASSUME NEW i, status'[i] = status[i], current'[i] = current[i],
         payments'[i] = payments[i], dues'[i] = dues[i],
         Settled(i) \/ CarriedOver(i) \/ Owing(i) \/ Nothing(i)
  PROVE  (Settled(i) \/ CarriedOver(i) \/ Owing(i) \/ Nothing(i))'
BY DEF Settled, CarriedOver, Owing, Nothing, ActivePaid, ActiveCredits, CreditOf

\* Every step keeps the money invariant.
LEMMA NextMoney == MoneyInv /\ [BillingNext]_billingVars => MoneyInv'
<1>. SUFFICES ASSUME MoneyInv, [BillingNext]_billingVars PROVE MoneyInv'
  OBVIOUS
<1>0. TypeOK'
  BY NextType DEF MoneyInv
<1>. DEFINE Stands(i) == Settled(i) \/ CarriedOver(i) \/ Owing(i) \/ Nothing(i)
<1>s. ASSUME UNCHANGED <<issued, dues, status, current, payments>> PROVE MoneyInv'
  <2>1. ASSUME NEW i \in issued' PROVE Stands(i)'
    BY <1>s, <2>1, StandingKept DEF MoneyInv
  <2>. QED
    BY <1>s, <1>0, <2>1 DEF MoneyInv, UniqueReferences
<1>1. CASE WorkflowNext \/ OtherMutation \/ UNCHANGED billingVars
  BY <1>1, <1>s DEF WorkflowNext, ProvisionSteps, CreateStep, UpdateStep, ReorderSteps,
                    OtherMutation, billingVars, statusVars
<1>2. ASSUME NEW i \in Invoice, NEW s \in Step, TransitionManually(i, s)
      PROVE  MoneyInv'
  <2>1. /\ status' = [status EXCEPT ![i] = "unpaid"]
        /\ current' = [current EXCEPT ![i] = s]
        /\ s # PaidStep /\ status[i] # "paid" /\ i \in issued
        /\ UNCHANGED <<issued, dues, payments>>
    BY <1>2 DEF TransitionManually, ManualTarget, TransitionInvoice
  <2>2. ASSUME NEW j \in issued' PROVE Stands(j)'
    <3>1. j \in Invoice /\ j \in issued
      BY <2>1 DEF MoneyInv, TypeOK
    <3>2. CASE j # i
      BY <2>1, <3>1, <3>2, StandingKept DEF MoneyInv, TypeOK
    <3>3. CASE j = i
      <4>1. status'[i] = "unpaid" /\ current'[i] # PaidStep
        BY <2>1 DEF MoneyInv, TypeOK
      <4>2. Owing(i) \/ Nothing(i)
        BY <2>1, <3>1, <3>3 DEF MoneyInv, Settled, CarriedOver
      <4>. QED
        BY <2>1, <3>3, <4>1, <4>2
           DEF Owing, Nothing, ActivePaid, ActiveCredits, CreditOf
    <3>. QED
      BY <3>2, <3>3
  <2>3. \A j \in Invoice \ issued' : payments'[j] = {} /\ status'[j] = "unpaid"
    BY <2>1 DEF MoneyInv, TypeOK
  <2>. QED
    BY <1>0, <2>1, <2>2, <2>3 DEF MoneyInv, UniqueReferences
<1>3. ASSUME NEW i \in Invoice, NEW k \in Key, ReplayPayment(i, k)
      PROVE  MoneyInv'
  BY <1>3, <1>s DEF ReplayPayment, billingVars, statusVars
<1>4. ASSUME NEW i \in Invoice, NEW amount \in 1 .. dues[i], NEW reference \in Reference,
             NEW k \in Key \cup {NoKey}, CreatePayment(i, amount, reference, k)
      PROVE  MoneyInv'
  <2>. DEFINE row == [reference |-> reference, key |-> k, amount |-> amount, reversed |-> FALSE]
              rows == payments[i] \cup {row}
              own == {[kind |-> "payment-recorded", invoice |-> i, tag |-> reference]}
  <2>1. /\ i \in issued /\ status[i] # "paid"
        /\ ActivePaid(payments[i]) + amount <= dues[i]
        /\ \A p \in payments[i] : p.reference # reference
        /\ payments' = [payments EXCEPT ![i] = rows]
        /\ ReconcilePaymentStatus(i, rows, "payment", own)
        /\ UNCHANGED <<issued, dues>>
    BY <1>4 DEF CreatePayment, FitsBalance
  <2>2. row \in Payment /\ payments[i] \in SUBSET Payment /\ dues[i] \in Nat /\ amount \in Nat \ {0}
    BY ConstantsAssumption DEF Payment, TypeOK, MoneyInv
  <2>3. ActivePaid(rows) = ActivePaid(payments[i]) + amount
    BY <2>1, <2>2, ActivePaidAdd
  <2>4. rows \in SUBSET Payment /\ ActivePaid(rows) \in Nat /\ ActivePaid(rows) <= dues[i]
    <3>1. rows \in SUBSET Payment
      BY <2>2
    <3>. QED
      BY <3>1, <2>1, <2>3, ActivePaidType
  <2>5. Owing(i) \/ Nothing(i)
    BY <2>1 DEF MoneyInv, Settled, CarriedOver
  <2>6. status[i] = "unpaid" /\ current[i] # PaidStep
    BY <2>5 DEF Owing, Nothing
  <2>7. /\ \A j \in Invoice \ {i} : status'[j] = status[j] /\ current'[j] = current[j]
        /\ ActivePaid(rows) >= dues[i] => status'[i] = "paid" /\ current'[i] = PaidStep
        /\ ~(ActivePaid(rows) >= dues[i]) => status'[i] = "unpaid" /\ current'[i] # PaidStep
    <3>. HIDE DEF rows, own
    <3>. QED
      BY <2>1, <2>4, <2>6, ReconcileOutcome DEF MoneyInv
  <2>8. payments'[i] = rows /\ \A j \in Invoice \ {i} : payments'[j] = payments[j]
    BY <2>1 DEF MoneyInv, TypeOK
  <2>9. ASSUME NEW j \in issued' PROVE Stands(j)'
    <3>1. j \in Invoice /\ j \in issued /\ dues'[j] = dues[j]
      BY <2>1 DEF MoneyInv, TypeOK
    <3>2. CASE j # i
      BY <2>7, <2>8, <3>1, <3>2, StandingKept DEF MoneyInv
    <3>3. CASE j = i
      <4>1. ActivePaid(payments'[i]) = ActivePaid(rows) /\ dues[i] > 0
        BY <2>8, <2>1, <2>2
      <4>. HIDE DEF rows
      <4>2. (ActivePaid(payments[i]))' = ActivePaid(rows)
        BY <2>8 DEF ActivePaid, ActiveCredits, CreditOf
      <4>. QED
        BY <2>2, <2>4, <2>7, <3>1, <3>3, <4>1, <4>2 DEF Settled, Owing
    <3>. QED
      BY <3>2, <3>3
  <2>10. UniqueReferences'
    <3>. SUFFICES ASSUME NEW j \in Invoice, NEW a \in payments'[j], NEW b \in payments'[j],
                         a.reference = b.reference
                  PROVE  a = b
      BY DEF UniqueReferences
    <3>1. CASE j # i
      BY <2>8, <3>1 DEF MoneyInv, UniqueReferences
    <3>2. CASE j = i
      <4>1. row.reference = reference
        OBVIOUS
      <4>2. a \in payments[i] \cup {row} /\ b \in payments[i] \cup {row}
        BY <2>8, <3>2
      <4>. HIDE DEF row
      <4>. QED
        BY <2>1, <4>1, <4>2 DEF MoneyInv, UniqueReferences
    <3>. QED
      BY <3>1, <3>2
  <2>11. \A j \in Invoice \ issued' : payments'[j] = {} /\ status'[j] = "unpaid"
    BY <2>1, <2>7, <2>8 DEF MoneyInv
  <2>. QED
    BY <1>0, <2>1, <2>9, <2>10, <2>11 DEF MoneyInv
<1>5. ASSUME NEW i \in Invoice, NEW p \in payments[i], ReversePayment(i, p)
      PROVE  MoneyInv'
  <2>. DEFINE row == [p EXCEPT !.reversed = TRUE]
              rows == (payments[i] \ {p}) \cup {row}
              own == {[kind |-> "payment-reversed", invoice |-> i, tag |-> p.reference]}
  <2>1. /\ i \in issued /\ ~p.reversed
        /\ payments' = [payments EXCEPT ![i] = rows]
        /\ ReconcilePaymentStatus(i, rows, "reversal", own)
        /\ UNCHANGED <<issued, dues>>
    BY <1>5 DEF ReversePayment, ReversedIn
  <2>2. /\ payments[i] \in SUBSET Payment /\ p \in Payment /\ dues[i] \in Nat
        /\ \A q \in payments[i] : q.reference = p.reference => q = p
    BY DEF TypeOK, MoneyInv, UniqueReferences
  <2>3. row \in Payment /\ row.reference = p.reference /\ p.amount \in Nat \ {0}
    <3>1. p.amount \in 1 .. MaxAmount /\ MaxAmount \in Nat
      BY <2>2, ConstantsAssumption DEF Payment
    <3>2. row \in Payment /\ row.reference = p.reference
      BY <2>2 DEF Payment
    <3>. QED
      BY <3>1, <3>2
  <2>4. ActivePaid(payments[i]) = ActivePaid(rows) + p.amount
    BY <2>1, <2>2, ActivePaidReverse
  <2>5. rows \in SUBSET Payment /\ ActivePaid(rows) \in Nat
    <3>1. rows \in SUBSET Payment
      BY <2>2, <2>3
    <3>. QED
      BY <3>1, ActivePaidType
  <2>6. /\ Settled(i) \/ Owing(i)
        /\ ActivePaid(rows) < dues[i]
    <3>1. Settled(i) \/ Owing(i)
      BY <2>1 DEF MoneyInv, CarriedOver, Nothing
    <3>. HIDE DEF rows
    <3>. QED
      BY <3>1, <2>2, <2>3, <2>4, <2>5 DEF Settled, Owing
  <2>7. /\ \A j \in Invoice \ {i} : status'[j] = status[j] /\ current'[j] = current[j]
        /\ status'[i] = "unpaid" /\ current'[i] # PaidStep
    <3>1. /\ status[i] = "paid" => current[i] \in {PaidStep, NoStep}
          /\ status[i] = "unpaid" => current[i] # PaidStep
      BY <2>6 DEF Settled, Owing
    <3>2. ~(ActivePaid(rows) >= dues[i])
      BY <2>2, <2>5, <2>6
    <3>. HIDE DEF rows, own
    <3>. QED
      BY <2>1, <2>5, <3>1, <3>2, ReconcileOutcome DEF MoneyInv
  <2>8. payments'[i] = rows /\ \A j \in Invoice \ {i} : payments'[j] = payments[j]
    BY <2>1 DEF MoneyInv, TypeOK
  <2>9. ASSUME NEW j \in issued' PROVE Stands(j)'
    <3>1. j \in Invoice /\ j \in issued /\ dues'[j] = dues[j]
      BY <2>1 DEF MoneyInv, TypeOK
    <3>2. CASE j # i
      BY <2>7, <2>8, <3>1, <3>2, StandingKept DEF MoneyInv
    <3>3. CASE j = i
      <4>. HIDE DEF rows
      <4>1. (ActivePaid(payments[i]))' = ActivePaid(rows)
        BY <2>8 DEF ActivePaid, ActiveCredits, CreditOf
      <4>. QED
        BY <2>6, <2>7, <3>1, <3>3, <4>1 DEF Owing
    <3>. QED
      BY <3>2, <3>3
  <2>10. UniqueReferences'
    <3>. SUFFICES ASSUME NEW j \in Invoice, NEW a \in payments'[j], NEW b \in payments'[j],
                         a.reference = b.reference
                  PROVE  a = b
      BY DEF UniqueReferences
    <3>1. CASE j # i
      BY <2>8, <3>1 DEF MoneyInv, UniqueReferences
    <3>2. CASE j = i
      BY <2>2, <2>3, <2>8, <3>2 DEF MoneyInv, UniqueReferences
    <3>. QED
      BY <3>1, <3>2
  <2>11. \A j \in Invoice \ issued' : payments'[j] = {} /\ status'[j] = "unpaid"
    BY <2>1, <2>7, <2>8 DEF MoneyInv
  <2>. QED
    BY <1>0, <2>1, <2>9, <2>10, <2>11 DEF MoneyInv
<1>6. ASSUME NEW i \in Invoice, NEW d \in Dues, IssueInvoice(i, d)
      PROVE  MoneyInv'
  <2>1. /\ i \notin issued /\ issued' = issued \cup {i}
        /\ dues' = [dues EXCEPT ![i] = d]
        /\ status' = [status EXCEPT ![i] = "unpaid"]
        /\ UNCHANGED payments
    BY <1>6 DEF IssueInvoice
  <2>2. PICK s \in Step : s # PaidStep /\ current' = [current EXCEPT ![i] = s]
    BY <1>6 DEF IssueInvoice, IsActiveDefault
  <2>3. ASSUME NEW j \in issued' PROVE Stands(j)'
    <3>1. CASE j # i
      <4>1. j \in issued /\ j \in Invoice
        BY <2>1, <3>1 DEF MoneyInv, TypeOK
      <4>. QED
        BY <2>1, <2>2, <3>1, <4>1, StandingKept DEF MoneyInv, TypeOK
    <3>2. CASE j = i
      <4>1. /\ payments'[i] = {} /\ status'[i] = "unpaid" /\ current'[i] # PaidStep
            /\ dues'[i] \in Nat
        BY <2>1, <2>2, ConstantsAssumption DEF MoneyInv, TypeOK
      <4>2. (ActivePaid(payments[i]))' = 0
        BY <4>1, NoPayments DEF ActivePaid, ActiveCredits, CreditOf
      <4>. QED
        BY <3>2, <4>1, <4>2 DEF Owing, Nothing
    <3>. QED
      BY <3>1, <3>2
  <2>4. \A j \in Invoice \ issued' : payments'[j] = {} /\ status'[j] = "unpaid"
    BY <2>1 DEF MoneyInv, TypeOK
  <2>. QED
    BY <1>0, <2>1, <2>3, <2>4 DEF MoneyInv, UniqueReferences
<1>. QED
  BY <1>1, <1>2, <1>3, <1>4, <1>5, <1>6 DEF BillingNext, PaymentNext

\* The money invariant holds in every reachable state.
THEOREM MoneyIsInvariant == BillingSpec => []MoneyInv
BY InitMoney, NextMoney, PTL DEF BillingSpec

\* No invoice is ever overpaid, whatever payments, reversals and retries are made.
THEOREM NeverOverpaidAlways == BillingSpec => []NeverOverpaid
<1>1. MoneyInv => NeverOverpaid
  <2>. SUFFICES ASSUME MoneyInv, NEW i \in issued
                PROVE  ActivePaid(payments[i]) <= dues[i]
    BY DEF NeverOverpaid
  <2>1. dues[i] \in Nat /\ ActivePaid(payments[i]) \in Nat
    BY ActivePaidType DEF MoneyInv, TypeOK
  <2>. QED
    BY <2>1, NoPayments DEF MoneyInv, Settled, CarriedOver, Owing, Nothing
<1>. QED
  BY <1>1, MoneyIsInvariant, PTL

\* An invoice that owes something is Paid exactly while its live payments cover it,
\* imported invoices that were paid before there was a ledger aside.
THEOREM PaidIffCoveredAlways == BillingSpec => []PaidIffCovered
<1>1. MoneyInv => PaidIffCovered
  <2>. SUFFICES ASSUME MoneyInv, NEW i \in issued, dues[i] > 0, ~PaidWithoutLedger(i)
                PROVE  status[i] = "paid" <=> ActivePaid(payments[i]) = dues[i]
    BY DEF PaidIffCovered
  <2>1. dues[i] \in Nat /\ ActivePaid(payments[i]) \in Nat
    BY ActivePaidType DEF MoneyInv, TypeOK
  <2>. QED
    BY <2>1 DEF MoneyInv, Settled, CarriedOver, Owing, Nothing, PaidWithoutLedger
<1>. QED
  BY <1>1, MoneyIsInvariant, PTL

-----------------------------------------------------------------------------
(* Refinement                                                               *)

\* The refinement mapping of InvoiceBilling: what is credited, what is settled.
CreditedMap == [i \in Invoice |-> ActivePaid(payments[i])]
SettledMap == {i \in Invoice : status[i] = "paid"}

\* A step that leaves the four mapped columns alone is a stutter of the ledger.
LEMMA LedgerStutter ==
  ASSUME UNCHANGED <<issued, dues, status, payments>>
  PROVE  UNCHANGED Ledger!ledgerVars
BY DEF Ledger!ledgerVars, ActivePaid, ActiveCredits, CreditOf

\* The initial states map to initial states of the ledger.
LEMMA InitRefines == BillingInit => Ledger!LedgerInit
<1>. SUFFICES ASSUME BillingInit PROVE Ledger!LedgerInit
  OBVIOUS
<1>0. MoneyInv
  BY InitMoney
<1>1. PICK paid \in SUBSET Legacy :
        /\ status = [i \in Invoice |-> IF i \in paid THEN "paid" ELSE "unpaid"]
        /\ \E ledger \in SUBSET {i \in paid : dues[i] > 0} :
             payments = [i \in Invoice |-> IF i \in ledger THEN {LegacyPayment(dues[i])} ELSE {}]
  BY DEF BillingInit
<1>2. issued = Legacy /\ Legacy \subseteq Invoice
  BY ConstantsAssumption DEF BillingInit
<1>3. SettledMap \subseteq Legacy
  BY <1>1 DEF SettledMap
<1>4. ASSUME NEW a \in Invoice
      PROVE  CreditedMap[a] = 0 \/ (a \in Legacy /\ a \in SettledMap /\ CreditedMap[a] = dues[a])
  <2>1. CASE payments[a] = {}
    BY <2>1, NoPayments DEF CreditedMap
  <2>2. CASE payments[a] # {}
    <3>1. a \in paid
      BY <1>1, <2>2
    <3>2. status[a] = "paid" /\ a \in Legacy
      BY <3>1, <1>1
    <3>3. Settled(a)
      BY <1>0, <1>2, <2>2, <3>2 DEF MoneyInv, CarriedOver, Owing, Nothing
    <3>. QED
      BY <3>2, <3>3 DEF CreditedMap, SettledMap, Settled
  <2>. QED
    BY <2>1, <2>2
<1>. QED
  BY <1>2, <1>3, <1>4 DEF Ledger!LedgerInit, CreditedMap, SettledMap

\* Every step maps to a step of the ledger or to a stutter.
LEMMA NextRefines ==
  MoneyInv /\ MoneyInv' /\ [BillingNext]_billingVars => [Ledger!LedgerNext]_(Ledger!ledgerVars)
<1>. SUFFICES ASSUME MoneyInv, MoneyInv', [BillingNext]_billingVars
              PROVE  Ledger!LedgerNext \/ UNCHANGED Ledger!ledgerVars
  OBVIOUS
<1>1. CASE WorkflowNext \/ OtherMutation \/ UNCHANGED billingVars
  BY <1>1, LedgerStutter
     DEF WorkflowNext, ProvisionSteps, CreateStep, UpdateStep, ReorderSteps, OtherMutation,
         billingVars, statusVars
<1>2. ASSUME NEW i \in Invoice, NEW s \in Step, TransitionManually(i, s)
      PROVE  UNCHANGED Ledger!ledgerVars
  <2>1. /\ status' = [status EXCEPT ![i] = "unpaid"]
        /\ status[i] # "paid"
        /\ UNCHANGED <<issued, dues, payments>>
    BY <1>2 DEF TransitionManually, ManualTarget, TransitionInvoice
  <2>2. status' = status
    BY <2>1 DEF MoneyInv, TypeOK
  <2>. QED
    BY <2>1, <2>2, LedgerStutter
<1>3. ASSUME NEW i \in Invoice, NEW k \in Key, ReplayPayment(i, k)
      PROVE  UNCHANGED Ledger!ledgerVars
  BY <1>3, LedgerStutter DEF ReplayPayment, billingVars, statusVars
<1>4. ASSUME NEW i \in Invoice, NEW d \in Dues, IssueInvoice(i, d)
      PROVE  Ledger!Open(i, d)
  <2>1. /\ i \notin issued /\ issued' = issued \cup {i}
        /\ dues' = [dues EXCEPT ![i] = d]
        /\ status' = [status EXCEPT ![i] = "unpaid"]
        /\ UNCHANGED payments
    BY <1>4 DEF IssueInvoice
  <2>2. status' = status
    BY <2>1 DEF MoneyInv, TypeOK
  <2>. QED
    BY <2>1, <2>2 DEF Ledger!Open, ActivePaid, ActiveCredits, CreditOf
<1>5. ASSUME NEW i \in Invoice, NEW amount \in 1 .. dues[i], NEW reference \in Reference,
             NEW k \in Key \cup {NoKey}, CreatePayment(i, amount, reference, k)
      PROVE  Ledger!Credit(i, amount)
  <2>. DEFINE row == [reference |-> reference, key |-> k, amount |-> amount, reversed |-> FALSE]
              rows == payments[i] \cup {row}
              own == {[kind |-> "payment-recorded", invoice |-> i, tag |-> reference]}
  <2>1. /\ i \in issued /\ status[i] # "paid"
        /\ ActivePaid(payments[i]) + amount <= dues[i]
        /\ \A p \in payments[i] : p.reference # reference
        /\ payments' = [payments EXCEPT ![i] = rows]
        /\ ReconcilePaymentStatus(i, rows, "payment", own)
        /\ UNCHANGED <<issued, dues>>
    BY <1>5 DEF CreatePayment, FitsBalance
  <2>2. row \in Payment /\ payments[i] \in SUBSET Payment /\ dues[i] \in Nat /\ amount \in Nat \ {0}
    BY ConstantsAssumption DEF Payment, TypeOK, MoneyInv
  <2>3. ActivePaid(rows) = ActivePaid(payments[i]) + amount
    BY <2>1, <2>2, ActivePaidAdd
  <2>4. /\ rows \in SUBSET Payment /\ ActivePaid(rows) \in Nat
        /\ ActivePaid(payments[i]) \in Nat /\ ActivePaid(rows) <= dues[i]
    <3>1. rows \in SUBSET Payment
      BY <2>2
    <3>. QED
      BY <3>1, <2>1, <2>2, <2>3, ActivePaidType
  <2>5. status[i] = "unpaid" /\ current[i] # PaidStep
    BY <2>1 DEF MoneyInv, Settled, CarriedOver, Owing, Nothing
  <2>6. /\ \A j \in Invoice \ {i} : status'[j] = status[j]
        /\ status'[i] = "paid" <=> ActivePaid(rows) = dues[i]
    <3>. HIDE DEF rows, own
    <3>. QED
      BY <2>1, <2>2, <2>4, <2>5, ReconcileOutcome DEF MoneyInv
  <2>7. CreditedMap' = [CreditedMap EXCEPT ![i] = @ + amount]
    <3>1. \A j \in Invoice : payments'[j] = IF j = i THEN rows ELSE payments[j]
      BY <2>1 DEF MoneyInv, TypeOK
    <3>. HIDE DEF rows
    <3>2. CreditedMap' = [j \in Invoice |-> IF j = i THEN ActivePaid(rows) ELSE ActivePaid(payments[j])]
      BY <3>1 DEF CreditedMap, ActivePaid, ActiveCredits, CreditOf
    <3>. QED
      BY <2>3, <3>2 DEF CreditedMap
  <2>8. SettledMap' = IF CreditedMap'[i] = dues[i] THEN SettledMap \cup {i} ELSE SettledMap
    <3>1. CreditedMap'[i] = ActivePaid(rows)
      BY <2>3, <2>7 DEF CreditedMap
    <3>. HIDE DEF rows
    <3>. QED
      BY <2>5, <2>6, <3>1 DEF SettledMap
  <2>9. i \in issued \ SettledMap /\ CreditedMap[i] + amount <= dues[i]
    BY <2>1 DEF SettledMap, CreditedMap
  <2>. QED
    BY <2>1, <2>7, <2>8, <2>9 DEF Ledger!Credit, CreditedMap, SettledMap
<1>6. ASSUME NEW i \in Invoice, NEW p \in payments[i], ReversePayment(i, p)
      PROVE  p.amount \in 1 .. dues[i] /\ Ledger!Debit(i, p.amount)
  <2>. DEFINE row == [p EXCEPT !.reversed = TRUE]
              rows == (payments[i] \ {p}) \cup {row}
              own == {[kind |-> "payment-reversed", invoice |-> i, tag |-> p.reference]}
  <2>1. /\ i \in issued /\ ~p.reversed
        /\ payments' = [payments EXCEPT ![i] = rows]
        /\ ReconcilePaymentStatus(i, rows, "reversal", own)
        /\ UNCHANGED <<issued, dues>>
    BY <1>6 DEF ReversePayment, ReversedIn
  <2>2. /\ payments[i] \in SUBSET Payment /\ p \in Payment /\ dues[i] \in Nat
        /\ \A q \in payments[i] : q.reference = p.reference => q = p
    BY DEF TypeOK, MoneyInv, UniqueReferences
  <2>3. row \in Payment /\ p.amount \in Nat \ {0}
    <3>1. p.amount \in 1 .. MaxAmount /\ MaxAmount \in Nat
      BY <2>2, ConstantsAssumption DEF Payment
    <3>2. row \in Payment
      BY <2>2 DEF Payment
    <3>. QED
      BY <3>1, <3>2
  <2>4. ActivePaid(payments[i]) = ActivePaid(rows) + p.amount
    BY <2>1, <2>2, ActivePaidReverse
  <2>5. rows \in SUBSET Payment /\ ActivePaid(rows) \in Nat
    <3>1. rows \in SUBSET Payment
      BY <2>2, <2>3
    <3>. QED
      BY <3>1, ActivePaidType
  <2>6. /\ ActivePaid(rows) < dues[i] /\ p.amount <= ActivePaid(payments[i])
        /\ p.amount \in 1 .. dues[i]
        /\ status[i] = "paid" => current[i] \in {PaidStep, NoStep}
        /\ status[i] = "unpaid" => current[i] # PaidStep
    <3>1. Settled(i) \/ Owing(i)
      BY <2>1 DEF MoneyInv, CarriedOver, Nothing
    <3>. HIDE DEF rows
    <3>. QED
      BY <3>1, <2>2, <2>3, <2>4, <2>5 DEF Settled, Owing
  <2>7. /\ \A j \in Invoice \ {i} : status'[j] = status[j]
        /\ status'[i] = "unpaid"
    <3>1. ~(ActivePaid(rows) >= dues[i])
      BY <2>2, <2>5, <2>6
    <3>. HIDE DEF rows, own
    <3>. QED
      BY <2>1, <2>5, <2>6, <3>1, ReconcileOutcome DEF MoneyInv
  <2>8. CreditedMap' = [CreditedMap EXCEPT ![i] = @ - p.amount]
    <3>1. \A j \in Invoice : payments'[j] = IF j = i THEN rows ELSE payments[j]
      BY <2>1 DEF MoneyInv, TypeOK
    <3>. HIDE DEF rows
    <3>2. CreditedMap' = [j \in Invoice |-> IF j = i THEN ActivePaid(rows) ELSE ActivePaid(payments[j])]
      BY <3>1 DEF CreditedMap, ActivePaid, ActiveCredits, CreditOf
    <3>3. ActivePaid(payments[i]) - p.amount = ActivePaid(rows)
      BY <2>3, <2>4, <2>5
    <3>. QED
      BY <3>2, <3>3 DEF CreditedMap
  <2>9. SettledMap' = SettledMap \ {i}
    BY <2>7 DEF SettledMap
  <2>10. p.amount <= CreditedMap[i]
    BY <2>6 DEF CreditedMap
  <2>. QED
    BY <2>1, <2>6, <2>8, <2>9, <2>10 DEF Ledger!Debit, CreditedMap, SettledMap
<1>7. ASSUME NEW i \in Invoice
      PROVE  /\ \A d \in Dues : Ledger!Open(i, d) => Ledger!LedgerNext
             /\ \A amount \in 1 .. dues[i] :
                  Ledger!Credit(i, amount) \/ Ledger!Debit(i, amount) => Ledger!LedgerNext
  BY DEF Ledger!LedgerNext
<1>. QED
  BY <1>1, <1>2, <1>3, <1>4, <1>5, <1>6, <1>7 DEF BillingNext, PaymentNext

\* The billing handlers implement the abstract ledger: every behaviour of the detailed
\* specification is one of opening, crediting and debiting accounts.
THEOREM BillingImplementsLedger == BillingSpec => ImplementsLedger
BY InitRefines, NextRefines, MoneyIsInvariant, PTL
   DEF BillingSpec, ImplementsLedger, Ledger!LedgerSpec

-----------------------------------------------------------------------------
(* The step table                                                           *)

\* Provisioning makes an empty table usable and leaves any other one as it is.
LEMMA EnsuredUsable ==
  ASSUME StepsTyped, WorkflowUsable
  PROVE  /\ DefaultStep \subseteq EnsuredSteps
         /\ PaidStep \in EnsuredActive
         /\ EnsuredActive \ {PaidStep} # {}
         /\ \A s, t \in EnsuredSteps : EnsuredPosition[s] = EnsuredPosition[t] => s = t
<1>1. CASE steps = {}
  <2>1. EnsuredSteps = DefaultStep /\ EnsuredActive = DefaultStep
    BY <1>1 DEF StepsTyped, EnsuredSteps, EnsuredActive
  <2>2. \A s \in DefaultStep : EnsuredPosition[s] = DefaultPosition[s]
    BY <1>1 DEF EnsuredPosition, Step
  <2>3. PaidStep \in DefaultStep /\ DefaultStep \ {PaidStep} # {}
    BY ConstantsAssumption DEF DefaultStep
  <2>. QED
    BY <2>1, <2>2, <2>3, ConstantsAssumption
<1>2. CASE steps # {}
  <2>1. DefaultStep \subseteq steps
    BY <1>2 DEF WorkflowUsable
  <2>2. EnsuredSteps = steps /\ EnsuredActive = active
    BY <2>1 DEF EnsuredSteps, EnsuredActive
  <2>3. \A s \in steps : EnsuredPosition[s] = position[s]
    BY <2>1 DEF EnsuredPosition, StepsTyped
  <2>. QED
    BY <1>2, <2>2, <2>3 DEF WorkflowUsable
<1>. QED
  BY <1>1, <1>2

\* Every handler that may provision leaves a usable table.
LEMMA EnsureKeepsUsable ==
  ASSUME StepsTyped, WorkflowUsable, EnsureDefaultSteps
  PROVE  WorkflowUsable'
BY EnsuredUsable DEF EnsureDefaultSteps, WorkflowUsable

\* A new custom step comes behind all others.
LEMMA CreateStepKeepsUsable ==
  ASSUME StepsTyped, WorkflowUsable, NEW s \in CustomStep, NEW isActive, NEW notify,
         CreateStep(s, isActive, notify)
  PROVE  WorkflowUsable'
<1>1. PICK last \in EnsuredSteps :
        /\ \A t \in EnsuredSteps : EnsuredPosition[t] <= EnsuredPosition[last]
        /\ position' = [EnsuredPosition EXCEPT ![s] = EnsuredPosition[last] + 1]
  BY DEF CreateStep
<1>2. s \notin EnsuredSteps /\ s \in Step
  BY ConstantsAssumption DEF CreateStep, EnsuredSteps, DefaultStep, Step
<1>3. EnsuredPosition \in [Step -> Nat] /\ EnsuredSteps \subseteq Step
  BY ConstantsAssumption DEF EnsuredPosition, EnsuredSteps, StepsTyped, Step
<1>4. steps' = EnsuredSteps \cup {s} /\ EnsuredActive \subseteq active'
  BY DEF CreateStep
<1>5. \A t \in EnsuredSteps : position'[t] = EnsuredPosition[t] /\ position'[t] < position'[s]
  BY <1>1, <1>2, <1>3
<1>6. \A t, u \in steps' : position'[t] = position'[u] => t = u
  <2>. SUFFICES ASSUME NEW t \in steps', NEW u \in steps', position'[t] = position'[u]
                PROVE  t = u
    OBVIOUS
  <2>1. position'[s] \in Nat /\ \A v \in EnsuredSteps : position'[v] \in Nat
    BY <1>1, <1>2, <1>3, <1>5
  <2>. QED
    BY <1>4, <1>5, <2>1, EnsuredUsable
<1>. QED
  BY <1>4, <1>6, EnsuredUsable DEF WorkflowUsable

\* An edit of a step never takes the last active step before Paid, nor Paid itself.
LEMMA UpdateStepKeepsUsable ==
  ASSUME StepsTyped, WorkflowUsable, NEW s, NEW isActive \in BOOLEAN, NEW notify, NEW relabel,
         UpdateStep(s, isActive, notify, relabel)
  PROVE  WorkflowUsable'
<1>1. s \in steps /\ steps' = steps /\ position' = position
  BY DEF UpdateStep
<1>2. PaidStep \in active /\ active \ {PaidStep} # {} /\ DefaultStep \subseteq steps
  BY <1>1 DEF WorkflowUsable
<1>3. CASE isActive
  <2>1. active \subseteq active'
    BY <1>3 DEF UpdateStep
  <2>. QED
    BY <1>1, <1>2, <2>1 DEF WorkflowUsable
<1>4. CASE ~isActive
  <2>1. active' = active \ {s} /\ s # PaidStep
    BY <1>4 DEF UpdateStep
  <2>2. \E t \in active \ {PaidStep} : t # s
    BY <1>2, <1>4 DEF UpdateStep, LeavesAStep
  <2>. QED
    BY <1>1, <1>2, <2>1, <2>2 DEF WorkflowUsable
<1>. QED
  BY <1>3, <1>4

\* A reordering gives every step a place of its own.
LEMMA ReorderKeepsUsable ==
  ASSUME StepsTyped, WorkflowUsable, NEW order, ReorderSteps(order)
  PROVE  WorkflowUsable'
BY DEF StepsTyped, WorkflowUsable, ReorderSteps

-----------------------------------------------------------------------------
(* Histories                                                                *)

\* What a step may do to the history of an invoice: nothing, or add one event from the
\* invoice's step to another one that is active, to Paid only by a payment and from Paid
\* only by a reversal.
Recorded(j) ==
  \/ events'[j] = events[j] /\ current'[j] = current[j]
  \/ \E e \in Event :
       /\ events'[j] = Append(events[j], e)
       /\ e.from = current[j] /\ e.to = current'[j] /\ e.to # e.from
       /\ e.to \in active'
       /\ e.to = PaidStep => e.source = "payment"
       /\ e.from = PaidStep => e.source = "reversal"

\* An invoice that does not exist yet has no step and no history.
Unwritten == \A i \in Invoice \ issued : events[i] = <<>> /\ current[i] = NoStep

\* The inductive invariant behind the workflow properties.
WorkflowInv ==
  MoneyInv /\ WorkflowUsable /\ Unwritten /\ HistoryExplainsStep /\ PaidIsGated

\* transition_invoice adds one event, from where the invoice is.
LEMMA TransitionRecords ==
  ASSUME TypeOK, NEW i \in Invoice, NEW s \in Step, NEW source \in Source, NEW own,
         TransitionInvoice(i, s, source, own),
         s # current[i], s \in active',
         s = PaidStep => source = "payment",
         current[i] = PaidStep => source = "reversal"
  PROVE  \A j \in Invoice : Recorded(j)
<1>. DEFINE e == StatusEvent(i, s, source)
<1>1. e \in Event
  BY DEF StatusEvent, Event, TypeOK
<1>2. e.from = current[i] /\ e.to = s /\ e.source = source
  BY DEF StatusEvent
<1>3. events'[i] = Append(events[i], e) /\ current'[i] = s
  BY DEF TransitionInvoice, TypeOK
<1>4. \A j \in Invoice \ {i} : events'[j] = events[j] /\ current'[j] = current[j]
  BY DEF TransitionInvoice, TypeOK
<1>. HIDE DEF e
<1>5. Recorded(i)
  BY <1>1, <1>2, <1>3 DEF Recorded
<1>. QED
  BY <1>4, <1>5 DEF Recorded

\* The step a reversal restores is one of the active ones after the provisioning.
LEMMA RestoredIsLive ==
  ASSUME NEW i, NEW s, IsRestored(i, s)
  PROVE  s \in EnsuredActive /\ s # PaidStep
BY DEF IsRestored, Restorable, IsActiveDefault, EnsuredActive

\* reconcile_payment_status leads to Paid when it is called for a payment, and away from
\* it when it is called for a reversal.
LEMMA ReconcileRecords ==
  ASSUME TypeOK, WorkflowUsable, NEW i \in Invoice, NEW rows, NEW own,
         NEW source \in {"payment", "reversal"},
         ReconcilePaymentStatus(i, rows, source, own),
         source = "payment" => current[i] # PaidStep,
         source = "reversal" => ~CoversDues(i, rows)
  PROVE  (\A j \in Invoice : Recorded(j)) /\ WorkflowUsable'
<1>0. source \in Source /\ PaidStep \in Step /\ NoStep \notin Step /\ StepsTyped
  BY ConstantsAssumption DEF Source, Step, DefaultStep, TypeOK, StepsTyped
<1>e. ASSUME EnsureDefaultSteps PROVE WorkflowUsable' /\ active' = EnsuredActive /\ PaidStep \in active'
  BY <1>e, <1>0, EnsureKeepsUsable, EnsuredUsable DEF EnsureDefaultSteps
<1>1. CASE /\ CoversDues(i, rows) /\ current[i] # PaidStep
           /\ TransitionInvoice(i, PaidStep, source, own)
  <2>1. source = "payment" /\ EnsureDefaultSteps
    BY <1>1 DEF TransitionInvoice
  <2>. QED
    BY <1>0, <1>1, <1>e, <2>1, TransitionRecords
<1>2. CASE /\ ~CoversDues(i, rows) /\ current[i] \in {PaidStep, NoStep}
           /\ \E s \in Step : IsRestored(i, s) /\ TransitionInvoice(i, s, source, own)
  <2>1. PICK s \in Step : IsRestored(i, s) /\ TransitionInvoice(i, s, source, own)
    BY <1>2
  <2>2. EnsureDefaultSteps
    BY <2>1 DEF TransitionInvoice
  <2>3. s \in active' /\ s # PaidStep /\ s # current[i]
    BY <1>0, <1>2, <1>e, <2>1, <2>2, RestoredIsLive
  <2>4. current[i] = PaidStep => source = "reversal"
    OBVIOUS
  <2>. QED
    BY <1>0, <1>e, <2>1, <2>2, <2>3, <2>4, TransitionRecords
<1>3. CASE UNCHANGED <<statusVars, stepVars>>
  BY <1>3 DEF Recorded, statusVars, stepVars, WorkflowUsable
<1>. QED
  BY <1>1, <1>2, <1>3 DEF ReconcilePaymentStatus

\* An invoice with a payment to reverse does not cover its dues without it.
LEMMA ReversalUncovers ==
  ASSUME MoneyInv, NEW i \in issued, NEW p \in payments[i], ~p.reversed
  PROVE  ~CoversDues(i, ReversedIn(i, p))
<1>1. i \in Invoice /\ payments[i] \in SUBSET Payment /\ p \in Payment /\ dues[i] \in Nat
  BY ConstantsAssumption DEF MoneyInv, TypeOK
<1>2. \A q \in payments[i] : q.reference = p.reference => q = p
  BY <1>1 DEF MoneyInv, UniqueReferences
<1>3. ActivePaid(payments[i]) = ActivePaid(ReversedIn(i, p)) + p.amount
  BY <1>1, <1>2, ActivePaidReverse DEF ReversedIn
<1>4. ReversedIn(i, p) \in SUBSET Payment
  BY <1>1 DEF ReversedIn, Payment
<1>5. ActivePaid(ReversedIn(i, p)) \in Nat /\ p.amount \in Nat \ {0}
  BY <1>1, <1>4, ActivePaidType, ConstantsAssumption DEF Payment
<1>6. ActivePaid(payments[i]) <= dues[i]
  <2>1. Settled(i) \/ Owing(i)
    BY DEF MoneyInv, CarriedOver, Nothing
  <2>2. ActivePaid(payments[i]) \in Nat
    BY <1>1, ActivePaidType
  <2>. QED
    BY <1>1, <2>1, <2>2 DEF Settled, Owing
<1>. QED
  BY <1>1, <1>3, <1>5, <1>6 DEF CoversDues

\* Every step of the system records what it does, and keeps the workflow usable.
LEMMA NextRecords ==
  ASSUME MoneyInv, WorkflowUsable, Unwritten, [BillingNext]_billingVars
  PROVE  /\ \A j \in Invoice : Recorded(j)
         /\ WorkflowUsable'
         /\ issued \subseteq issued'
         /\ \A j \in Invoice \ issued' : events'[j] = events[j] /\ current'[j] = current[j]
<1>0. TypeOK /\ StepsTyped
  BY DEF MoneyInv, TypeOK, StepsTyped
<1>. DEFINE Goal == /\ \A j \in Invoice : Recorded(j)
                    /\ WorkflowUsable'
                    /\ issued \subseteq issued'
                    /\ \A j \in Invoice \ issued' :
                         events'[j] = events[j] /\ current'[j] = current[j]
<1>. SUFFICES Goal
  OBVIOUS
<1>s. ASSUME UNCHANGED <<statusVars, issued>>, WorkflowUsable' PROVE Goal
  BY <1>s DEF statusVars, Recorded
<1>1. CASE ProvisionSteps
  BY <1>0, <1>1, <1>s, EnsureKeepsUsable DEF ProvisionSteps
<1>2. ASSUME NEW s \in CustomStep, NEW isActive \in BOOLEAN, NEW notify \in BOOLEAN,
             CreateStep(s, isActive, notify)
      PROVE  Goal
  <2>1. UNCHANGED <<statusVars, issued>>
    BY <1>2 DEF CreateStep
  <2>. QED
    BY <1>0, <1>2, <1>s, <2>1, CreateStepKeepsUsable
<1>3. ASSUME NEW s \in Step, NEW isActive \in BOOLEAN, NEW notify \in BOOLEAN,
             NEW relabel \in BOOLEAN, UpdateStep(s, isActive, notify, relabel)
      PROVE  Goal
  <2>1. UNCHANGED <<statusVars, issued>>
    BY <1>3 DEF UpdateStep
  <2>. QED
    BY <1>0, <1>3, <1>s, <2>1, UpdateStepKeepsUsable
<1>4. ASSUME NEW order, ReorderSteps(order) PROVE Goal
  <2>1. UNCHANGED <<statusVars, issued>>
    BY <1>4 DEF ReorderSteps
  <2>. QED
    BY <1>0, <1>4, <1>s, <2>1, ReorderKeepsUsable
<1>5. ASSUME NEW i \in Invoice, NEW s \in Step, TransitionManually(i, s) PROVE Goal
  <2>1. /\ i \in issued /\ issued' = issued
        /\ current[i] # PaidStep /\ s \in active \ {PaidStep, current[i]}
        /\ TransitionInvoice(i, s, "manual", {})
    BY <1>5 DEF TransitionManually, ManualTarget
  <2>2. EnsureDefaultSteps
    BY <2>1 DEF TransitionInvoice
  <2>3. s \in active' /\ "manual" \in Source
    BY <2>1, <2>2 DEF EnsureDefaultSteps, EnsuredActive, Source
  <2>4. \A j \in Invoice : Recorded(j)
    BY <1>0, <2>1, <2>3, TransitionRecords
  <2>5. \A j \in Invoice \ issued' : events'[j] = events[j] /\ current'[j] = current[j]
    BY <1>0, <2>1 DEF TransitionInvoice, TypeOK
  <2>. QED
    BY <1>0, <2>1, <2>2, <2>4, <2>5, EnsureKeepsUsable
<1>6. ASSUME NEW i \in Invoice, NEW k \in Key, ReplayPayment(i, k) PROVE Goal
  BY <1>6, <1>s DEF ReplayPayment, billingVars, stepVars, WorkflowUsable
<1>r. ASSUME NEW i \in issued, NEW rows, NEW own, NEW source,
             ReconcilePaymentStatus(i, rows, source, own), issued' = issued
      PROVE  \A j \in Invoice \ issued' : events'[j] = events[j] /\ current'[j] = current[j]
  BY <1>0, <1>r DEF ReconcilePaymentStatus, TransitionInvoice, TypeOK, statusVars
<1>7. ASSUME NEW i \in Invoice, NEW amount \in 1 .. dues[i], NEW reference \in Reference,
             NEW k \in Key \cup {NoKey}, CreatePayment(i, amount, reference, k)
      PROVE  Goal
  <2>. DEFINE row == [reference |-> reference, key |-> k, amount |-> amount, reversed |-> FALSE]
              rows == payments[i] \cup {row}
              own == {[kind |-> "payment-recorded", invoice |-> i, tag |-> reference]}
  <2>1. /\ i \in issued /\ status[i] # "paid" /\ issued' = issued
        /\ ReconcilePaymentStatus(i, rows, "payment", own)
    BY <1>7 DEF CreatePayment
  <2>. HIDE DEF rows, own
  <2>2. current[i] # PaidStep
    BY <2>1 DEF MoneyInv, Settled, CarriedOver, Owing, Nothing
  <2>3. (\A j \in Invoice : Recorded(j)) /\ WorkflowUsable'
    BY <1>0, <2>1, <2>2, ReconcileRecords
  <2>. QED
    BY <1>r, <2>1, <2>3
<1>8. ASSUME NEW i \in Invoice, NEW p \in payments[i], ReversePayment(i, p) PROVE Goal
  <2>. DEFINE rows == ReversedIn(i, p)
              own == {[kind |-> "payment-reversed", invoice |-> i, tag |-> p.reference]}
  <2>1. /\ i \in issued /\ ~p.reversed /\ issued' = issued
        /\ ReconcilePaymentStatus(i, rows, "reversal", own)
    BY <1>8 DEF ReversePayment
  <2>2. ~CoversDues(i, rows)
    BY <2>1, ReversalUncovers
  <2>. HIDE DEF rows, own
  <2>3. (\A j \in Invoice : Recorded(j)) /\ WorkflowUsable'
    BY <1>0, <2>1, <2>2, ReconcileRecords
  <2>. QED
    BY <1>r, <2>1, <2>3
<1>9. ASSUME NEW i \in Invoice, NEW d \in Dues, IssueInvoice(i, d) PROVE Goal
  <2>1. PICK s \in Step :
          /\ IsActiveDefault(s)
          /\ current' = [current EXCEPT ![i] = s]
          /\ events' = [events EXCEPT ![i] =
                          <<[from |-> NoStep, to |-> s, source |-> "created"]>>]
    BY <1>9 DEF IssueInvoice
  <2>2. i \notin issued /\ issued' = issued \cup {i} /\ EnsureDefaultSteps
    BY <1>9 DEF IssueInvoice
  <2>3. events[i] = <<>> /\ current[i] = NoStep
    BY <2>2 DEF Unwritten
  <2>. DEFINE e == [from |-> NoStep, to |-> s, source |-> "created"]
  <2>4. e \in Event /\ e.from = NoStep /\ e.to = s /\ e.source = "created"
    BY DEF Event, Source
  <2>5. s \in active' /\ s # PaidStep /\ NoStep # s /\ NoStep # PaidStep
    BY <2>1, <2>2, ConstantsAssumption
       DEF IsActiveDefault, EnsureDefaultSteps, Step, DefaultStep
  <2>6. events'[i] = Append(events[i], e) /\ current'[i] = s
    <3>1. events'[i] = <<e>> /\ current'[i] = s
      BY <1>0, <2>1 DEF TypeOK
    <3>2. Append(<<>>, e) = <<e>>
      OBVIOUS
    <3>. QED
      BY <2>3, <3>1, <3>2
  <2>. HIDE DEF e
  <2>7. Recorded(i)
    BY <2>3, <2>4, <2>5, <2>6 DEF Recorded
  <2>8. \A j \in Invoice \ {i} : events'[j] = events[j] /\ current'[j] = current[j]
    BY <1>0, <2>1 DEF TypeOK
  <2>9. \A j \in Invoice : Recorded(j)
    BY <2>7, <2>8 DEF Recorded
  <2>. QED
    BY <1>0, <2>2, <2>8, <2>9, EnsureKeepsUsable
<1>10. CASE OtherMutation \/ UNCHANGED billingVars
  BY <1>10, <1>s DEF OtherMutation, billingVars, stepVars, WorkflowUsable
<1>. HIDE DEF Goal
<1>11. CASE WorkflowNext
  BY <1>1, <1>2, <1>3, <1>4, <1>11 DEF WorkflowNext
<1>12. CASE PaymentNext
  BY <1>5, <1>6, <1>7, <1>8, <1>12 DEF PaymentNext
<1>13. CASE \E i \in Invoice, d \in Dues : IssueInvoice(i, d) /\ BumpAgain
  BY <1>9, <1>13
<1>. QED
  BY <1>10, <1>11, <1>12, <1>13 DEF BillingNext

\* A history that explains the invoice's step still does after what a step records.
LEMMA RecordedKeepsHistory ==
  ASSUME TypeOK, TypeOK', NEW j \in Invoice, Recorded(j),
         LET h == events[j] IN
         /\ h = <<>> => current[j] = NoStep
         /\ h # <<>> => h[1].from = NoStep /\ h[Len(h)].to = current[j]
         /\ \A n \in 2 .. Len(h) : h[n].from = h[n - 1].to /\ h[n].to # h[n].from
  PROVE  LET h == events'[j] IN
         /\ h = <<>> => current'[j] = NoStep
         /\ h # <<>> => h[1].from = NoStep /\ h[Len(h)].to = current'[j]
         /\ \A n \in 2 .. Len(h) : h[n].from = h[n - 1].to /\ h[n].to # h[n].from
<1>. DEFINE h == events[j]
            k == events'[j]
<1>0. h \in Seq(Event) /\ Len(h) \in Nat
  BY DEF TypeOK
<1>1. CASE events'[j] = events[j] /\ current'[j] = current[j]
  BY <1>1
<1>2. ASSUME NEW e \in Event, k = Append(h, e), e.from = current[j], e.to = current'[j],
             e.to # e.from
      PROVE  /\ k = <<>> => current'[j] = NoStep
             /\ k # <<>> => k[1].from = NoStep /\ k[Len(k)].to = current'[j]
             /\ \A n \in 2 .. Len(k) : k[n].from = k[n - 1].to /\ k[n].to # k[n].from
  <2>. HIDE DEF h, k
  <2>1. /\ k # <<>> /\ Len(k) = Len(h) + 1 /\ k[Len(k)] = e
        /\ \A n \in 1 .. Len(h) : k[n] = h[n]
    BY <1>0, <1>2
  <2>2. CASE h = <<>>
    <3>1. Len(h) = 0 /\ Len(k) = 1 /\ e.from = NoStep
      BY <1>2, <2>1, <2>2 DEF h
    <3>2. k[1] = e
      BY <2>1, <3>1
    <3>. QED
      BY <1>2, <2>1, <3>1, <3>2
  <2>3. CASE h # <<>>
    <3>1. Len(h) \in Nat \ {0} /\ h[1].from = NoStep /\ h[Len(h)].to = current[j]
      BY <1>0, <2>3 DEF h
    <3>2. k[1].from = NoStep
      BY <2>1, <3>1
    <3>3. ASSUME NEW n \in 2 .. Len(k) PROVE k[n].from = k[n - 1].to /\ k[n].to # k[n].from
      <4>1. CASE n = Len(k)
        <5>1. k[n] = e /\ k[n - 1] = h[Len(h)]
          BY <2>1, <3>1, <4>1
        <5>. QED
          BY <1>2, <3>1, <5>1
      <4>2. CASE n # Len(k)
        <5>1. n \in 2 .. Len(h) /\ k[n] = h[n] /\ k[n - 1] = h[n - 1]
          BY <2>1, <3>1, <4>2
        <5>. QED
          BY <5>1 DEF h
      <4>. QED
        BY <4>1, <4>2
    <3>. QED
      BY <1>2, <2>1, <3>2, <3>3
  <2>. QED
    BY <2>2, <2>3
<1>. QED
  BY <1>1, <1>2 DEF Recorded

\* Gating survives what a step records.
LEMMA RecordedKeepsGate ==
  ASSUME TypeOK, NEW j \in Invoice, Recorded(j),
         \A n \in DOMAIN events[j] :
           /\ events[j][n].to = PaidStep => events[j][n].source = "payment"
           /\ events[j][n].from = PaidStep => events[j][n].source = "reversal"
  PROVE  \A n \in DOMAIN events'[j] :
           /\ events'[j][n].to = PaidStep => events'[j][n].source = "payment"
           /\ events'[j][n].from = PaidStep => events'[j][n].source = "reversal"
<1>0. events[j] \in Seq(Event) /\ Len(events[j]) \in Nat
  BY DEF TypeOK
<1>1. CASE events'[j] = events[j]
  BY <1>1
<1>2. CASE events'[j] # events[j]
  <2>1. PICK e \in Event :
          /\ events'[j] = Append(events[j], e)
          /\ e.to = PaidStep => e.source = "payment"
          /\ e.from = PaidStep => e.source = "reversal"
    BY <1>2 DEF Recorded
  <2>2. /\ DOMAIN events'[j] = 1 .. (Len(events[j]) + 1) /\ DOMAIN events[j] = 1 .. Len(events[j])
        /\ events'[j][Len(events[j]) + 1] = e
        /\ \A n \in 1 .. Len(events[j]) : events'[j][n] = events[j][n]
    BY <1>0, <2>1
  <2>. SUFFICES ASSUME NEW n \in DOMAIN events'[j]
                PROVE  /\ events'[j][n].to = PaidStep => events'[j][n].source = "payment"
                       /\ events'[j][n].from = PaidStep => events'[j][n].source = "reversal"
    OBVIOUS
  <2>3. n \in 1 .. Len(events[j]) \/ n = Len(events[j]) + 1
    BY <1>0, <2>2
  <2>. QED
    BY <2>1, <2>2, <2>3
<1>. QED
  BY <1>1, <1>2

-----------------------------------------------------------------------------
(* The workflow invariant and what follows from it                          *)

\* The initial states: no workflow and no history, also for what was imported.
LEMMA InitWorkflow == BillingInit => WorkflowInv
<1>. SUFFICES ASSUME BillingInit PROVE WorkflowInv
  OBVIOUS
<1>1. MoneyInv /\ issued \subseteq Invoice
  BY InitMoney DEF MoneyInv, TypeOK
<1>2. \A i \in Invoice : events[i] = <<>> /\ current[i] = NoStep
  BY DEF BillingInit
<1>3. WorkflowUsable
  BY DEF BillingInit, WorkflowUsable
<1>4. HistoryExplainsStep /\ PaidIsGated
  BY <1>1, <1>2 DEF HistoryExplainsStep, PaidIsGated
<1>. QED
  BY <1>1, <1>2, <1>3, <1>4 DEF WorkflowInv, Unwritten

\* Every step keeps the workflow invariant; an invoice issued now starts its history.
LEMMA NextWorkflow == WorkflowInv /\ [BillingNext]_billingVars => WorkflowInv'
<1>. SUFFICES ASSUME WorkflowInv, [BillingNext]_billingVars PROVE WorkflowInv'
  OBVIOUS
<1>1. MoneyInv' /\ TypeOK /\ TypeOK'
  BY NextMoney DEF WorkflowInv, MoneyInv
<1>2. /\ \A j \in Invoice : Recorded(j)
      /\ WorkflowUsable'
      /\ issued \subseteq issued'
      /\ \A j \in Invoice \ issued' : events'[j] = events[j] /\ current'[j] = current[j]
  BY NextRecords DEF WorkflowInv
<1>3. issued' \subseteq Invoice
  BY <1>1 DEF TypeOK
<1>4. Unwritten'
  BY <1>2 DEF WorkflowInv, Unwritten
<1>5. HistoryExplainsStep'
  <2>. SUFFICES ASSUME NEW j \in issued'
                PROVE  LET h == events'[j] IN
                       /\ h = <<>> => current'[j] = NoStep
                       /\ h # <<>> => h[1].from = NoStep /\ h[Len(h)].to = current'[j]
                       /\ \A n \in 2 .. Len(h) :
                            h[n].from = h[n - 1].to /\ h[n].to # h[n].from
    BY DEF HistoryExplainsStep
  <2>1. LET h == events[j] IN
        /\ h = <<>> => current[j] = NoStep
        /\ h # <<>> => h[1].from = NoStep /\ h[Len(h)].to = current[j]
        /\ \A n \in 2 .. Len(h) : h[n].from = h[n - 1].to /\ h[n].to # h[n].from
    BY <1>3 DEF WorkflowInv, HistoryExplainsStep, Unwritten
  <2>. QED
    BY <1>1, <1>2, <1>3, <2>1, RecordedKeepsHistory
<1>6. PaidIsGated'
  <2>. SUFFICES ASSUME NEW j \in issued'
                PROVE  \A n \in DOMAIN events'[j] :
                         /\ events'[j][n].to = PaidStep => events'[j][n].source = "payment"
                         /\ events'[j][n].from = PaidStep => events'[j][n].source = "reversal"
    BY DEF PaidIsGated
  <2>1. \A n \in DOMAIN events[j] :
          /\ events[j][n].to = PaidStep => events[j][n].source = "payment"
          /\ events[j][n].from = PaidStep => events[j][n].source = "reversal"
    BY <1>3 DEF WorkflowInv, PaidIsGated, Unwritten
  <2>. QED
    BY <1>1, <1>2, <1>3, <2>1, RecordedKeepsGate
<1>. QED
  BY <1>1, <1>2, <1>4, <1>5, <1>6 DEF WorkflowInv

\* The workflow invariant holds in every reachable state.
THEOREM WorkflowIsInvariant == BillingSpec => []WorkflowInv
BY InitWorkflow, NextWorkflow, PTL DEF BillingSpec

\* Whatever an Admin adds, edits, deactivates and reorders, the workflow can take a new
\* or a reopened invoice.
THEOREM WorkflowUsableAlways == BillingSpec => []WorkflowUsable
<1>1. WorkflowInv => WorkflowUsable
  BY DEF WorkflowInv
<1>. QED
  BY <1>1, WorkflowIsInvariant, PTL

\* The append-only history is one path that ends where the invoice is.
THEOREM HistoryExplainsStepAlways == BillingSpec => []HistoryExplainsStep
<1>1. WorkflowInv => HistoryExplainsStep
  BY DEF WorkflowInv
<1>. QED
  BY <1>1, WorkflowIsInvariant, PTL

\* Paid is entered by payments and left by reversals only.
THEOREM PaidIsGatedAlways == BillingSpec => []PaidIsGated
<1>1. WorkflowInv => PaidIsGated
  BY DEF WorkflowInv
<1>. QED
  BY <1>1, WorkflowIsInvariant, PTL

\* An invoice enters only steps that are active when it does.
THEOREM EntersLiveStepsAlways == BillingSpec => EntersLiveSteps
<1>. DEFINE Live == \A i \in Invoice :
                      Len(events'[i]) > Len(events[i]) =>
                        events'[i][Len(events'[i])].to \in active'
<1>1. WorkflowInv /\ [BillingNext]_billingVars => [Live]_billingVars
  <2>. SUFFICES ASSUME WorkflowInv, [BillingNext]_billingVars, NEW i \in Invoice,
                       Len(events'[i]) > Len(events[i])
                PROVE  events'[i][Len(events'[i])].to \in active'
    OBVIOUS
  <2>1. events[i] \in Seq(Event) /\ Len(events[i]) \in Nat
    BY DEF WorkflowInv, MoneyInv, TypeOK
  <2>2. Recorded(i)
    BY NextRecords DEF WorkflowInv
  <2>3. events'[i] # events[i]
    BY <2>1
  <2>4. PICK e \in Event : events'[i] = Append(events[i], e) /\ e.to \in active'
    BY <2>2, <2>3 DEF Recorded
  <2>5. events'[i][Len(events'[i])] = e
    BY <2>1, <2>4
  <2>. QED
    BY <2>4, <2>5
<1>. QED
  BY <1>1, WorkflowIsInvariant, PTL DEF BillingSpec, EntersLiveSteps

-----------------------------------------------------------------------------
(* Operations implement billing                                             *)

\* A handler that leaves the ledger alone is another mutation to it.
LEMMA BumpIsOther ==
  ASSUME NEW n \in 1 .. 2, BumpBy(n), UNCHANGED ledgerOnly
  PROVE  OtherMutation
BY DEF BumpBy, BumpAgain, ledgerOnly, OtherMutation

\* A handler that bills an inspection issues an invoice to it.
LEMMA BillIsIssue ==
  ASSUME NEW m \in 1 .. 2, BumpBy(m), NEW n, NEW c, NEW cargo, BillInspection(n, c, cargo)
  PROVE  \E i \in Invoice, d \in Dues : IssueInvoice(i, d) /\ BumpAgain
<1>1. BumpAgain
  BY DEF BumpBy, BumpAgain
<1>. QED
  BY <1>1 DEF BillInspection

\* Every step of operations is a step of billing, or none.
LEMMA NextImplements == [Next]_vars => [BillingNext]_billingVars
<1>. SUFFICES ASSUME [Next]_vars PROVE BillingNext \/ UNCHANGED billingVars
  OBVIOUS
<1>1. CASE CallNext
  <2>1. BumpBy(1) /\ UNCHANGED ledgerOnly
    BY <1>1 DEF CallNext, RegisterCall, EditCall, CancelCall
  <2>. QED
    BY <2>1, BumpIsOther DEF BillingNext
<1>2. ASSUME NEW n, NEW c, NEW cargo, NEW key, DraftInspection(n, c, cargo, key)
      PROVE  BillingNext
  BY <1>2, BumpIsOther DEF DraftInspection, BillingNext
<1>3. ASSUME NEW n, NEW c, NEW cargo, NEW key, SubmitInspection(n, c, cargo, key)
      PROVE  BillingNext
  BY <1>3, BillIsIssue DEF SubmitInspection, BillingNext
<1>4. ASSUME NEW c, NEW key, ReplayInspection(c, key) PROVE UNCHANGED billingVars
  BY <1>4 DEF ReplayInspection, vars
<1>5. ASSUME NEW n, FinalizeInspection(n) PROVE BillingNext
  BY <1>5, BillIsIssue DEF FinalizeInspection, BillingNext
<1>6. ASSUME NEW n, NEW cargo, EditInspection(n, cargo) PROVE BillingNext
  BY <1>6, BumpIsOther DEF EditInspection, BillingNext
<1>7. ASSUME NEW r, UpdateSettings(r) PROVE BillingNext
  BY <1>7, BumpIsOther DEF UpdateSettings, BillingNext
<1>8. CASE InspectionNext
  BY <1>2, <1>3, <1>4, <1>5, <1>6, <1>8 DEF InspectionNext
<1>9. CASE WorkflowNext \/ PaymentNext
  BY <1>9 DEF BillingNext
<1>10. CASE UNCHANGED vars
  BY <1>10 DEF vars
<1>. QED
  BY <1>1, <1>7, <1>8, <1>9, <1>10 DEF Next

\* Operations implement the billing specification: every handler is one of its actions.
THEOREM OperationsImplementBilling == Spec => ImplementsBilling
<1>1. Init => BillingInit
  BY DEF Init
<1>. QED
  BY <1>1, NextImplements, PTL DEF Spec, BillingSpec, ImplementsBilling

\* What billing guarantees therefore holds while vessel calls and inspections drive it:
\* no invoice is overpaid and its history is explained.
THEOREM BillingHoldsInOperations == Spec => [](NeverOverpaid /\ PaidIffCovered /\ WorkflowInv)
BY OperationsImplementBilling, NeverOverpaidAlways, PaidIffCoveredAlways, WorkflowIsInvariant,
   PTL DEF ImplementsBilling

-----------------------------------------------------------------------------
(* Types                                                                    *)

\* The notices of a call have the shape of its event keys.
LEMMA CallNoticeType ==
  ASSUME NEW c \in Call, NEW kind \in {"call-created", "call-status", "call-cancelled"},
         NEW version \in Nat
  PROVE  CallNotice(c, kind, version) \subseteq OperationsNotice
BY DEF CallNotice, OperationsNotice

\* Billing an inspection names one of the invoices.
LEMMA BillType ==
  ASSUME OperationsTypeOK, NEW n \in Inspection, NEW c, NEW cargo, BillInspection(n, c, cargo)
  PROVE  invoiceOf' \in [Inspection -> Invoice \cup {NoInvoice}]
BY DEF OperationsTypeOK, BillInspection

\* The initial states are well-typed: nothing is registered yet.
LEMMA InitOperationsType == Init => OperationsTypeOK
<1>1. (CHOOSE c \in Call : TRUE) \in Call
  BY OperationsAssumption
<1>. QED
  BY <1>1, OperationsAssumption
     DEF Init, OperationsTypeOK, CallRow, CallStatus, InspectionRow

\* Every step keeps the types of the operations tables.
LEMMA NextOperationsType == OperationsTypeOK /\ [Next]_vars => OperationsTypeOK'
<1>. SUFFICES ASSUME OperationsTypeOK, [Next]_vars PROVE OperationsTypeOK'
  OBVIOUS
<1>0. /\ calls \in [Call -> CallRow] /\ inspections \in [Inspection -> InspectionRow]
      /\ invoiceOf \in [Inspection -> Invoice \cup {NoInvoice}]
      /\ rates \in Rates /\ opsNotices \subseteq OperationsNotice
  BY DEF OperationsTypeOK
<1>f. ASSUME NEW n \in Inspection PROVE FinalizedNotice(n) \subseteq OperationsNotice
  BY <1>f DEF FinalizedNotice, OperationsNotice
<1>1. ASSUME NEW c \in Call, NEW nrt \in Nrt, RegisterCall(c, nrt) PROVE OperationsTypeOK'
  <2>1. nrt \in Nat
    BY OperationsAssumption
  <2>2. CallNotice(c, "call-created", 0) \subseteq OperationsNotice
    BY CallNoticeType
  <2>3. [status |-> "pending", version |-> 1, nrt |-> nrt] \in CallRow
    BY <2>1 DEF CallRow, CallStatus
  <2>. QED
    BY <1>0, <1>1, <2>2, <2>3 DEF RegisterCall, OperationsTypeOK
<1>2. ASSUME NEW c \in Call, NEW nrt \in Nrt, NEW s \in CallStatus \ {"absent", "cancelled"},
             EditCall(c, nrt, s)
      PROVE  OperationsTypeOK'
  <2>1. nrt \in Nat /\ calls[c].version + 1 \in Nat
    BY <1>0, OperationsAssumption DEF CallRow
  <2>2. CallNotice(c, "call-status", calls[c].version + 1) \subseteq OperationsNotice
    BY <2>1, CallNoticeType
  <2>3. [status |-> s, version |-> calls[c].version + 1, nrt |-> nrt] \in CallRow
    BY <2>1 DEF CallRow
  <2>4. calls' \in [Call -> CallRow]
    BY <1>0, <1>2, <2>3 DEF EditCall
  <2>. QED
    BY <1>0, <1>2, <2>2, <2>4 DEF EditCall, OperationsTypeOK
<1>3. ASSUME NEW c \in Call, CancelCall(c) PROVE OperationsTypeOK'
  <2>1. calls[c].version + 1 \in Nat /\ calls[c] \in CallRow
    BY <1>0 DEF CallRow
  <2>2. CallNotice(c, "call-cancelled", calls[c].version + 1) \subseteq OperationsNotice
    BY <2>1, CallNoticeType
  <2>3. calls' \in [Call -> CallRow]
    BY <1>0, <1>3, <2>1 DEF CancelCall, CallRow, CallStatus
  <2>. QED
    BY <1>0, <1>3, <2>2, <2>3 DEF CancelCall, OperationsTypeOK
<1>4. ASSUME NEW n \in Inspection, NEW c \in Call, NEW cargo \in Cargo,
             NEW key \in InspectionKey \cup {NoKey},
             DraftInspection(n, c, cargo, key)
      PROVE  OperationsTypeOK'
  <2>1. [status |-> "draft", version |-> 1, call |-> c, cargo |-> cargo, key |-> key]
          \in InspectionRow
    BY DEF InspectionRow
  <2>2. calls' \in [Call -> CallRow]
    BY <1>0, <1>4 DEF DraftInspection, CallRow, CallStatus
  <2>3. inspections' \in [Inspection -> InspectionRow]
    BY <1>0, <1>4, <2>1 DEF DraftInspection
  <2>. QED
    BY <1>0, <1>4, <2>2, <2>3 DEF DraftInspection, OperationsTypeOK
<1>5. ASSUME NEW n \in Inspection, NEW c \in Call, NEW cargo \in Cargo,
             NEW key \in InspectionKey \cup {NoKey},
             SubmitInspection(n, c, cargo, key)
      PROVE  OperationsTypeOK'
  <2>1. [status |-> "completed", version |-> 2, call |-> c, cargo |-> cargo, key |-> key]
          \in InspectionRow
    BY DEF InspectionRow
  <2>2. calls' \in [Call -> CallRow]
    BY <1>0, <1>5 DEF SubmitInspection, CallRow, CallStatus
  <2>3. inspections' \in [Inspection -> InspectionRow]
    BY <1>0, <1>5, <2>1 DEF SubmitInspection
  <2>4. invoiceOf' \in [Inspection -> Invoice \cup {NoInvoice}]
    BY <1>5, BillType DEF SubmitInspection
  <2>. QED
    BY <1>0, <1>5, <1>f, <2>2, <2>3, <2>4 DEF SubmitInspection, OperationsTypeOK
<1>6. ASSUME NEW n \in Inspection, FinalizeInspection(n) PROVE OperationsTypeOK'
  <2>1. inspections[n] \in InspectionRow /\ inspections[n].call \in Call
    BY <1>0 DEF InspectionRow
  <2>2. calls' \in [Call -> CallRow]
    BY <1>0, <1>6, <2>1 DEF FinalizeInspection, CallRow, CallStatus
  <2>3. inspections' \in [Inspection -> InspectionRow]
    BY <1>0, <1>6, <2>1 DEF FinalizeInspection, InspectionRow
  <2>4. invoiceOf' \in [Inspection -> Invoice \cup {NoInvoice}]
    BY <1>6, BillType DEF FinalizeInspection
  <2>. QED
    BY <1>0, <1>6, <1>f, <2>2, <2>3, <2>4 DEF FinalizeInspection, OperationsTypeOK
<1>7. ASSUME NEW n \in Inspection, NEW cargo \in Cargo, EditInspection(n, cargo)
      PROVE  OperationsTypeOK'
  <2>1. inspections' \in [Inspection -> InspectionRow]
    BY <1>0, <1>7 DEF EditInspection, InspectionRow
  <2>. QED
    BY <1>0, <1>7, <2>1 DEF EditInspection, OperationsTypeOK
<1>8. ASSUME NEW r \in Rates, UpdateSettings(r) PROVE OperationsTypeOK'
  BY <1>0, <1>8 DEF UpdateSettings, OperationsTypeOK
<1>9. CASE UNCHANGED opsVars
  BY <1>9 DEF opsVars, OperationsTypeOK
<1>10. CASE CallNext
  BY <1>1, <1>2, <1>3, <1>10 DEF CallNext
<1>11. CASE InspectionNext
  BY <1>4, <1>5, <1>6, <1>7, <1>9, <1>11 DEF InspectionNext, ReplayInspection, vars
<1>. QED
  BY <1>8, <1>9, <1>10, <1>11 DEF Next, vars

\* Type correctness of vessel calls, inspections, tariffs and their notices.
THEOREM OperationsTypeCorrect == Spec => []OperationsTypeOK
BY InitOperationsType, NextOperationsType, PTL DEF Spec

-----------------------------------------------------------------------------
(* Billed exactly once                                                      *)

\* The inductive invariant behind BilledExactlyOnce: an invoice issued for an inspection
\* is new, so it is none of the imported ones and none another inspection has.
BilledInv ==
  /\ OperationsTypeOK
  /\ issued \subseteq Invoice /\ Legacy \subseteq issued
  /\ BilledExactlyOnce

\* What stays billed when no invoice is issued and no inspection changes its key or state.
LEMMA NotBilledKeeps ==
  ASSUME BilledInv, OperationsTypeOK', UNCHANGED <<issued, invoiceOf>>,
         \A n \in Inspection : /\ inspections'[n].status = "completed"
                                 <=> inspections[n].status = "completed"
                               /\ inspections'[n].key = inspections[n].key
  PROVE  BilledInv'
BY DEF BilledInv, BilledExactlyOnce

\* The key of a new inspection is nobody else's.
LEMMA NewKeyIsOwn ==
  ASSUME BilledInv, NEW n \in Inspection, NEW key, KeyUnused(key),
         \A m \in Inspection \ {n} : inspections'[m].key = inspections[m].key,
         inspections'[n].key = key
  PROVE  \A m, o \in Inspection :
           inspections'[m].key = inspections'[o].key /\ inspections'[m].key # NoKey => m = o
BY DEF BilledInv, BilledExactlyOnce, KeyUnused

\* Billing an inspection that has no invoice gives it one of its own.
LEMMA BillingKeeps ==
  ASSUME BilledInv, OperationsTypeOK', NEW n \in Inspection, NEW c, NEW cargo,
         invoiceOf[n] = NoInvoice, BillInspection(n, c, cargo),
         inspections'[n].status = "completed",
         \A m \in Inspection \ {n} : inspections'[m].status = inspections[m].status,
         \A m, o \in Inspection :
           inspections'[m].key = inspections'[o].key /\ inspections'[m].key # NoKey => m = o
  PROVE  BilledInv'
<1>1. PICK i \in Invoice : /\ i \notin issued /\ issued' = issued \cup {i}
                           /\ invoiceOf' = [invoiceOf EXCEPT ![n] = i]
  BY DEF BillInspection, IssueInvoice
<1>2. /\ invoiceOf'[n] = i /\ i # NoInvoice
      /\ \A m \in Inspection \ {n} : invoiceOf'[m] = invoiceOf[m]
  BY <1>1, OperationsAssumption DEF BilledInv, OperationsTypeOK
<1>3. issued \ Legacy = {invoiceOf[m] : m \in Inspection} \ {NoInvoice}
  BY DEF BilledInv, BilledExactlyOnce
<1>4. \A m \in Inspection \ {n} : invoiceOf'[m] # i
  BY <1>1, <1>2, <1>3
<1>5. issued' \ Legacy = (issued \ Legacy) \cup {i}
  BY <1>1 DEF BilledInv
<1>6. {invoiceOf'[m] : m \in Inspection} \ {NoInvoice}
        = ({invoiceOf[m] : m \in Inspection} \ {NoInvoice}) \cup {i}
  BY <1>2
<1>7. \A m \in Inspection : inspections'[m].status = "completed" <=> invoiceOf'[m] # NoInvoice
  BY <1>2 DEF BilledInv, BilledExactlyOnce
<1>8. \A m, o \in Inspection :
        invoiceOf'[m] = invoiceOf'[o] /\ invoiceOf'[m] # NoInvoice => m = o
  BY <1>2, <1>4 DEF BilledInv, BilledExactlyOnce
<1>9. issued' \subseteq Invoice /\ Legacy \subseteq issued'
  BY <1>1 DEF BilledInv
<1>. QED
  BY <1>3, <1>5, <1>6, <1>7, <1>8, <1>9 DEF BilledInv, BilledExactlyOnce

\* Every step keeps the billing of inspections.
LEMMA NextBilled == BilledInv /\ [Next]_vars => BilledInv'
<1>. SUFFICES ASSUME BilledInv, [Next]_vars PROVE BilledInv'
  OBVIOUS
<1>0. OperationsTypeOK' /\ inspections \in [Inspection -> InspectionRow]
  BY NextOperationsType DEF BilledInv, OperationsTypeOK
<1>s. ASSUME UNCHANGED <<issued, invoiceOf, inspections>> PROVE BilledInv'
  BY <1>0, <1>s, NotBilledKeeps
<1>1. CASE CallNext
  BY <1>1, <1>s DEF CallNext, RegisterCall, EditCall, CancelCall, ledgerOnly
<1>2. ASSUME NEW n \in Inspection, NEW c, NEW cargo, NEW key, DraftInspection(n, c, cargo, key)
      PROVE  BilledInv'
  <2>1. /\ inspections'[n].status = "draft" /\ inspections'[n].key = key
        /\ inspections[n].status = "absent" /\ KeyUnused(key)
        /\ UNCHANGED <<issued, invoiceOf>>
        /\ \A m \in Inspection \ {n} : inspections'[m] = inspections[m]
    BY <1>0, <1>2 DEF DraftInspection, InspectionRequest, ledgerOnly
  <2>2. \A m, o \in Inspection :
          inspections'[m].key = inspections'[o].key /\ inspections'[m].key # NoKey => m = o
    BY <2>1, NewKeyIsOwn
  <2>. QED
    BY <1>0, <2>1, <2>2 DEF BilledInv, BilledExactlyOnce
<1>3. ASSUME NEW n \in Inspection, NEW c, NEW cargo, NEW key, SubmitInspection(n, c, cargo, key)
      PROVE  BilledInv'
  <2>1. /\ inspections'[n].status = "completed" /\ inspections'[n].key = key
        /\ inspections[n].status = "absent" /\ KeyUnused(key)
        /\ BillInspection(n, c, cargo)
        /\ \A m \in Inspection \ {n} : inspections'[m] = inspections[m]
    BY <1>0, <1>3 DEF SubmitInspection, InspectionRequest
  <2>2. \A m, o \in Inspection :
          inspections'[m].key = inspections'[o].key /\ inspections'[m].key # NoKey => m = o
    BY <2>1, NewKeyIsOwn
  <2>3. invoiceOf[n] = NoInvoice
    BY <2>1 DEF BilledInv, BilledExactlyOnce
  <2>. QED
    BY <1>0, <2>1, <2>2, <2>3, BillingKeeps
<1>4. ASSUME NEW n \in Inspection, FinalizeInspection(n) PROVE BilledInv'
  <2>. DEFINE c == inspections[n].call
              cargo == inspections[n].cargo
  <2>1. /\ inspections'[n].status = "completed" /\ inspections'[n].key = inspections[n].key
        /\ invoiceOf[n] = NoInvoice
        /\ BillInspection(n, c, cargo)
        /\ \A m \in Inspection \ {n} : inspections'[m] = inspections[m]
    BY <1>0, <1>4 DEF FinalizeInspection, Unbilled, InspectionRow
  <2>2. \A m, o \in Inspection :
          inspections'[m].key = inspections'[o].key /\ inspections'[m].key # NoKey => m = o
    BY <2>1 DEF BilledInv, BilledExactlyOnce
  <2>. QED
    BY <1>0, <2>1, <2>2, BillingKeeps
<1>5. ASSUME NEW n \in Inspection, NEW cargo, EditInspection(n, cargo) PROVE BilledInv'
  <2>1. \A m \in Inspection : /\ inspections'[m].status = inspections[m].status
                              /\ inspections'[m].key = inspections[m].key
    BY <1>0, <1>5 DEF EditInspection, InspectionRow
  <2>. QED
    BY <1>0, <1>5, <2>1, NotBilledKeeps DEF EditInspection, ledgerOnly
<1>6. ASSUME NEW r, UpdateSettings(r) PROVE BilledInv'
  BY <1>6, <1>s DEF UpdateSettings, ledgerOnly
<1>7. CASE (WorkflowNext \/ PaymentNext) /\ UNCHANGED opsVars
  <2>1. UNCHANGED issued
    <3>1. CASE WorkflowNext
      BY <3>1 DEF WorkflowNext, ProvisionSteps, CreateStep, UpdateStep, ReorderSteps,
                  billingVars
    <3>2. CASE PaymentNext
      <4>1. PICK i \in Invoice :
              \/ \E s \in Step : TransitionManually(i, s)
              \/ \E k \in Key : ReplayPayment(i, k)
              \/ \E amount \in 1 .. dues[i], reference \in Reference, k \in Key \cup {NoKey} :
                   CreatePayment(i, amount, reference, k)
              \/ \E p \in payments[i] : ReversePayment(i, p)
        BY <3>2 DEF PaymentNext
      <4>2. CASE \E s \in Step : TransitionManually(i, s)
        BY <4>2 DEF TransitionManually
      <4>3. CASE \E k \in Key : ReplayPayment(i, k)
        BY <4>3 DEF ReplayPayment, billingVars
      <4>4. CASE \E amount \in 1 .. dues[i], reference \in Reference, k \in Key \cup {NoKey} :
                   CreatePayment(i, amount, reference, k)
        BY <4>4 DEF CreatePayment
      <4>5. CASE \E p \in payments[i] : ReversePayment(i, p)
        BY <4>5 DEF ReversePayment
      <4>. QED
        BY <4>1, <4>2, <4>3, <4>4, <4>5
    <3>. QED
      BY <1>7, <3>1, <3>2
  <2>. QED
    BY <1>7, <1>s, <2>1 DEF opsVars
<1>8. CASE UNCHANGED vars
  BY <1>8, <1>s DEF vars, opsVars, billingVars
<1>9. CASE InspectionNext
  BY <1>2, <1>3, <1>4, <1>5, <1>8, <1>9 DEF InspectionNext, ReplayInspection
<1>. QED
  BY <1>1, <1>6, <1>7, <1>8, <1>9 DEF Next

\* Every inspection that is completed has exactly one invoice, every invoice that was not
\* imported bills one inspection, and no retry makes a second one.
THEOREM BilledExactlyOnceAlways == Spec => []BilledExactlyOnce
<1>1. Init => BilledInv
  <2>. SUFFICES ASSUME Init PROVE BilledInv
    OBVIOUS
  <2>1. OperationsTypeOK
    BY InitOperationsType
  <2>2. issued = Legacy /\ Legacy \subseteq Invoice
    BY ConstantsAssumption DEF Init, BillingInit
  <2>3. BilledExactlyOnce
    BY <2>2 DEF Init, BilledExactlyOnce
  <2>. QED
    BY <2>1, <2>2, <2>3 DEF BilledInv
<1>2. BilledInv => BilledExactlyOnce
  BY DEF BilledInv
<1>. QED
  BY <1>1, <1>2, NextBilled, PTL DEF Spec

=============================================================================

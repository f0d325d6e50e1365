--------------------------- MODULE InvoiceBilling ---------------------------
(***************************************************************************)
(* The invoice ledger of one organization: the configurable status          *)
(* workflow, the invoices, their append-only status history and their       *)
(* payments (backend/billing and the billing half of                        *)
(* backend/api/operation_views.py).                                         *)
(*                                                                         *)
(* Every customer mutation runs in one transaction that holds the row lock  *)
(* of the organization, so each handler is one atomic action here; a        *)
(* handler that answers 4xx rolls back and is simply not enabled.           *)
(* Positions are counted in steps of ten, amounts in cents.                 *)
(***************************************************************************)
EXTENDS Integers, Sequences, FiniteSets

CONSTANTS
  Invoice,          \* invoice ids
  Legacy,           \* the ones imported from the retired application
  Dues,             \* amounts an invoice can be issued for
  Reference,        \* payment references a customer may type
  LegacyReference,  \* the reference the importer makes up
  Key, NoKey,       \* Idempotency-Key header values, and its absence
  ReviewStep,       \* default review stages
  CustomStep,       \* codes an Admin may add
  PaidStep,         \* the protected terminal stage
  NoStep,           \* a NULL step
  DefaultPosition,  \* position of every default stage
  MaxAmount,        \* largest amount the DECIMAL(18, 2) columns hold
  MaxRevision,      \* bound on the organization's revision counter
  SumAmounts(_)     \* the database's SUM(amount) over a set of credits

DefaultStep == ReviewStep \cup {PaidStep}
Step == DefaultStep \cup CustomStep

Source == {"created", "manual", "payment", "reversal"}
Event == [from : Step \cup {NoStep}, to : Step, source : Source]
Payment == [reference : Reference \cup {LegacyReference}, key : Key \cup {NoKey},
            amount : 1 .. MaxAmount, reversed : BOOLEAN]
Credit == [reference : Reference \cup {LegacyReference}, amount : 1 .. MaxAmount]
Notice == [kind : {"invoice-status", "payment-recorded", "payment-reversed"},
           invoice : Invoice, tag : Nat \cup Reference \cup {LegacyReference}]

ASSUME ConstantsAssumption ==
  /\ Legacy \subseteq Invoice
  /\ MaxAmount \in Nat
  /\ Dues \subseteq 0 .. MaxAmount
  /\ IsFiniteSet(Reference)
  /\ ReviewStep # {}
  /\ ReviewStep \cap CustomStep = {}
  /\ PaidStep \notin ReviewStep \cup CustomStep
  /\ NoStep \notin Step
  /\ NoKey \notin Key
  /\ LegacyReference \notin Reference
  /\ DefaultPosition \in [DefaultStep -> Nat \ {0}]
  /\ \A s, t \in DefaultStep : DefaultPosition[s] = DefaultPosition[t] => s = t
  /\ MaxRevision \in Nat

\* What SUM(amount) answers: 0 for no rows, and one more row adds its amount.
ASSUME SumAssumption ==
  /\ SumAmounts({}) = 0
  /\ \A credits \in SUBSET Credit :
       /\ SumAmounts(credits) \in Nat
       /\ \A c \in Credit \ credits :
            SumAmounts(credits \cup {c}) = SumAmounts(credits) + c.amount

VARIABLES
  steps,      \* codes of the InvoiceStatusStep rows that exist
  active,     \* the active ones
  notifying,  \* the ones that notify at least one role on entry
  position,   \* their position
  issued,     \* invoices that exist
  dues, status, current,   \* Invoice.dues, .status, .current_status
  events,     \* InvoiceStatusEvent rows of an invoice, oldest first
  payments,   \* Payment rows of an invoice
  notices,    \* outbox notices queued by billing, by event key
  revision    \* Organization.revision

stepVars == <<steps, active, notifying, position>>
statusVars == <<status, current, events>>
billingVars == <<stepVars, issued, dues, statusVars, payments, notices, revision>>

-----------------------------------------------------------------------------
(* Tables and queries                                                       *)

\* SUM(amount) over the rows that are not reversed; a reference is unique per invoice.
CreditOf(p) == [reference |-> p.reference, amount |-> p.amount]
ActiveCredits(rows) == {CreditOf(p) : p \in {q \in rows : ~q.reversed}}
ActivePaid(rows) == SumAmounts(ActiveCredits(rows))

Bump == revision < MaxRevision /\ revision' = revision + 1

\* Mutant: the default rows are not inserted.
EnsuredStepsDropped == steps

\* The step table as ensure_default_steps leaves it.
EnsuredSteps == steps \cup DefaultStep
EnsuredActive == active \cup (DefaultStep \ steps)
EnsuredNotifying == notifying \cup (ReviewStep \ steps)
EnsuredPosition ==
  [s \in Step |-> IF s \in DefaultStep \ steps THEN DefaultPosition[s] ELSE position[s]]

EnsureDefaultSteps ==
  /\ steps' = EnsuredSteps
  /\ active' = EnsuredActive
  /\ notifying' = EnsuredNotifying
  /\ position' = EnsuredPosition

\* The active non-paid step with the lowest position; without one the handler fails.
IsActiveDefault(s) ==
  /\ s \in EnsuredActive \ {PaidStep}
  /\ \A t \in EnsuredActive \ {PaidStep} : EnsuredPosition[s] <= EnsuredPosition[t]

\* Mutant: the history is searched without regard to what is active now.
RestorableEver(i) == {n \in DOMAIN events[i] : events[i][n].to # PaidStep}

\* The events of an invoice whose target could be restored now.
Restorable(i) == {n \in DOMAIN events[i] : events[i][n].to \in active \ {PaidStep}}

\* Newest restorable step of the history, else the default step.
IsRestored(i, s) ==
  \/ \E n \in Restorable(i) : (\A m \in Restorable(i) : m <= n) /\ s = events[i][n].to
  \/ Restorable(i) = {} /\ IsActiveDefault(s)

StatusNotice(i, s) ==
  IF s \in EnsuredNotifying
  THEN {[kind |-> "invoice-status", invoice |-> i, tag |-> Len(events[i]) + 1]}
  ELSE {}

\* Mutant: the previous step is read after it was overwritten.
StatusEventLate(i, s, source) == [from |-> s, to |-> s, source |-> source]

\* append_status_event
StatusEvent(i, s, source) == [from |-> current[i], to |-> s, source |-> source]

\* transition_invoice, its event included; `own` is what the caller queues itself.
\* paid_step and active_default_step provision the defaults; for any other step a
\* workflow exists and provisioning changes nothing.
TransitionInvoice(i, s, source, own) ==
  /\ current' = [current EXCEPT ![i] = s]
  /\ status' = [status EXCEPT ![i] = IF s = PaidStep THEN "paid" ELSE "unpaid"]
  /\ events' = [events EXCEPT ![i] = Append(@, StatusEvent(i, s, source))]
  /\ notices' = notices \cup own \cup StatusNotice(i, s)
  /\ EnsureDefaultSteps

\* Mutants: the dues must be exceeded; any payment counts as full.
ExceedsDues(i, rows) == ActivePaid(rows) > dues[i]
AnyPayment(i, rows) == ActivePaid(rows) > 0

CoversDues(i, rows) == ActivePaid(rows) >= dues[i]

\* reconcile_payment_status over the rows the transaction has just written.
ReconcilePaymentStatus(i, rows, source, own) ==
  LET covered == CoversDues(i, rows) IN
  \/ /\ covered /\ current[i] # PaidStep
     /\ TransitionInvoice(i, PaidStep, source, own)
  \/ /\ ~covered /\ current[i] \in {PaidStep, NoStep}
     /\ \E s \in Step : IsRestored(i, s) /\ TransitionInvoice(i, s, source, own)
  \/ /\ covered <=> current[i] = PaidStep
     /\ current[i] # NoStep
     /\ notices' = notices \cup own
     /\ UNCHANGED <<statusVars, stepVars>>

-----------------------------------------------------------------------------
(* Initial states                                                           *)

LegacyPayment(d) ==
  [reference |-> LegacyReference, key |-> NoKey, amount |-> d, reversed |-> FALSE]

\* No workflow yet. An imported invoice is unpaid, paid with its one payment,
\* or paid without a payment ledger; it has no step and no history.
BillingInit ==
  /\ steps = {} /\ active = {} /\ notifying = {} /\ position = [s \in Step |-> 0]
  /\ issued = Legacy
  /\ dues \in {d \in [Invoice -> Dues \cup {0}] : \A i \in Invoice \ Legacy : d[i] = 0}
  /\ \E paid \in SUBSET Legacy :
       /\ status = [i \in Invoice |-> IF i \in paid THEN "paid" ELSE "unpaid"]
       /\ \E ledger \in SUBSET {i \in paid : dues[i] > 0} :
            payments = [i \in Invoice |->
                          IF i \in ledger THEN {LegacyPayment(dues[i])} ELSE {}]
  /\ current = [i \in Invoice |-> NoStep]
  /\ events = [i \in Invoice |-> <<>>]
  /\ notices = {}
  /\ revision = 1

-----------------------------------------------------------------------------
(* Workflow configuration                                                   *)

\* GET /state and GET /invoice-status-steps provision the defaults lazily.
ProvisionSteps ==
  /\ EnsureDefaultSteps
  /\ UNCHANGED <<issued, dues, statusVars, payments, notices, revision>>

CreateStep(s, isActive, notify) ==
  /\ s \in CustomStep \ steps
  /\ \E last \in EnsuredSteps :
       /\ \A t \in EnsuredSteps : EnsuredPosition[t] <= EnsuredPosition[last]
       /\ position' = [EnsuredPosition EXCEPT ![s] = EnsuredPosition[last] + 1]
  /\ steps' = EnsuredSteps \cup {s}
  /\ active' = EnsuredActive \cup (IF isActive THEN {s} ELSE {})
  /\ notifying' = EnsuredNotifying \cup (IF notify THEN {s} ELSE {})
  /\ Bump
  /\ UNCHANGED <<issued, dues, statusVars, payments, notices>>

\* Mutant: the last step before Paid may be deactivated.
MayBeLast(s, isActive) == TRUE

\* Deactivating a step leaves another active one that is not Paid.
LeavesAStep(s, isActive) ==
  s \in active /\ ~isActive => \E t \in active \ {PaidStep} : t # s

\* Only a change is saved; `relabel` stands for an edit of the label.
UpdateStep(s, isActive, notify, relabel) ==
  /\ s \in steps
  /\ s = PaidStep => isActive /\ ~relabel
  /\ LeavesAStep(s, isActive)
  /\ relabel \/ isActive # (s \in active) \/ notify # (s \in notifying)
  /\ active' = IF isActive THEN active \cup {s} ELSE active \ {s}
  /\ notifying' = IF notify THEN notifying \cup {s} ELSE notifying \ {s}
  /\ Bump
  /\ UNCHANGED <<steps, position, issued, dues, statusVars, payments, notices>>

\* `order` lists every step once and Paid stays last among the active ones.
ReorderSteps(order) ==
  /\ \A s, t \in steps : order[s] = order[t] => s = t
  /\ PaidStep \in active
  /\ \A s \in active \ {PaidStep} : order[s] < order[PaidStep]
  /\ position' = [s \in Step |-> IF s \in steps THEN order[s] ELSE position[s]]
  /\ Bump
  /\ UNCHANGED <<steps, active, notifying, issued, dues, statusVars, payments, notices>>

-----------------------------------------------------------------------------
(* Invoices and payments                                                    *)

\* What finalize_inspection and issue_assessment do to the ledger.
IssueInvoice(i, d) ==
  /\ i \notin issued
  /\ \E s \in Step :
       /\ IsActiveDefault(s)
       /\ current' = [current EXCEPT ![i] = s]
       /\ events' = [events EXCEPT ![i] =
                       <<[from |-> NoStep, to |-> s, source |-> "created"]>>]
  /\ issued' = issued \cup {i}
  /\ dues' = [dues EXCEPT ![i] = d]
  /\ status' = [status EXCEPT ![i] = "unpaid"]
  /\ EnsureDefaultSteps
  /\ UNCHANGED <<payments, notices>>

\* Mutant: Paid can be chosen by hand.
AnyActiveTarget(i) == active \ {current[i]}

ManualTarget(i) == active \ {PaidStep, current[i]}

\* A reviewer moves an unpaid invoice to an active non-paid step.
TransitionManually(i, s) ==
  /\ i \in issued
  /\ status[i] # "paid" /\ current[i] # PaidStep
  /\ s \in ManualTarget(i)
  /\ TransitionInvoice(i, s, "manual", {})
  /\ Bump
  /\ UNCHANGED <<issued, dues, payments>>

\* A key that was already used answers with the payment it created.
ReplayPayment(i, k) ==
  /\ i \in issued
  /\ \E p \in payments[i] : p.key = k /\ k # NoKey
  /\ UNCHANGED billingVars

\* Mutant: the amount is held against the dues, not against the balance.
FitsDues(i, amount) == amount <= dues[i]

FitsBalance(i, amount) == ActivePaid(payments[i]) + amount <= dues[i]

CreatePayment(i, amount, reference, k) ==
  LET row == [reference |-> reference, key |-> k, amount |-> amount, reversed |-> FALSE]
      rows == payments[i] \cup {row}
      own == {[kind |-> "payment-recorded", invoice |-> i, tag |-> reference]}
  IN
  /\ i \in issued
  /\ k = NoKey \/ \A p \in payments[i] : p.key # k
  /\ status[i] # "paid"
  /\ FitsBalance(i, amount)
  /\ \A p \in payments[i] : p.reference # reference
  /\ payments' = [payments EXCEPT ![i] = rows]
  /\ ReconcilePaymentStatus(i, rows, "payment", own)
  /\ Bump
  /\ UNCHANGED <<issued, dues>>

ReversedIn(i, p) == (payments[i] \ {p}) \cup {[p EXCEPT !.reversed = TRUE]}

ReversePayment(i, p) ==
  LET rows == ReversedIn(i, p)
      own == {[kind |-> "payment-reversed", invoice |-> i, tag |-> p.reference]}
  IN
  /\ i \in issued
  /\ p \in payments[i]
  /\ ~p.reversed
  /\ payments' = [payments EXCEPT ![i] = rows]
  /\ ReconcilePaymentStatus(i, rows, "reversal", own)
  /\ Bump
  /\ UNCHANGED <<issued, dues>>

-----------------------------------------------------------------------------
\* Every other mutation of the organization bumps the same counter, and the
\* transaction that issues an invoice may bump it more than once.
BumpAgain == \E n \in 1 .. 2 : revision + n <= MaxRevision /\ revision' = revision + n

OtherMutation ==
  /\ BumpAgain
  /\ UNCHANGED <<stepVars, issued, dues, statusVars, payments, notices>>

WorkflowNext ==
  \/ ProvisionSteps
  \/ \E s \in CustomStep, isActive, notify \in BOOLEAN : CreateStep(s, isActive, notify)
  \/ \E s \in Step, isActive, notify, relabel \in BOOLEAN :
       UpdateStep(s, isActive, notify, relabel)
  \/ \E order \in [steps -> 1 .. Cardinality(steps)] : ReorderSteps(order)

PaymentNext ==
  \E i \in Invoice :
    \/ \E s \in Step : TransitionManually(i, s)
    \/ \E k \in Key : ReplayPayment(i, k)
    \/ \E amount \in 1 .. dues[i], reference \in Reference, k \in Key \cup {NoKey} :
         CreatePayment(i, amount, reference, k)
    \/ \E p \in payments[i] : ReversePayment(i, p)

BillingNext ==
  \/ WorkflowNext
  \/ PaymentNext
  \/ \E i \in Invoice, d \in Dues : IssueInvoice(i, d) /\ BumpAgain
  \/ OtherMutation

BillingSpec == BillingInit /\ [][BillingNext]_billingVars

-----------------------------------------------------------------------------
(* Properties                                                               *)

\* The billing component implements the abstract ledger: through every handler,
\* money is credited up to the dues and no further, and Paid means covered.
Ledger == INSTANCE PaymentLedger WITH
  Account <- Invoice,
  Opened <- Legacy,
  open <- issued,
  credited <- [i \in Invoice |-> ActivePaid(payments[i])],
  settled <- {i \in Invoice : status[i] = "paid"}

ImplementsLedger == Ledger!LedgerSpec

\* Every table holds rows of its type; only existing steps are active or notify, and
\* every amount fits its column.
TypeOK ==
  /\ steps \subseteq Step
  /\ active \subseteq steps
  /\ notifying \subseteq steps
  /\ position \in [Step -> Nat]
  /\ issued \subseteq Invoice
  /\ dues \in [Invoice -> 0 .. MaxAmount]
  /\ status \in [Invoice -> {"unpaid", "paid"}]
  /\ current \in [Invoice -> Step \cup {NoStep}]
  /\ events \in [Invoice -> Seq(Event)]
  /\ payments \in [Invoice -> SUBSET Payment]
  /\ notices \subseteq Notice
  /\ revision \in Nat

\* Whatever order payments, reversals and retries arrive in, the payments of an
\* invoice that are not reversed never exceed its dues (PaymentCreateView).
NeverOverpaid == \A i \in issued : ActivePaid(payments[i]) <= dues[i]

\* An invoice is Paid exactly while its live payments cover its dues
\* (reconcile_payment_status), zero dues and imported invoices that were paid
\* before there was a payment ledger aside.
PaidWithoutLedger(i) == i \in Legacy /\ status[i] = "paid" /\ payments[i] = {}

PaidIffCovered ==
  \A i \in issued :
    dues[i] > 0 /\ ~PaidWithoutLedger(i) =>
      (status[i] = "paid" <=> ActivePaid(payments[i]) = dues[i])

\* The append-only history explains the invoice: every event starts where the one
\* before it ended, and the last one ended at the invoice's present step
\* (transition_invoice writes both from the same read).
HistoryExplainsStep ==
  \A i \in issued :
    LET h == events[i] IN
    /\ h = <<>> => current[i] = NoStep
    /\ h # <<>> => h[1].from = NoStep /\ h[Len(h)].to = current[i]
    /\ \A n \in 2 .. Len(h) : h[n].from = h[n - 1].to /\ h[n].to # h[n].from

\* Paid is entered only by a payment and left only by a reversal, never by a
\* reviewer ("Paid is set only by payment reconciliation").
PaidIsGated ==
  \A i \in issued : \A n \in DOMAIN events[i] :
    /\ events[i][n].to = PaidStep => events[i][n].source = "payment"
    /\ events[i][n].from = PaidStep => events[i][n].source = "reversal"

\* Once a workflow exists it can always take a new or a reopened invoice: Paid and
\* some other step are active, and no two steps share a position, which the unique
\* constraint of the table would refuse.
WorkflowUsable ==
  steps # {} =>
    /\ DefaultStep \subseteq steps
    /\ PaidStep \in active
    /\ active \ {PaidStep} # {}
    /\ \A s, t \in steps : position[s] = position[t] => s = t

\* An invoice only ever enters a step that is active at that moment, also when a
\* reversal takes it back to a step of its past that was deactivated since.
EntersLiveSteps ==
  [][\A i \in Invoice :
       Len(events'[i]) > Len(events[i]) => events'[i][Len(events'[i])].to \in active']_billingVars

=============================================================================

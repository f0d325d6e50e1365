-------------------------- MODULE VesselOperations --------------------------
(***************************************************************************)
(* Vessel calls and cargo inspections of one organization, composed with    *)
(* the invoice ledger: finalizing an inspection closes its call and issues  *)
(* its harbour-dues invoice in the same transaction                         *)
(* (backend/operations, backend/api/domain.py and the operations half of    *)
(* backend/api/operation_views.py).                                         *)
(*                                                                         *)
(* A request may carry the version it read; a stale one answers 409 and     *)
(* changes nothing, so an enabled action is a request without a version or  *)
(* with the present one.                                                    *)
(***************************************************************************)
EXTENDS InvoiceBilling

CONSTANTS
  Call,          \* vessel calls
  Inspection,    \* inspections
  InspectionKey, \* Idempotency-Key values of inspection requests; NoKey is none
  NoInvoice,
  Nrt,           \* net registered tonnages, in thousandths
  Cargo,         \* tariff classes of an inspection
  Untariffed,    \* the class of a jetty no tariff covers
  Rates,         \* tariff tables an Admin may configure, [Cargo -> Nat]
  Cent           \* thousandths times rate units in one cent

CallStatus == {"absent", "pending", "in-progress", "completed", "cancelled"}
CallRow == [status : CallStatus, version : Nat, nrt : Nat]
InspectionRow == [status : {"absent", "draft", "completed"}, version : Nat, call : Call,
                  cargo : Cargo, key : InspectionKey \cup {NoKey}]
OperationsNotice ==
  [kind : {"call-created", "call-status", "call-cancelled"}, on : Call, version : Nat]
    \cup [kind : {"inspection-finalized"}, on : Inspection, version : {0}]

ASSUME OperationsAssumption ==
  /\ NoKey \notin InspectionKey
  /\ NoInvoice \notin Invoice
  /\ Call # {}
  /\ Nrt \subseteq Nat
  /\ Untariffed \in Cargo
  /\ Rates # {} /\ Rates \subseteq [Cargo -> Nat]
  /\ Cent \in Nat \ {0}

VARIABLES
  calls, inspections,
  invoiceOf,   \* the invoice of an inspection (one to one)
  rates,       \* OrganizationSettings: the tariff table
  opsNotices   \* outbox notices queued by operations, by event key

opsVars == <<calls, inspections, invoiceOf, rates, opsNotices>>
ledgerOnly == <<stepVars, issued, dues, statusVars, payments, notices>>
vars == <<billingVars, opsVars>>

-----------------------------------------------------------------------------
\* quantize(0.01, ROUND_HALF_UP)
Money(x) == (x + Cent \div 2) \div Cent

RateForInspection(cargo) == IF cargo = Untariffed THEN 0 ELSE rates[cargo]

DuesFor(c, cargo) == Money(calls[c].nrt * RateForInspection(cargo))

\* Mutant: the revision is not bumped.
NoBump(n) == UNCHANGED revision

BumpBy(n) == revision + n <= MaxRevision /\ revision' = revision + n

CallNotice(c, kind, version) == {[kind |-> kind, on |-> c, version |-> version]}

\* Mutant: the event key depends on the version of the inspection.
VersionedFinalizedNotice(n) ==
  {[kind |-> "inspection-finalized", on |-> n, version |-> inspections[n].version + 1]}

FinalizedNotice(n) == {[kind |-> "inspection-finalized", on |-> n, version |-> 0]}

\* The invoice finalize_inspection creates for inspection n of call c; dues the column
\* does not hold fail the transaction.
BillInspection(n, c, cargo) ==
  /\ DuesFor(c, cargo) \in Dues
  /\ \E i \in Invoice :
       /\ IssueInvoice(i, DuesFor(c, cargo))
       /\ invoiceOf' = [invoiceOf EXCEPT ![n] = i]

-----------------------------------------------------------------------------
(* Vessel calls                                                             *)

RegisterCall(c, nrt) ==
  /\ calls[c].status = "absent"
  /\ calls' = [calls EXCEPT ![c] = [status |-> "pending", version |-> 1, nrt |-> nrt]]
  /\ opsNotices' = opsNotices \cup CallNotice(c, "call-created", 0)
  /\ BumpBy(1)
  /\ UNCHANGED <<ledgerOnly, inspections, invoiceOf, rates>>

\* PATCH, and the status endpoint that forwards to it.
EditCall(c, nrt, newStatus) ==
  /\ calls[c].status \notin {"absent", "cancelled"}
  /\ calls' = [calls EXCEPT ![c] =
                 [status |-> newStatus, version |-> @.version + 1, nrt |-> nrt]]
  /\ opsNotices' = opsNotices \cup
       IF newStatus = calls[c].status
       THEN {}
       ELSE CallNotice(c, "call-status", calls[c].version + 1)
  /\ BumpBy(1)
  /\ UNCHANGED <<ledgerOnly, inspections, invoiceOf, rates>>

\* Cancelling a cancelled call answers with it and changes nothing.
CancelCall(c) ==
  /\ calls[c].status \in {"pending", "in-progress"}
  /\ calls' = [calls EXCEPT ![c].status = "cancelled", ![c].version = @ + 1]
  /\ opsNotices' = opsNotices \cup CallNotice(c, "call-cancelled", calls[c].version + 1)
  /\ BumpBy(1)
  /\ UNCHANGED <<ledgerOnly, inspections, invoiceOf, rates>>

-----------------------------------------------------------------------------
(* Inspections                                                              *)

\* Mutant: only drafts are searched for the key.
KeyUnusedByDrafts(key) ==
  key = NoKey \/ \A m \in Inspection : inspections[m].status = "draft" => inspections[m].key # key

KeyUnused(key) == key = NoKey \/ \A m \in Inspection : inspections[m].key # key

InspectionRequest(n, c, key) ==
  /\ inspections[n].status = "absent"
  /\ calls[c].status \notin {"absent", "cancelled"}
  /\ KeyUnused(key)

DraftInspection(n, c, cargo, key) ==
  /\ InspectionRequest(n, c, key)
  /\ inspections' = [inspections EXCEPT ![n] =
       [status |-> "draft", version |-> 1, call |-> c, cargo |-> cargo, key |-> key]]
  /\ calls' = [calls EXCEPT ![c].status = "in-progress", ![c].version = @ + 1]
  /\ BumpBy(1)
  /\ UNCHANGED <<ledgerOnly, invoiceOf, rates, opsNotices>>

\* The same request with status "completed": the draft is finalized at once.
SubmitInspection(n, c, cargo, key) ==
  /\ InspectionRequest(n, c, key)
  /\ inspections' = [inspections EXCEPT ![n] =
       [status |-> "completed", version |-> 2, call |-> c, cargo |-> cargo, key |-> key]]
  /\ calls' = [calls EXCEPT ![c].status = "completed", ![c].version = @ + 2]
  /\ BillInspection(n, c, cargo)
  /\ opsNotices' = opsNotices \cup FinalizedNotice(n)
  /\ BumpBy(2)
  /\ UNCHANGED rates

\* A retry with a key that was used answers with the inspection it created.
ReplayInspection(c, key) ==
  /\ calls[c].status \notin {"absent", "cancelled"}
  /\ \E n \in Inspection : inspections[n].key = key /\ key # NoKey
  /\ UNCHANGED vars

EditInspection(n, cargo) ==
  /\ inspections[n].status = "draft"
  /\ inspections' = [inspections EXCEPT ![n].cargo = cargo, ![n].version = @ + 1]
  /\ BumpBy(1)
  /\ UNCHANGED <<ledgerOnly, calls, invoiceOf, rates, opsNotices>>

\* Mutant: a completed inspection is billed again.
AnyInspection(n) == TRUE

Unbilled(n) == invoiceOf[n] = NoInvoice

\* finalize_inspection looks at the invoice, not at the state of the call; an
\* inspection that has its invoice is returned as it is.
FinalizeInspection(n) ==
  LET c == inspections[n].call IN
  /\ inspections[n].status # "absent"
  /\ Unbilled(n)
  /\ inspections' = [inspections EXCEPT ![n].status = "completed", ![n].version = @ + 1]
  /\ calls' = [calls EXCEPT ![c].status = "completed", ![c].version = @ + 1]
  /\ BillInspection(n, c, inspections[n].cargo)
  /\ opsNotices' = opsNotices \cup FinalizedNotice(n)
  /\ BumpBy(1)
  /\ UNCHANGED rates

UpdateSettings(r) ==
  /\ rates' = r
  /\ BumpBy(1)
  /\ UNCHANGED <<ledgerOnly, calls, inspections, invoiceOf, opsNotices>>

-----------------------------------------------------------------------------
Init ==
  /\ BillingInit
  /\ calls = [c \in Call |-> [status |-> "absent", version |-> 0, nrt |-> 0]]
  /\ inspections = [n \in Inspection |->
       [status |-> "absent", version |-> 0, call |-> CHOOSE c \in Call : TRUE,
        cargo |-> Untariffed, key |-> NoKey]]
  /\ invoiceOf = [n \in Inspection |-> NoInvoice]
  /\ rates \in Rates
  /\ opsNotices = {}

CallNext ==
  \E c \in Call :
    \/ \E nrt \in Nrt : RegisterCall(c, nrt)
    \/ \E nrt \in Nrt, s \in CallStatus \ {"absent", "cancelled"} : EditCall(c, nrt, s)
    \/ CancelCall(c)

InspectionNext ==
  \/ \E n \in Inspection, c \in Call, cargo \in Cargo, key \in InspectionKey \cup {NoKey} :
       DraftInspection(n, c, cargo, key) \/ SubmitInspection(n, c, cargo, key)
  \/ \E c \in Call, key \in InspectionKey : ReplayInspection(c, key)
  \/ \E n \in Inspection :
       FinalizeInspection(n) \/ \E cargo \in Cargo : EditInspection(n, cargo)

Next ==
  \/ CallNext
  \/ InspectionNext
  \/ \E r \in Rates : UpdateSettings(r)
  \/ (WorkflowNext \/ PaymentNext) /\ UNCHANGED opsVars

Spec == Init /\ [][Next]_vars

-----------------------------------------------------------------------------
(* Properties                                                               *)

\* Every table holds rows of its type and every event key has its shape.
OperationsTypeOK ==
  /\ calls \in [Call -> CallRow]
  /\ inspections \in [Inspection -> InspectionRow]
  /\ invoiceOf \in [Inspection -> Invoice \cup {NoInvoice}]
  /\ rates \in Rates
  /\ opsNotices \subseteq OperationsNotice

\* An inspection is completed exactly when it is billed, it is billed once, and every
\* invoice that was not imported bills one inspection; a key names one inspection for
\* good, so no retry makes a second one to bill, whatever mixture of drafts, direct
\* submissions, finalizations and retries produced them.
BilledExactlyOnce ==
  /\ \A n \in Inspection : inspections[n].status = "completed" <=> invoiceOf[n] # NoInvoice
  /\ \A n, m \in Inspection : invoiceOf[n] = invoiceOf[m] /\ invoiceOf[n] # NoInvoice => n = m
  /\ issued \ Legacy = {invoiceOf[n] : n \in Inspection} \ {NoInvoice}
  /\ \A n, m \in Inspection :
       inspections[n].key = inspections[m].key /\ inspections[n].key # NoKey => n = m

\* Seen from the ledger, operations only do what InvoiceBilling allows: every handler
\* here implements one of its actions.
ImplementsBilling == BillingSpec

\* "A cancelled call cannot be edited", "A cancelled call cannot be inspected": a
\* cancelled call stays cancelled and no invoice is issued for it afterwards.
CancelledIsFinal ==
  [][\A c \in Call :
       calls[c].status = "cancelled" =>
         /\ calls'[c].status = "cancelled"
         /\ \A n \in Inspection : inspections[n].call = c => invoiceOf'[n] = invoiceOf[n]]_vars

=============================================================================

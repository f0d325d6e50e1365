--------------------------- MODULE VoyageCloseout ---------------------------
(***************************************************************************)
(* Closing a voyage out in the browser.  Final quantities are prepared     *)
(* from the agencies' readings, approved or returned by a second reviewer, *)
(* and turned into a draft variation invoice.  The record of it is kept in *)
(* localStorage, shared by the tabs of one browser; preparer and reviewer  *)
(* sign in to it in turn.  Every change reads the record, changes it and   *)
(* writes it back in one synchronous step; the other tabs learn of it from *)
(* a storage event, later, and a tab's readings are as old as its last     *)
(* poll.                                                                   *)
(*                                                                         *)
(*   sheets  the server's readings, one entry per version; the position    *)
(*           stands for the fingerprint of the voyage's inputs             *)
(*   store   the record in localStorage                                    *)
(*   tab     each tab: its page, the sheet and the record it shows, the    *)
(*           draft of the readings page and the editor of the invoice page *)
(*   user    who is signed in                                              *)
(*   voyage  the bounds of this exploration, chosen once                   *)
(***************************************************************************)
EXTENDS Integers, Sequences, FiniteSets, SequencesExt, FiniteSetsExt

CONSTANTS Tabs, Users, Lines,
          Declared,         \* the owner's declared quantity of every line
          Finals,           \* quantities an agency or a preparer may enter
          Tariff,           \* the variation tariff: a rate or NoRate per line
          Rates,            \* rates Finance may enter by hand
          Previous,         \* earlier variation charges Finance may enter
          Scale,            \* rate units in one cent
          MaxSheets, MaxReports, MaxInvoices, \* largest bounds of a scope
          CloseoutScopes,   \* the bounds of each exploration
          Blank, NoRate, NoUser, NoInput

Payments == {"none", "unconfirmed", "paid"} \* "none": payer or invoice number missing

\* The tabs in use, the lines in dispute, the figures entered for them, the
\* versions and invoices made, and whether the browser still holds a version
\* saved before there was a review step.
CloseoutScope == [tabs : SUBSET Tabs, lines : SUBSET Lines, finals : SUBSET Finals,
                  previous : SUBSET Previous, payments : SUBSET Payments,
                  reports : 0..MaxReports, invoices : 0..MaxInvoices,
                  legacy : {"no", "yes"}]

ASSUME CloseoutAssumption ==
    /\ CloseoutScopes \subseteq CloseoutScope
    /\ Declared \in Nat /\ Finals \subseteq Nat /\ Declared \in Finals
    /\ Rates \subseteq Nat \ {0} /\ Tariff \in [Lines -> Rates \cup {NoRate}]
    /\ Previous \subseteq Nat /\ 0 \in Previous /\ Scale \in Nat \ {0}
    /\ {MaxSheets, MaxReports, MaxInvoices} \subseteq Nat /\ MaxSheets > 0 /\ MaxReports > 0
    /\ IsFiniteSet(Lines) /\ IsFiniteSet(Finals) /\ IsFiniteSet(Rates) /\ Rates # {}
    /\ Blank \notin Finals /\ NoRate \notin Rates \cup {0} /\ NoUser \notin Users

VARIABLES sheets, store, tab, user, voyage

closeoutVars == <<sheets, store, tab, user, voyage>>

Input == [payment : Payments, rate : [Lines -> Rates \cup {0, NoRate}],
          previous : [Lines -> Previous]]
Report == [sheet : 1..MaxSheets, quantity : [Lines -> Finals], by : Users,
           status : {"missing", "submitted", "approved", "returned"}, reviewer : Users \cup {NoUser}]
Invoice == [report : 1..MaxReports, input : Input, total : Nat, number : Nat,
            status : {"draft", "no-charge", "overpayment-review", "held"}]

EmptyRecord == [reports |-> <<>>, invoices |-> <<>>, payment |-> "none"]
NoDraft == [sheet |-> 0, quantity |-> [l \in Lines |-> Blank]]
Unopened(record, n) ==
    [page |-> "away", sheet |-> n, record |-> record, draft |-> NoDraft,
     revising |-> FALSE, editing |-> FALSE, input |-> NoInput]

\* What an earlier release left: one version, approved by whoever
\* prepared it, with no status.
LegacyRecord(q) ==
    [EmptyRecord EXCEPT !.reports = <<[sheet |-> 1, quantity |-> q, by |-> user,
                                       status |-> "missing", reviewer |-> NoUser]>>]

CloseoutInit ==
    /\ voyage \in CloseoutScopes /\ user \in Users
    /\ \/ /\ voyage.legacy = "no" /\ store = EmptyRecord
          /\ sheets = <<[l \in Lines |-> IF l \in voyage.lines THEN Blank ELSE Declared]>>
       \/ /\ voyage.legacy = "yes"
          /\ \E r, q \in [Lines -> voyage.finals \cup {Declared}] :
               /\ \A l \in Lines \ voyage.lines : r[l] = Declared
               /\ \A l \in Lines : r[l] = Declared => q[l] = Declared
               /\ sheets = <<r>> /\ store = LegacyRecord(q)
    /\ tab = [t \in Tabs |-> Unopened(store, 1)]

-----------------------------------------------------------------------------
(* Reports: which one counts, seen with a sheet and a record.  A report is *)
(* named by its position; 0 is none.                                       *)

\* Mutant: whatever was not sent back counts as approved.
UnlessReturned(report) == IF report.status = "returned" THEN "returned" ELSE "approved"

\* A report without a status was approved directly, before the review step.
reportStatus(report) == IF report.status = "missing" THEN "approved" ELSE report.status

NewestApproved(record) ==
    Max({0} \cup {i \in DOMAIN record.reports : reportStatus(record.reports[i]) = "approved"})

currentReport(sheet, record) ==
    LET i == NewestApproved(record)
    IN  IF i > 0 /\ record.reports[i].sheet = sheet THEN i ELSE 0

LastIs(record, status) ==
    record.reports # <<>> /\ reportStatus(Last(record.reports)) = status

pendingReport(sheet, record) ==
    IF LastIs(record, "submitted") /\ Last(record.reports).sheet = sheet
    THEN Len(record.reports) ELSE 0

\* The version sent back, while its readings are still the ones shown.
ReturnedHere(sheet, record) ==
    IF LastIs(record, "returned") /\ Last(record.reports).sheet = sheet
    THEN Len(record.reports) ELSE 0

\* The newest invoice of a report, 0 if it has none.
InvoiceOf(record, i) ==
    Max({0} \cup {n \in DOMAIN record.invoices : record.invoices[n].report = i})

reconciliationIssues(sheet) == \E l \in Lines : sheets[sheet][l] = Blank
Agrees(sheet, l) == sheets[sheet][l] = Declared

\* Lines on which every reading agrees with the declaration are accepted.
initialDraft(sheet, record, base) ==
    [sheet |-> sheet,
     quantity |-> [l \in Lines |-> CASE base > 0 -> record.reports[base].quantity[l]
                                     [] base = 0 /\ Agrees(sheet, l) -> Declared
                                     [] OTHER -> Blank]]

-----------------------------------------------------------------------------
(* The variation invoice.                                                  *)

Above(report, l) == report.quantity[l] > Declared
Below(report, l) == report.quantity[l] < Declared

\* Whole cents, half a cent rounded up; nothing for a lower quantity.
Entitlement(report, input, l) ==
    IF Above(report, l)
    THEN ((report.quantity[l] - Declared) * input.rate[l] + Scale \div 2) \div Scale
    ELSE 0

AmountOf(report, input, l) == Max({0, Entitlement(report, input, l) - input.previous[l]})

\* Mutant: a lower line asks for no review.
Unreviewed(report, input, l) ==
    IF input.previous[l] > Entitlement(report, input, l) THEN "held" ELSE "charge"

LineStatus(report, input, l) ==
    CASE Below(report, l) -> "overpayment-review"
      [] ~Below(report, l) /\ input.previous[l] > Entitlement(report, input, l) -> "held"
      [] OTHER -> IF AmountOf(report, input, l) > 0 THEN "charge" ELSE "no-charge"

calculateVariation(report, input) ==
    LET total == SumFunctionOnSet([l \in Lines |-> AmountOf(report, input, l)], Lines)
        has(s) == \E l \in Lines : LineStatus(report, input, l) = s
        status == CASE has("held") -> "held"
                    [] ~has("held") /\ has("overpayment-review") -> "overpayment-review"
                    [] OTHER -> IF total > 0 THEN "draft" ELSE "no-charge"
    IN  [status |-> status,
         total |-> IF status \in {"held", "overpayment-review"} THEN 0 ELSE total]

\* What the voyage and the tariff fill in; a line not above the declaration
\* needs no rate.
invoiceInputFor(report, payment) ==
    [payment |-> payment,
     rate |-> [l \in Lines |-> IF Tariff[l] # NoRate \/ Above(report, l) THEN Tariff[l] ELSE 0],
     previous |-> [l \in Lines |-> 0]]

Unrated(input) == \E l \in Lines : input.rate[l] = NoRate

\* The reasons for which draftInvoice answers with a message.
DraftIssue(report, input) ==
    \/ input.payment = "none"
    \/ Unrated(input)
    \/ calculateVariation(report, input).status = "draft" /\ input.payment # "paid"

\* The record with the invoice of report i, unless the newest is the same one.
WithInvoice(record, i, input) ==
    LET report == record.reports[i]
        outcome == calculateVariation(report, input)
        same == /\ record.invoices # <<>>
                /\ Last(record.invoices).report = i /\ Last(record.invoices).input = input
    IN  IF DraftIssue(report, input) \/ same THEN record
        ELSE [record EXCEPT !.invoices =
                Append(@, [report |-> i, input |-> input, total |-> outcome.total,
                           status |-> outcome.status, number |-> Len(@) + 1])]

missingInvoiceDetails(report, input) ==
    \/ input.payment = "none"
    \/ input.payment # "paid" /\ \E l \in Lines : Above(report, l)
    \/ Unrated(input)

-----------------------------------------------------------------------------
(* Rendering.  The editor is mounted exactly while it is shown, and keeps  *)
(* the details it was mounted with.                                        *)

CurrentInvoice(w) == InvoiceOf(w.record, currentReport(w.sheet, w.record))

EditorShown(w) == /\ w.page = "invoice" /\ currentReport(w.sheet, w.record) > 0
                  /\ CurrentInvoice(w) = 0 \/ w.editing

EditorInput(w) ==
    IF CurrentInvoice(w) > 0 THEN w.record.invoices[CurrentInvoice(w)].input
    ELSE invoiceInputFor(w.record.reports[currentReport(w.sheet, w.record)], w.record.payment)

Rendered(w) ==
    CASE ~EditorShown(w) -> [w EXCEPT !.input = NoInput]
      [] EditorShown(w) /\ w.input = NoInput -> [w EXCEPT !.input = EditorInput(w)]
      [] OTHER -> w

Draws(t, w) == tab' = [tab EXCEPT ![t] = Rendered(w)]

\* Mutant: the change is made to the record the tab shows.
ShownRecord(t) == tab[t].record

\* A change is made to the record that is in storage now, whatever the tab shows.
SavedRecord(t) == store

\* The new record is stored and shown by the tab that made it.
Keeps(t, record, w) == store' = record /\ Draws(t, [w EXCEPT !.record = record])

-----------------------------------------------------------------------------
(* What changes around a tab.                                              *)

\* An agency's return, first or revised, reaches the server.
NewReading(r) ==
    /\ Len(sheets) < MaxSheets /\ r # Last(sheets)
    /\ \A l \in Lines \ voyage.lines : r[l] = Declared
    /\ sheets' = Append(sheets, r)
    /\ UNCHANGED <<store, tab, user, voyage>>

\* The thirty second poll of the plans.
Refetch(t) ==
    /\ tab[t].sheet # Len(sheets)
    /\ Draws(t, [tab[t] EXCEPT !.sheet = Len(sheets)])
    /\ UNCHANGED <<sheets, store, user, voyage>>

\* The storage event of a change another tab made.
StorageEvent(t) ==
    /\ tab[t].record # store
    /\ Draws(t, [tab[t] EXCEPT !.record = store])
    /\ UNCHANGED <<sheets, store, user, voyage>>

\* Somebody else signs in; the pages of the previous user are gone.
SignIn(u) ==
    /\ u # user /\ user' = u
    /\ tab' = [t \in Tabs |-> Unopened(store, Len(sheets))]
    /\ UNCHANGED <<sheets, store, voyage>>

OpenPage(t, page) ==
    /\ tab[t].page # page
    /\ LET n == tab[t].sheet
       IN  Draws(t, [Unopened(store, n) EXCEPT !.page = page,
                     !.draft = IF page = "readings"
                               THEN initialDraft(n, store, ReturnedHere(n, store)) ELSE @])
    /\ UNCHANGED <<sheets, store, user, voyage>>

-----------------------------------------------------------------------------
(* The readings page.                                                      *)

Pending(t) == pendingReport(tab[t].sheet, tab[t].record)
Approved(t) == currentReport(tab[t].sheet, tab[t].record)
Editing(t) == /\ tab[t].page = "readings" /\ Pending(t) = 0
              /\ Approved(t) = 0 \/ tab[t].revising
StaleDraft(t) == tab[t].draft.sheet # tab[t].sheet

Decide(t, l, q) ==
    /\ Editing(t) /\ ~StaleDraft(t) /\ ~Agrees(tab[t].sheet, l)
    /\ tab[t].draft.quantity[l] # q
    /\ Draws(t, [tab[t] EXCEPT !.draft.quantity[l] = q])
    /\ UNCHANGED <<sheets, store, user, voyage>>

LoadLatest(t) ==
    /\ Editing(t) /\ StaleDraft(t)
    /\ LET w == tab[t]
       IN  Draws(t, [w EXCEPT !.draft =
                        initialDraft(w.sheet, w.record, ReturnedHere(w.sheet, w.record))])
    /\ UNCHANGED <<sheets, store, user, voyage>>

StartRevision(t) ==
    /\ tab[t].page = "readings" /\ Pending(t) = 0 /\ Approved(t) > 0 /\ ~tab[t].revising
    /\ LET w == tab[t]
       IN  Draws(t, [w EXCEPT !.revising = TRUE,
                              !.draft = initialDraft(w.sheet, w.record, Approved(t))])
    /\ UNCHANGED <<sheets, store, user, voyage>>

CancelRevision(t) ==
    /\ Editing(t) /\ tab[t].revising
    /\ Draws(t, [tab[t] EXCEPT !.revising = FALSE])
    /\ UNCHANGED <<sheets, store, user, voyage>>

\* A version is appended, unless the same one already waits for a reviewer.
submitReport(record, draft) ==
    LET same == /\ LastIs(record, "submitted")
                /\ Last(record.reports).sheet = draft.sheet
                /\ Last(record.reports).quantity = draft.quantity
    IN  IF same THEN record
        ELSE [record EXCEPT !.reports =
                Append(@, [sheet |-> draft.sheet, quantity |-> draft.quantity, by |-> user,
                           status |-> "submitted", reviewer |-> NoUser])]

\* Mutant: one decided line is enough.
DecidedSome(t) == \E l \in Lines : tab[t].draft.quantity[l] # Blank

\* draftIssues finds nothing: every line has its final quantity.
DraftComplete(t) == \A l \in Lines : tab[t].draft.quantity[l] # Blank

Submit(t) ==
    /\ Editing(t) /\ ~StaleDraft(t) /\ ~reconciliationIssues(tab[t].sheet)
    /\ DraftComplete(t)
    /\ Len(store.reports) < voyage.reports
    /\ Keeps(t, submitReport(SavedRecord(t), tab[t].draft), [tab[t] EXCEPT !.revising = FALSE])
    /\ UNCHANGED <<sheets, user, voyage>>

\* The version the tab shows still is the last and waits: approve and return.
MayReview(record, i) == i = Len(record.reports) /\ reportStatus(record.reports[i]) = "submitted"

\* The buttons are the reviewer's: somebody who did not prepare the version.
Reviewing(t) == /\ tab[t].page = "readings" /\ Pending(t) > 0
                /\ tab[t].record.reports[Pending(t)].by # user

Decided(record, i, status) ==
    [record EXCEPT !.reports[i].status = status, !.reports[i].reviewer = user]

\* Approval drafts the invoice from the declaration the tab shows.
approveReport(t) ==
    /\ Reviewing(t) /\ Len(store.invoices) < voyage.invoices
    /\ LET i == Pending(t)
           record == SavedRecord(t)
           input == invoiceInputFor(tab[t].record.reports[i], tab[t].record.payment)
       IN  /\ MayReview(record, i) /\ record.reports[i].sheet = tab[t].sheet
           /\ record.reports[i].by # user
           /\ Keeps(t, WithInvoice(Decided(record, i, "approved"), i, input), tab[t])
    /\ UNCHANGED <<sheets, user, voyage>>

returnReport(t) ==
    /\ Reviewing(t)
    /\ LET i == Pending(t)
           record == Decided(SavedRecord(t), i, "returned")
       IN  /\ MayReview(SavedRecord(t), i)
           /\ Keeps(t, record, [tab[t] EXCEPT !.draft = initialDraft(tab[t].sheet, record, i)])
    /\ UNCHANGED <<sheets, user, voyage>>

-----------------------------------------------------------------------------
(* The declaration card and the invoice page.                              *)

saveDeclaration(t, payment) ==
    /\ tab[t].page = "away" /\ SavedRecord(t).payment # payment
    /\ Keeps(t, [SavedRecord(t) EXCEPT !.payment = payment], tab[t])
    /\ UNCHANGED <<sheets, user, voyage>>

EditDetails(t) ==
    /\ tab[t].page = "invoice" /\ CurrentInvoice(tab[t]) > 0 /\ ~tab[t].editing
    /\ Draws(t, [tab[t] EXCEPT !.editing = TRUE])
    /\ UNCHANGED <<sheets, store, user, voyage>>

CancelEdit(t) ==
    /\ EditorShown(tab[t]) /\ CurrentInvoice(tab[t]) > 0
    /\ Draws(t, [tab[t] EXCEPT !.editing = FALSE])
    /\ UNCHANGED <<sheets, store, user, voyage>>

\* A field of the editor; rates can be entered for lines above the declaration.
Enters(t, l) ==
    LET w == tab[t]
    IN  \/ \E r \in Rates : /\ Above(w.record.reports[Approved(t)], l)
                            /\ Draws(t, [w EXCEPT !.input.rate[l] = r])
        \/ \E p \in voyage.previous : Draws(t, [w EXCEPT !.input.previous[l] = p])
        \/ \E p \in voyage.payments : Draws(t, [w EXCEPT !.input.payment = p])

EnterDetails(t) ==
    /\ EditorShown(tab[t])
    /\ \E l \in voyage.lines : Enters(t, l)
    /\ UNCHANGED <<sheets, store, user, voyage>>

\* The declaration is saved first, by itself; the invoice only if the report
\* still is the approved one of the stored record and there is room for it.
SaveDetails(t, room) ==
    /\ EditorShown(tab[t]) /\ Len(store.invoices) < voyage.invoices
    /\ LET w == tab[t]
           i == Approved(t)
           declared == [SavedRecord(t) EXCEPT !.payment = w.input.payment]
           billed == WithInvoice(declared, i, w.input)
           made == /\ room /\ currentReport(w.sheet, declared) = i
                   /\ ~DraftIssue(declared.reports[i], w.input)
       IN  /\ ~missingInvoiceDetails(w.record.reports[i], w.input)
           /\ Keeps(t, IF made THEN billed ELSE declared,
                    [w EXCEPT !.editing = IF made THEN FALSE ELSE @])
    /\ UNCHANGED <<sheets, user, voyage>>

-----------------------------------------------------------------------------
Around == \/ \E r \in [Lines -> voyage.finals] : NewReading(r)
          \/ \E u \in Users : SignIn(u)
          \/ \E t \in voyage.tabs : \/ Refetch(t) \/ StorageEvent(t)
                             \/ \E page \in {"away", "readings", "invoice"} : OpenPage(t, page)

Prepare(t) == \/ \E l \in Lines, q \in voyage.finals : Decide(t, l, q)
              \/ LoadLatest(t) \/ StartRevision(t) \/ CancelRevision(t) \/ Submit(t)

Bill(t) == \/ \E payment \in voyage.payments : saveDeclaration(t, payment)
           \/ EditDetails(t) \/ CancelEdit(t) \/ EnterDetails(t)
           \/ \E room \in BOOLEAN : SaveDetails(t, room)

CloseoutNext == Around \/ \E t \in voyage.tabs : Prepare(t) \/ approveReport(t) \/ returnReport(t) \/ Bill(t)

CloseoutSpec == CloseoutInit /\ [][CloseoutNext]_closeoutVars

-----------------------------------------------------------------------------
Record(r) == /\ r.reports \in Seq(Report) /\ r.invoices \in Seq(Invoice)
             /\ r.payment \in Payments

\* The shape of the state: what is stored and shown is well formed, a draft
\* and the sheet of a tab are ones the server had.
CloseoutTypeOK ==
    /\ voyage \in CloseoutScope
    /\ sheets \in Seq([Lines -> Finals \cup {Blank}]) /\ user \in Users /\ Record(store)
    /\ \A t \in Tabs :
         /\ Record(tab[t].record) /\ tab[t].sheet \in 1..Len(sheets)
         /\ tab[t].page \in {"away", "readings", "invoice"}
         /\ tab[t].draft.sheet \in 0..Len(sheets)
         /\ tab[t].draft.quantity \in [Lines -> Finals \cup {Blank}]
         /\ tab[t].input = NoInput \/ tab[t].input \in Input

\* Previous versions remain in history: whichever tab saves, however old the
\* record it shows, only the last version may still be decided, once, and
\* versions and invoices are otherwise only added. A version is added for
\* review: none is saved without a status any more.
HistoryKept ==
    [][/\ IsPrefix(store.invoices, store'.invoices)
       /\ Len(store.reports) <= Len(store'.reports)
       /\ \A i \in DOMAIN store'.reports :
            i > Len(store.reports) => store'.reports[i].status = "submitted"
       /\ \A i \in DOMAIN store.reports :
            store'.reports[i] # store.reports[i] =>
                /\ i = Len(store.reports) /\ store.reports[i].status = "submitted"
                /\ store'.reports[i] = [store.reports[i] EXCEPT
                                          !.status = store'.reports[i].status,
                                          !.reviewer = store'.reports[i].reviewer]]_closeoutVars

\* Every invoice rests on a version approved by somebody other than its
\* preparer, or on one that was saved before the review step and carries no
\* status, which the code bills without a second reviewer. A draft that asks
\* for money rests on a declaration recorded as paid, and asks for what the
\* quantities above the declaration cost beyond earlier charges; no lower line
\* is netted off and none goes along with it.
PayableIsSound ==
    \A n \in DOMAIN store.invoices :
        LET v == store.invoices[n]
            report == store.reports[v.report]
            cost(l) == IF Above(report, l)
                       THEN CHOOSE c \in 0..(Max(Finals) * Max(Rates)) :
                              LET exact == (report.quantity[l] - Declared) * v.input.rate[l]
                              IN  2 * (Scale * c - exact) <= Scale /\ 2 * (exact - Scale * c) < Scale
                       ELSE 0
        IN  /\ \/ report.status = "missing"
               \/ report.status = "approved" /\ report.reviewer \notin {NoUser, report.by}
            /\ v.total > 0 =>
                 /\ v.input.payment = "paid"
                 /\ ~\E l \in Lines : Below(report, l)
                 /\ v.total = SumFunctionOnSet([l \in Lines |-> cost(l) - v.input.previous[l]], Lines)
=============================================================================

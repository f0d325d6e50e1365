---------------------------- MODULE CaptureWizard ----------------------------
(***************************************************************************)
(* The three steps in which an inspection is captured: cargo, measurement,  *)
(* review (NewInspection of frontend/src/screens/Inspections.tsx,           *)
(* CaptureFlow of mobile/MobileApp.tsx and the retired screens they were    *)
(* ported from), with the charges the screens compute for themselves        *)
(* (lib/calc.ts) and the ones the server issues (backend/api/domain.py).     *)
(*                                                                         *)
(* Rates are in thousandths of a dollar, dues and commission in cents, the  *)
(* commission rate in tenths of a percent, naira in kobo.                   *)
(*                                                                         *)
(* The server computes in decimals and rounds half a cent up. The screens   *)
(* compute in binary doubles, in which a product that should be half a cent *)
(* may come out on either side of it (1.005 * 100 is 100.49999999999999):   *)
(* there the preview is whichever of the two cents the build happens on.    *)
(***************************************************************************)
EXTENDS Integers

CONSTANTS
  Screens,      \* the screens explored: current or retired, desktop or mobile
  SettingsSet,  \* the settings an administrator may save
  NetTonnage,   \* of the vessel call
  MaxTons,      \* largest figure a surveyor enters
  MaxChanges,   \* changes of settings or of the call by other users
  MaxSubmits

Cargo == {"Liquid", "Dry"}
JettyType == {"", "International", "Local"}
Category == {"", "Government", "Private"}
Tons == 0..MaxTons

ASSUME WizardAssumption ==
  /\ Screens \subseteq {"desktop", "mobile", "oldDesktop", "oldMobile"}
  /\ NetTonnage \in Nat \ {0}
  /\ \A s \in SettingsSet :
       {s.dry, s.international, s.government, s.private, s.commission, s.exchange} \subseteq Nat
  /\ {MaxTons, MaxChanges, MaxSubmits} \subseteq Nat

VARIABLES
  settings, open,          \* the server's settings, and whether the call is open
  seen, seenOpen,          \* what the client was last sent of them
  wizard, flight, result,  \* the form, its request, and the success screen
  ins, invoice,            \* the inspection and its invoice on the server
  spent,
  screen                   \* the screen the surveyor works at

wizardVars == <<settings, open, seen, seenOpen, wizard, flight, result, ins, invoice, spent, screen>>

NoResult == [shown |-> FALSE, queued |-> FALSE, dues |-> 0, usd |-> 0]
NoFlight == [sent |-> FALSE]
NoInvoice == [issued |-> FALSE]
NoInspection == [status |-> "absent"]

-----------------------------------------------------------------------------
(* Figures                                                                  *)

Reconciled(w) ==
  IF w.cargo = "Liquid" THEN w.tonnage ELSE w.before - w.after - w.deductibles + w.constant

JettyOf(w) ==
  IF w.cargo = "Liquid" THEN [type |-> w.jetty, category |-> IF w.jetty = "Local" THEN w.category ELSE ""]
  ELSE [type |-> "", category |-> ""]

\* rateForInspection; no rate is 0.
RateForInspection(cargo, jetty, s) ==
  CASE cargo = "Dry" -> s.dry
    [] cargo # "Dry" /\ jetty.type = "International" -> s.international
    [] cargo # "Dry" /\ jetty.type = "Local" /\ jetty.category = "Government" -> s.government
    [] cargo # "Dry" /\ jetty.type = "Local" /\ jetty.category = "Private" -> s.private
    [] OTHER -> 0

Mills == 10    \* thousandths of a dollar in a cent
Whole == 1000  \* tenths of a percent in the whole
Kobo == 100    \* in a naira

\* Half a cent up, as Decimal.quantize(ROUND_HALF_UP) does.
Round(n, d) == (n + d \div 2) \div d

\* Math.round of the double nearest to n / d: the nearest whole number, and at an exact
\* half either neighbour.
DoubleRound(n, d) ==
  {r \in {n \div d, n \div d + 1} : 2 * (d * r - n) <= d /\ 2 * (n - d * r) <= d}

\* Mutant: cents are cut off.
CalcDuesTruncated(rate) == {(NetTonnage * rate) \div Mills}

CalcDues(rate) == DoubleRound(NetTonnage * rate, Mills)

CalcCommission(dues, s) ==
  UNION {{[usd |-> usd, ngn |-> Kobo * naira] : naira \in DoubleRound(usd * s.exchange, Kobo)} :
           usd \in DoubleRound(dues * s.commission, Whole)}

\* The previews the review step may show.
CalcPreview(w, s) ==
  LET jetty == [type |-> w.jetty, category |-> IF w.jetty = "Local" THEN w.category ELSE ""]
  IN UNION {{[dues |-> dues, usd |-> c.usd, ngn |-> c.ngn] : c \in CalcCommission(dues, s)} :
              dues \in CalcDues(RateForInspection(w.cargo, jetty, s))}

\* finalize_inspection: what the server charges for the inspection it stored.
ServerRate(i, s) ==
  CASE i.cargo = "Dry" -> s.dry
    [] i.cargo = "Liquid" ->
         CASE i.jetty.type = "International" -> s.international
           [] i.jetty = [type |-> "Local", category |-> "Government"] -> s.government
           [] i.jetty = [type |-> "Local", category |-> "Private"] -> s.private
           [] OTHER -> 0

Issue(i, s) ==
  LET rate == ServerRate(i, s)
      dues == Round(NetTonnage * rate, Mills)
      usd == Round(dues * s.commission, Whole)
  IN [issued |-> TRUE, rate |-> rate, dues |-> dues, usd |-> usd, ngn |-> usd * s.exchange]

-----------------------------------------------------------------------------
(* The form                                                                 *)

BlankForm ==
  [on |-> FALSE, step |-> 0, call |-> FALSE, cargo |-> "",
   tonnage |-> 0, jetty |-> "", category |-> "",
   before |-> 0, after |-> 0, deductibles |-> 0, constant |-> 0]

Spend(k, max) == spent[k] < max /\ spent' = [spent EXCEPT ![k] = @ + 1]
others == <<settings, open, seen, seenOpen, ins, invoice, spent, screen>>
Filling == wizard.on /\ ~flight.sent /\ ~result.shown
Fill(w) == wizard' = w /\ UNCHANGED <<flight, result, others>>

\* From a vessel call the call is given; otherwise the combobox offers open ones.
Open(linked) ==
  /\ ~wizard.on /\ ins.status = "absent"
  /\ linked \/ screen \in {"desktop", "oldDesktop"}
  /\ linked => seenOpen
  /\ Fill([BlankForm EXCEPT !.on = TRUE, !.call = linked])

\* The fields as they were stored with the draft.
Restore(i) ==
  [BlankForm EXCEPT !.cargo = i.cargo, !.tonnage = i.form.tonnage, !.jetty = i.jetty.type,
                !.category = i.jetty.category, !.before = i.form.before,
                !.after = i.form.after, !.deductibles = i.form.deductibles,
                !.constant = i.form.constant]

\* A draft is resumed at its measurement.
Resume ==
  /\ screen = "desktop"
  /\ ~wizard.on /\ ins.status = "draft"
  /\ Fill([Restore(ins) EXCEPT !.on = TRUE, !.step = 1, !.call = TRUE])

PickCall ==
  /\ Filling /\ wizard.step = 0 /\ ~wizard.call /\ seenOpen
  /\ Fill([wizard EXCEPT !.call = TRUE])

\* Mutant: the cargo can still be switched while the figures are reviewed.
SwitchCargo(c) ==
  /\ Filling /\ wizard.step # 1
  /\ Fill([wizard EXCEPT !.cargo = c])

PickCargo(c) ==
  /\ Filling /\ wizard.step = 0
  /\ Fill([wizard EXCEPT !.cargo = c])

EnterLiquid(tons, jetty, category) ==
  /\ Filling /\ wizard.step = 1 /\ wizard.cargo = "Liquid"
  /\ \/ Fill([wizard EXCEPT !.tonnage = tons])
     \/ Fill([wizard EXCEPT !.jetty = jetty, !.category = IF jetty = "Local" THEN @ ELSE ""])
     \/ wizard.jetty = "Local" /\ Fill([wizard EXCEPT !.category = category])

EnterDry(field, tons) ==
  /\ Filling /\ wizard.step = 1 /\ wizard.cargo # "Liquid"
  /\ Fill([wizard EXCEPT ![field] = tons])

Continue ==
  /\ Filling /\ wizard.step = 0 /\ wizard.call /\ wizard.cargo # ""
  /\ Fill([wizard EXCEPT !.step = 1])

JettyOk(w) == w.cargo # "Liquid" \/ w.jetty = "International" \/ (w.jetty = "Local" /\ w.category # "")

\* Mutant: a tonnage is enough.
TonnageOnly(w) == Reconciled(w) > 0

CanReview(w) == Reconciled(w) > 0 /\ JettyOk(w)

Review ==
  /\ Filling /\ wizard.step = 1 /\ CanReview(wizard)
  /\ Fill([wizard EXCEPT !.step = 2])

Back ==
  /\ Filling
  /\ Fill(IF wizard.step = 0 THEN BlankForm ELSE [wizard EXCEPT !.step = @ - 1])

-----------------------------------------------------------------------------
(* Submission                                                               *)

\* What is sent: the chosen cargo's measurements only, and a desktop draft without a
\* tonnage. The preview is the one on the screen when the button is pressed.
SubmitInspection(asDraft) ==
  /\ Filling /\ wizard.step = 2
  /\ asDraft => screen # "oldMobile"
  /\ Spend("submits", MaxSubmits)
  /\ \E preview \in CalcPreview(wizard, seen) :
       flight' = [sent |-> TRUE, asDraft |-> asDraft, cargo |-> wizard.cargo,
                  jetty |-> JettyOf(wizard), form |-> wizard,
                  reconciled |-> IF asDraft /\ screen # "mobile" THEN 0 ELSE Reconciled(wizard),
                  preview |-> preview]
  /\ UNCHANGED <<settings, open, seen, seenOpen, wizard, result, ins, invoice, screen>>

\* Only the measurements of the chosen cargo are sent; a draft keeps the others it has.
StoredForm ==
  LET w == flight.form
      old == IF ins.status = "draft" THEN ins.form ELSE BlankForm
  IN IF flight.cargo = "Liquid" THEN [old EXCEPT !.tonnage = w.tonnage]
     ELSE [old EXCEPT !.before = w.before, !.after = w.after,
                      !.deductibles = w.deductibles, !.constant = w.constant]

Stored ==
  [status |-> IF flight.asDraft THEN "draft" ELSE "completed",
   cargo |-> flight.cargo, jetty |-> flight.jetty,
   reconciled |-> flight.reconciled, form |-> StoredForm]

\* A new inspection needs an open call; nobody else edits the draft.
Accepted == ins.status = "absent" => open

\* Mutant: the success screen shows the preview although the server has issued an invoice.
PreviewOnly(issued) == [dues |-> flight.preview.dues, usd |-> flight.preview.usd]

\* The desktop prefers the figures of the invoice.
Confirmed(issued) ==
  IF screen = "desktop" /\ issued.issued THEN [dues |-> issued.dues, usd |-> issued.usd]
  ELSE [dues |-> flight.preview.dues, usd |-> flight.preview.usd]

Succeed(issued, queued) ==
  IF flight.asDraft THEN wizard' = BlankForm /\ UNCHANGED result
  ELSE /\ UNCHANGED wizard
       /\ result' = [shown |-> TRUE, queued |-> queued,
                     dues |-> Confirmed(issued).dues, usd |-> Confirmed(issued).usd]

Answer ==
  /\ flight.sent
  /\ flight' = NoFlight
  /\ IF Accepted
     THEN /\ ins' = Stored
          /\ invoice' = IF flight.asDraft THEN invoice ELSE Issue(Stored, settings)
          /\ Succeed(invoice', FALSE)
     ELSE UNCHANGED <<ins, invoice, wizard, result>>
  /\ UNCHANGED <<settings, open, seen, seenOpen, spent, screen>>

\* No network: the capture is queued, or the retired screens show an error.
Offline ==
  /\ flight.sent
  /\ flight' = NoFlight
  /\ IF screen \in {"oldDesktop", "oldMobile"} THEN UNCHANGED <<wizard, result>> ELSE Succeed(NoInvoice, TRUE)
  /\ UNCHANGED others

\* The retired mobile screen's "Save as draft" only closes the capture.
Discard ==
  /\ screen = "oldMobile" /\ Filling /\ wizard.step = 2
  /\ Fill(BlankForm)

Done ==
  /\ wizard.on /\ result.shown
  /\ wizard' = BlankForm /\ result' = NoResult
  /\ UNCHANGED <<flight, others>>

-----------------------------------------------------------------------------
(* Other users                                                              *)

ChangeSettings(s) ==
  /\ s # settings /\ Spend("changes", MaxChanges)
  /\ settings' = s
  /\ UNCHANGED <<open, seen, seenOpen, wizard, flight, result, ins, invoice, screen>>

CallCancelled ==
  /\ open /\ Spend("changes", MaxChanges)
  /\ open' = FALSE
  /\ UNCHANGED <<settings, seen, seenOpen, wizard, flight, result, ins, invoice, screen>>

Poll ==
  /\ seen' = settings /\ seenOpen' = open
  /\ UNCHANGED <<settings, open, wizard, flight, result, ins, invoice, spent, screen>>

-----------------------------------------------------------------------------
WizardInit ==
  /\ screen \in Screens
  /\ settings \in SettingsSet /\ seen = settings
  /\ open = TRUE /\ seenOpen = TRUE
  /\ wizard = BlankForm /\ flight = NoFlight /\ result = NoResult
  /\ ins = NoInspection /\ invoice = NoInvoice
  /\ spent = [submits |-> 0, changes |-> 0]

WizardNext ==
  \/ \E linked \in BOOLEAN : Open(linked)
  \/ Resume \/ PickCall \/ Continue \/ Review \/ Back
  \/ \E c \in Cargo : PickCargo(c)
  \/ \E t \in Tons, j \in JettyType, k \in Category : EnterLiquid(t, j, k)
  \/ \E t \in Tons, f \in {"before", "after", "deductibles", "constant"} : EnterDry(f, t)
  \/ \E asDraft \in BOOLEAN : SubmitInspection(asDraft)
  \/ Answer \/ Offline \/ Discard \/ Done
  \/ \E s \in SettingsSet : ChangeSettings(s)
  \/ CallCancelled \/ Poll

WizardSpec == WizardInit /\ [][WizardNext]_wizardVars

-----------------------------------------------------------------------------
(* Properties                                                               *)

\* Forms hold figures a surveyor can enter, and the review is only ever on screen for a
\* call, a cargo and a measurement that passed the earlier steps.
WizardTypeOK ==
  /\ screen \in Screens /\ settings \in SettingsSet /\ seen \in SettingsSet
  /\ wizard.step \in 0..2 /\ wizard.cargo \in Cargo \cup {""}
  /\ wizard.jetty \in JettyType /\ wizard.category \in Category
  /\ {wizard.tonnage, wizard.before, wizard.after, wizard.deductibles, wizard.constant} \subseteq Tons
  /\ wizard.step = 2 => wizard.call /\ CanReview(wizard)

\* The server knows a rate for the inspection, if only one of zero.
Rated(i) ==
  \/ i.cargo = "Dry"
  \/ /\ i.cargo = "Liquid"
     /\ i.jetty.type = "International" \/ (i.jetty.type = "Local" /\ i.jetty.category # "")

\* What a screen shows for n / d cents is what the server charges, or, where that is half
\* a cent, one cent less.
Mirrors(shown, charged, n, d) == shown = charged \/ (shown = charged - 1 /\ 2 * (n % d) = d)

\* The figures of the screens and of the server agree as far as the two ways of rounding
\* let them. Whatever way through the steps led to a submission, what is invoiced has a
\* tonnage and a jetty the server knows a rate for: no capture falls through to no dues.
\* The preview "mirrors the backend maths": with the same settings it is what the server
\* would charge, but for a cent where the exact figure is half a cent. And "the server is
\* the single source of truth on submit": a desktop screen that says the inspection was
\* recorded shows the figures of the invoice, also when the preview was a cent less or
\* the rates changed under the form.
FiguresAgree ==
  /\ invoice.issued => Rated(ins) /\ ins.reconciled > 0
  /\ wizard.step = 2 /\ seen = settings =>
       LET i == Issue([cargo |-> wizard.cargo, jetty |-> JettyOf(wizard)], settings)
       IN \A p \in CalcPreview(wizard, seen) :
            /\ Mirrors(p.dues, i.dues, NetTonnage * i.rate, Mills)
            /\ p.dues = i.dues => Mirrors(p.usd, i.usd, i.dues * settings.commission, Whole)
  /\ screen = "desktop" /\ result.shown /\ ~result.queued =>
       result.dues = invoice.dues /\ result.usd = invoice.usd

=============================================================================

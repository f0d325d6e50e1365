---------------------------- MODULE ScreensProofs ----------------------------
(***************************************************************************)
(* Proofs about three parts of the browser applications: the capture of an  *)
(* inspection (CaptureWizard), the retired applications that work from      *)
(* localStorage alone (LocalFallback), and the closeout of a voyage         *)
(* (VoyageCloseout).                                                        *)
(***************************************************************************)
EXTENDS MCScreens, FiniteFacts, TLAPS

-----------------------------------------------------------------------------
(* Capture wizard: shapes                                                    *)

Jetty == [type : JettyType, category : Category]

Form ==
  [on : BOOLEAN, step : {0, 1, 2}, call : BOOLEAN, cargo : Cargo \cup {""},
   tonnage : Tons, jetty : JettyType, category : Category,
   before : Tons, after : Tons, deductibles : Tons, constant : Tons]

Flight ==
  [sent : {TRUE}, asDraft : BOOLEAN, cargo : Cargo, jetty : Jetty, form : Form,
   reconciled : Int, preview : [dues : Int, usd : Int, ngn : Int]]

Inspection ==
  [status : {"draft", "completed"}, cargo : Cargo, jetty : Jetty, reconciled : Int, form : Form]

Issuable == [issued : {TRUE}, rate : Int, dues : Int, usd : Int, ngn : Int]

Result == [shown : BOOLEAN, queued : BOOLEAN, dues : Int, usd : Int]

\* A cargo and a jetty for which the server has a rate.
Chargeable(cargo, jetty) ==
  \/ cargo = "Dry"
  \/ cargo = "Liquid" /\ jetty.type = "International"
  \/ cargo = "Liquid" /\ jetty.type = "Local" /\ jetty.category \in {"Government", "Private"}

WizardTypes ==
  /\ screen \in Screens /\ settings \in SettingsSet /\ seen \in SettingsSet
  /\ open \in BOOLEAN /\ seenOpen \in BOOLEAN
  /\ wizard \in Form
  /\ flight = NoFlight \/ flight \in Flight
  /\ result \in Result
  /\ ins = NoInspection \/ ins \in Inspection
  /\ invoice = NoInvoice \/ invoice \in Issuable

\* Past the first step there is a call and a cargo, at the review also a measurement.
StepsTaken(w) ==
  /\ w.step # 0 => w.call = TRUE /\ w.cargo # ""
  /\ w.step = 2 => CanReview(w)

\* A request left a form under review: it can be charged, and unless it is a draft it
\* reports a tonnage. Nothing is sent for an inspection that is complete.
FlightSound ==
  flight.sent =>
    /\ Chargeable(flight.cargo, flight.jetty) /\ (~flight.asDraft => flight.reconciled > 0)
    /\ wizard.on /\ ~result.shown

\* A complete inspection has left the form, and only it has an invoice.
CaptureEnds ==
  /\ ins.status = "completed" => (wizard.on => result.shown)
  /\ invoice.issued => ins.status = "completed" /\ ins.reconciled > 0 /\ Chargeable(ins.cargo, ins.jetty)

\* What a desktop screen confirms is what the invoice says.
ResultSound ==
  screen = "desktop" /\ result.shown /\ ~result.queued =>
    result.dues = invoice.dues /\ result.usd = invoice.usd /\ ins.status = "completed"

WizardInv == WizardTypes /\ StepsTaken(wizard) /\ FlightSound /\ CaptureEnds /\ ResultSound

-----------------------------------------------------------------------------
(* Capture wizard: figures                                                   *)

\* Round gives whole numbers, and nonnegative ones of nonnegative figures.
LEMMA RoundType ==
  ASSUME NEW n \in Nat, NEW d \in {Mills, Whole}
  PROVE  Round(n, d) \in Nat
  BY DEF Round, Mills, Whole

\* Settings are nonnegative figures.
LEMMA SettingsFigures ==
  ASSUME NEW s \in SettingsSet
  PROVE  /\ s.dry \in Nat /\ s.international \in Nat
         /\ s.government \in Nat /\ s.private \in Nat
         /\ s.commission \in Nat /\ s.exchange \in Nat
  BY WizardAssumption

\* A double is rounded to a whole number, nonnegative for a nonnegative figure.
LEMMA DoubleRoundType ==
  ASSUME NEW n \in Nat, NEW d \in {Mills, Kobo, Whole}, NEW r \in DoubleRound(n, d)
  PROVE  r \in Nat
  <1>1. n \div d \in Nat BY DEF Mills, Kobo, Whole
  <1> QED BY <1>1 DEF DoubleRound

\* A double is rounded as the server rounds, or down where the figure is half a cent.
LEMMA DoubleRoundMirrors ==
  ASSUME NEW n \in Nat, NEW d \in {Mills, Whole}, NEW r \in DoubleRound(n, d)
  PROVE  Mirrors(r, Round(n, d), n, d)
  <1>1. CASE d = 10
    <2>1. /\ n \div 10 \in Int /\ n % 10 \in Int /\ n = 10 * (n \div 10) + (n % 10)
          /\ 0 <= n % 10 /\ n % 10 < 10
      OBVIOUS
    <2>2. r = n \div 10 \/ r = n \div 10 + 1 BY <1>1 DEF DoubleRound
    <2>3. 2 * (10 * r - n) <= 10 /\ 2 * (n - 10 * r) <= 10 BY <1>1 DEF DoubleRound
    <2>4. Round(n, 10) = (n + 5) \div 10 BY DEF Round
    <2>5. (n + 5) \div 10 = IF n % 10 < 5 THEN n \div 10 ELSE n \div 10 + 1 BY <2>1
    <2> QED BY <1>1, <2>1, <2>2, <2>3, <2>4, <2>5 DEF Mirrors
  <1>2. CASE d = 1000
    <2>1. /\ n \div 1000 \in Int /\ n % 1000 \in Int /\ n = 1000 * (n \div 1000) + (n % 1000)
          /\ 0 <= n % 1000 /\ n % 1000 < 1000
      OBVIOUS
    <2>2. r = n \div 1000 \/ r = n \div 1000 + 1 BY <1>2 DEF DoubleRound
    <2>3. 2 * (1000 * r - n) <= 1000 /\ 2 * (n - 1000 * r) <= 1000 BY <1>2 DEF DoubleRound
    <2>4. Round(n, 1000) = (n + 500) \div 1000 BY DEF Round
    <2>5. (n + 500) \div 1000 = IF n % 1000 < 500 THEN n \div 1000 ELSE n \div 1000 + 1
      BY <2>1
    <2> QED BY <1>2, <2>1, <2>2, <2>3, <2>4, <2>5 DEF Mirrors
  <1> QED BY <1>1, <1>2 DEF Mills, Whole

\* A reconciled tonnage is a whole number (Reconciled).
LEMMA ReconciledType ==
  ASSUME NEW w \in Form
  PROVE  Reconciled(w) \in Int
  <1>1. \A t \in Tons : t \in Int
    BY WizardAssumption DEF Tons
  <1>2. /\ w.tonnage \in Int /\ w.before \in Int /\ w.after \in Int
        /\ w.deductibles \in Int /\ w.constant \in Int
    BY <1>1 DEF Form
  <1> QED BY <1>2 DEF Reconciled

\* The rate of the screens is a figure of the settings, or none (rateForInspection).
LEMMA RateForInspectionType ==
  ASSUME NEW cargo, NEW jetty, NEW s \in SettingsSet
  PROVE  RateForInspection(cargo, jetty, s) \in Nat
  BY SettingsFigures DEF RateForInspection

\* The jetty a screen looks a rate up for, and that rate.
PreviewJetty(w) == [type |-> w.jetty, category |-> IF w.jetty = "Local" THEN w.category ELSE ""]
PreviewRate(w, s) == RateForInspection(w.cargo, PreviewJetty(w), s)

\* A preview is made of rounded dues, their rounded commission and its rounded worth in
\* naira (calcPreview).
LEMMA CalcPreviewFields ==
  ASSUME NEW w, NEW s, NEW p \in CalcPreview(w, s)
  PROVE  /\ p.dues \in DoubleRound(NetTonnage * PreviewRate(w, s), Mills)
         /\ p.usd \in DoubleRound(p.dues * s.commission, Whole)
         /\ \E n \in DoubleRound(p.usd * s.exchange, Kobo) :
              p = [dues |-> p.dues, usd |-> p.usd, ngn |-> Kobo * n]
  <1>1. PICK d \in DoubleRound(NetTonnage * PreviewRate(w, s), Mills) : \E c \in CalcCommission(d, s) :
          p = [dues |-> d, usd |-> c.usd, ngn |-> c.ngn]
    BY Zenon DEF CalcPreview, CalcDues, PreviewRate, PreviewJetty
  <1>c. PICK c \in CalcCommission(d, s) : p = [dues |-> d, usd |-> c.usd, ngn |-> c.ngn]
    BY <1>1
  <1>u. PICK u \in DoubleRound(d * s.commission, Whole) :
          \E n \in DoubleRound(u * s.exchange, Kobo) : c = [usd |-> u, ngn |-> Kobo * n]
    BY <1>c, Zenon DEF CalcCommission
  <1>2. PICK n \in DoubleRound(u * s.exchange, Kobo) : c = [usd |-> u, ngn |-> Kobo * n]
    BY <1>u
  <1>3. c.usd = u /\ c.ngn = Kobo * n BY <1>2
  <1>4. p.dues = d /\ p.usd = c.usd /\ p.ngn = c.ngn BY <1>c
  <1>5. p = [dues |-> p.dues, usd |-> p.usd, ngn |-> Kobo * n] BY <1>c, <1>3, <1>4
  <1> QED BY <1>1, <1>u, <1>2, <1>3, <1>4, <1>5

\* The preview consists of whole cents and kobo (calcPreview).
LEMMA CalcPreviewType ==
  ASSUME NEW w, NEW s \in SettingsSet, NEW p \in CalcPreview(w, s)
  PROVE  p \in [dues : Int, usd : Int, ngn : Int]
  <1>1. PreviewRate(w, s) \in Nat BY RateForInspectionType DEF PreviewRate
  <1>2. NetTonnage * PreviewRate(w, s) \in Nat BY <1>1, WizardAssumption
  <1>3. p.dues \in Nat BY <1>2, CalcPreviewFields, DoubleRoundType
  <1>4. p.dues * s.commission \in Nat BY <1>3, SettingsFigures
  <1>5. p.usd \in Nat BY <1>4, CalcPreviewFields, DoubleRoundType
  <1>6. p.usd * s.exchange \in Nat BY <1>5, SettingsFigures
  <1>7. PICK n \in DoubleRound(p.usd * s.exchange, Kobo) :
          p = [dues |-> p.dues, usd |-> p.usd, ngn |-> Kobo * n]
    BY CalcPreviewFields
  <1>8. Kobo * n \in Int
    <2>1. n \in Nat BY <1>6, DoubleRoundType
    <2> QED BY <2>1 DEF Kobo
  <1> QED BY <1>3, <1>5, <1>7, <1>8

\* The server's rate is a figure of the settings, or zero (rate_for_inspection).
LEMMA ServerRateType ==
  ASSUME NEW i, NEW s \in SettingsSet, i.cargo \in Cargo
  PROVE  ServerRate(i, s) \in Nat
  <1>1. CASE i.cargo = "Dry" BY <1>1, SettingsFigures DEF ServerRate
  <1>2. CASE i.cargo = "Liquid"
    <2>1. ServerRate(i, s) \in {s.international, s.government, s.private, 0}
      BY <1>2, Zenon DEF ServerRate
    <2> QED BY <2>1, SettingsFigures
  <1> QED BY <1>1, <1>2 DEF Cargo

\* The dues and the dollar commission the server charges.
ServerDues(r, s) == Round(NetTonnage * ServerRate(r, s), Mills)
ServerUsd(r, s) == Round(ServerDues(r, s) * s.commission, Whole)

\* What the server charges.
LEMMA IssueFields ==
  ASSUME NEW r, NEW s
  PROVE  /\ Issue(r, s).rate = ServerRate(r, s) /\ Issue(r, s).dues = ServerDues(r, s)
         /\ Issue(r, s).usd = ServerUsd(r, s)
  <1> DEFINE n == ServerUsd(r, s) * s.exchange
  <1>1. Issue(r, s) = [issued |-> TRUE, rate |-> ServerRate(r, s), dues |-> ServerDues(r, s),
                       usd |-> ServerUsd(r, s), ngn |-> n]
    BY Zenon DEF Issue, ServerUsd, ServerDues
  <1> HIDE DEF n
  <1> QED BY <1>1

\* The server charges whole cents.
LEMMA ServerFigures ==
  ASSUME NEW i, NEW s \in SettingsSet, i.cargo \in Cargo
  PROVE  /\ NetTonnage * ServerRate(i, s) \in Nat /\ ServerDues(i, s) \in Nat
         /\ ServerDues(i, s) * s.commission \in Nat /\ ServerUsd(i, s) \in Nat
  <1>1. NetTonnage * ServerRate(i, s) \in Nat BY ServerRateType, WizardAssumption
  <1>2. ServerDues(i, s) \in Nat BY <1>1, RoundType DEF ServerDues
  <1>3. ServerDues(i, s) * s.commission \in Nat BY <1>2, SettingsFigures
  <1>4. ServerUsd(i, s) \in Nat BY <1>3, RoundType DEF ServerUsd
  <1> QED BY <1>1, <1>2, <1>3, <1>4

\* What is issued is an invoice (finalize_inspection).
LEMMA IssueSound ==
  ASSUME NEW i, NEW s \in SettingsSet, i.cargo \in Cargo
  PROVE  Issue(i, s) \in Issuable /\ Issue(i, s).issued
  <1> DEFINE rate == ServerRate(i, s)
             dues == ServerDues(i, s)
             usd == ServerUsd(i, s)
  <1>1. rate \in Nat BY ServerRateType
  <1>2. dues \in Nat /\ usd \in Nat BY ServerFigures
  <1>3. usd * s.exchange \in Nat BY <1>2, SettingsFigures
  <1>4. Issue(i, s) = [issued |-> TRUE, rate |-> rate, dues |-> dues, usd |-> usd,
                       ngn |-> usd * s.exchange]
    BY Zenon DEF Issue, ServerDues, ServerUsd
  <1> HIDE DEF rate, dues, usd
  <1> QED BY <1>1, <1>2, <1>3, <1>4 DEF Issuable

\* A form under review is one the server has a rate for (canReview, jettyOk).
LEMMA ReviewedIsChargeable ==
  ASSUME NEW w \in Form, w.cargo # "", CanReview(w)
  PROVE  JettyOf(w) \in Jetty /\ Chargeable(w.cargo, JettyOf(w))
  BY DEF CanReview, JettyOk, JettyOf, Chargeable, Jetty, Form, Cargo, JettyType, Category

\* The mapping of a jetty to a rate is the same on both sides.
LEMMA SameRate ==
  ASSUME NEW w \in Form, NEW s \in SettingsSet, w.cargo # "", CanReview(w),
         NEW r, r = [cargo |-> w.cargo, jetty |-> JettyOf(w)]
  PROVE  PreviewRate(w, s) = ServerRate(r, s)
  <1>0. PICK l : l = PreviewJetty(w) OBVIOUS
  <1>1. r.cargo = w.cargo /\ r.jetty = JettyOf(w) /\ PreviewRate(w, s) = RateForInspection(w.cargo, l, s)
    BY <1>0 DEF PreviewRate
  <1>2. CASE w.cargo = "Dry" BY <1>1, <1>2 DEF RateForInspection, ServerRate
  <1>3. CASE w.cargo = "Liquid"
    <2>1. JettyOf(w) = l BY <1>0, <1>3 DEF JettyOf, PreviewJetty
    <2>2. l.type = w.jetty /\ (w.jetty = "Local" => l.category = w.category)
      BY <1>0 DEF PreviewJetty
    <2>3. \A k : [type |-> "Local", category |-> k].type = "Local" OBVIOUS
    <2>4. CASE w.jetty = "International"
      <3>1. \A k : l # [type |-> "Local", category |-> k] BY <2>2, <2>3, <2>4
      <3>2. RateForInspection(w.cargo, l, s) = s.international
        BY <1>3, <2>2, <2>4 DEF RateForInspection
      <3>3. ServerRate(r, s) = s.international BY <1>1, <1>3, <2>1, <2>2, <2>4, <3>1 DEF ServerRate
      <3> QED BY <1>1, <3>2, <3>3
    <2>5. CASE w.jetty = "Local" /\ w.category = "Government"
      <3>1. l = [type |-> "Local", category |-> "Government"] BY <1>0, <2>5 DEF PreviewJetty
      <3> QED BY <1>1, <1>3, <2>1, <2>2, <2>5, <3>1 DEF RateForInspection, ServerRate
    <2>6. CASE w.jetty = "Local" /\ w.category = "Private"
      <3>1. l = [type |-> "Local", category |-> "Private"] BY <1>0, <2>6 DEF PreviewJetty
      <3> QED BY <1>1, <1>3, <2>1, <2>2, <2>6, <3>1 DEF RateForInspection, ServerRate
    <2> QED BY <1>3, <2>4, <2>5, <2>6 DEF CanReview, JettyOk, Form, Category
  <1> QED BY <1>2, <1>3 DEF Form, Cargo

\* The preview of a form under review is what the server would charge for it: the rate is
\* the same on both sides, and the rounding differs at half a cent only.
LEMMA PreviewMirrorsServer ==
  ASSUME NEW w \in Form, NEW s \in SettingsSet, w.cargo # "", CanReview(w),
         NEW r, r = [cargo |-> w.cargo, jetty |-> JettyOf(w)], NEW p \in CalcPreview(w, s)
  PROVE  /\ Mirrors(p.dues, ServerDues(r, s), NetTonnage * ServerRate(r, s), Mills)
         /\ p.dues = ServerDues(r, s) =>
              Mirrors(p.usd, ServerUsd(r, s), ServerDues(r, s) * s.commission, Whole)
  <1>1. PreviewRate(w, s) = ServerRate(r, s) BY SameRate
  <1>2. r.cargo \in Cargo BY DEF Form
  <1>3. /\ NetTonnage * ServerRate(r, s) \in Nat /\ ServerDues(r, s) \in Nat
        /\ ServerDues(r, s) * s.commission \in Nat /\ ServerUsd(r, s) \in Nat
    BY <1>2, ServerFigures
  <1>4. p.dues \in DoubleRound(NetTonnage * ServerRate(r, s), Mills)
    BY <1>1, CalcPreviewFields, Zenon
  <1>5. p.usd \in DoubleRound(p.dues * s.commission, Whole) BY CalcPreviewFields, Zenon
  <1>6. Mirrors(p.dues, ServerDues(r, s), NetTonnage * ServerRate(r, s), Mills)
    BY <1>3, <1>4, DoubleRoundMirrors, Zenon DEF ServerDues
  <1>7. ASSUME p.dues = ServerDues(r, s)
        PROVE  Mirrors(p.usd, ServerUsd(r, s), ServerDues(r, s) * s.commission, Whole)
    <2>1. p.usd \in DoubleRound(ServerDues(r, s) * s.commission, Whole) BY <1>5, <1>7, Zenon
    <2> QED BY <1>3, <2>1, DoubleRoundMirrors, Zenon DEF ServerUsd
  <1> QED BY <1>6, <1>7

-----------------------------------------------------------------------------
(* Capture wizard: steps                                                     *)

\* The initial states satisfy the invariant.
LEMMA WizardInitial == WizardInit => WizardInv
  <1> SUFFICES ASSUME WizardInit PROVE WizardInv
    OBVIOUS
  <1>1. BlankForm \in Form
    BY WizardAssumption DEF BlankForm, Form, Tons, JettyType, Category
  <1>2. WizardTypes
    BY <1>1 DEF WizardInit, WizardTypes, NoResult, Result
  <1>3. StepsTaken(wizard)
    <2>1. wizard.step = 0 BY DEF WizardInit, BlankForm
    <2> QED BY <2>1 DEF StepsTaken
  <1>4. FlightSound BY Zenon DEF WizardInit, FlightSound, NoFlight
  <1>5. CaptureEnds
    BY DEF WizardInit, CaptureEnds, NoInvoice, NoInspection
  <1>6. ResultSound BY Zenon DEF WizardInit, ResultSound, NoResult
  <1> QED BY <1>2, <1>3, <1>4, <1>5, <1>6 DEF WizardInv

NothingSent == ~flight.sent
Closed(w) == ~w.on

\* A change of the form alone, while no request is out, keeps the invariant if the new
\* form has taken its steps in order.
LEMMA FillKeeps ==
  ASSUME WizardInv, NEW w \in Form, Fill(w), NothingSent,
         ins.status # "completed" \/ Closed(w), StepsTaken(w)
  PROVE  WizardInv'
  <1> USE DEF Fill, others
  <1>1. WizardTypes' BY DEF WizardInv, WizardTypes
  <1>2. StepsTaken(wizard)' BY DEF StepsTaken, CanReview, Reconciled, JettyOk
  <1>3. FlightSound' BY DEF FlightSound, NothingSent
  <1>4. CaptureEnds' BY DEF WizardInv, CaptureEnds, Closed, Chargeable
  <1>5. ResultSound' BY DEF WizardInv, ResultSound
  <1> QED BY <1>1, <1>2, <1>3, <1>4, <1>5 DEF WizardInv

\* While the form is being filled in its inspection is not complete.
LEMMA FillingIncomplete ==
  ASSUME WizardInv, Filling
  PROVE  ins.status # "completed" /\ wizard \in Form /\ StepsTaken(wizard)
  BY DEF WizardInv, Filling, CaptureEnds, WizardTypes

\* Forms can be left blank.
LEMMA BlankIsForm ==
  BlankForm \in Form /\ Closed(BlankForm) /\ StepsTaken(BlankForm)
  <1>1. BlankForm \in Form
    BY WizardAssumption DEF BlankForm, Form, Tons, JettyType, Category
  <1>2. Closed(BlankForm) BY Zenon DEF Closed, BlankForm
  <1>3. StepsTaken(BlankForm) BY DEF StepsTaken, BlankForm
  <1> QED BY <1>1, <1>2, <1>3

\* Opening a capture keeps the invariant.
LEMMA OpenKeeps ==
  ASSUME WizardInv, NEW linked \in BOOLEAN, Open(linked)
  PROVE  WizardInv'
  <1> DEFINE w == [BlankForm EXCEPT !.on = TRUE, !.call = linked]
  <1>0. w \in Form /\ w.step = 0
    BY BlankIsForm DEF Form, BlankForm
  <1>2. Fill(w) /\ NothingSent /\ ins.status = "absent"
    BY DEF Open, WizardInv, FlightSound, NothingSent
  <1> HIDE DEF w
  <1>1. StepsTaken(w) BY <1>0 DEF StepsTaken
  <1> QED BY <1>0, <1>1, <1>2, FillKeeps

\* Resuming a draft keeps the invariant: a stored draft has a cargo.
LEMMA ResumeKeeps ==
  ASSUME WizardInv, Resume
  PROVE  WizardInv'
  <1>1. ins \in Inspection
    BY DEF Resume, WizardInv, WizardTypes, NoInspection
  <1>2. ins.form \in Form /\ ins.cargo \in Cargo /\ ins.jetty \in Jetty
    BY <1>1 DEF Inspection
  <1>3. /\ ins.form.tonnage \in Tons /\ ins.form.before \in Tons /\ ins.form.after \in Tons
        /\ ins.form.deductibles \in Tons /\ ins.form.constant \in Tons
        /\ ins.jetty.type \in JettyType /\ ins.jetty.category \in Category
    BY <1>2 DEF Form, Jetty
  <1>4. Restore(ins) \in Form /\ Restore(ins).cargo = ins.cargo
    BY <1>2, <1>3, BlankIsForm DEF Restore, Form
  <1> DEFINE w == [Restore(ins) EXCEPT !.on = TRUE, !.step = 1, !.call = TRUE]
  <1>5. w \in Form /\ w.call = TRUE /\ w.cargo # ""
    BY <1>2, <1>4 DEF Form, Cargo
  <1>8. w.step = 1
    BY <1>4 DEF Form
  <1>7. Fill(w) /\ NothingSent /\ ins.status = "draft"
    BY DEF Resume, WizardInv, FlightSound, NothingSent
  <1> HIDE DEF w
  <1>s. w.step # 2 BY <1>8
  <1>6. StepsTaken(w) BY <1>5, <1>s, Zenon DEF StepsTaken
  <1> QED BY <1>5, <1>6, <1>7, FillKeeps

\* A form that has passed the first step keeps what it chose there.
LEMMA StepsKept ==
  ASSUME NEW v, NEW w, StepsTaken(v), v.step # 0,
         w.call = v.call, w.cargo = v.cargo, w.step # 2 \/ CanReview(w)
  PROVE  StepsTaken(w)
  BY DEF StepsTaken

\* A step through the form.
FillingStep ==
  \/ PickCall \/ Continue \/ Review \/ Back \/ Discard
  \/ \E c \in Cargo : PickCargo(c)
  \/ \E t \in Tons, j \in JettyType, k \in Category : EnterLiquid(t, j, k)
  \/ \E t \in Tons, f \in {"before", "after", "deductibles", "constant"} : EnterDry(f, t)

\* The steps through the form keep the invariant.
LEMMA FillingKeeps ==
  ASSUME WizardInv, FillingStep
  PROVE  WizardInv'
  <1>f. Filling
    BY DEF FillingStep, PickCall, Continue, Review, Back, Discard, PickCargo, EnterLiquid, EnterDry
  <1>g. NothingSent /\ ins.status # "completed" /\ wizard \in Form /\ StepsTaken(wizard)
    BY <1>f, FillingIncomplete DEF Filling, NothingSent
  <1>1. CASE PickCall
    <2> DEFINE w == [wizard EXCEPT !.call = TRUE]
    <2>0. w \in Form /\ w.step = 0 BY <1>1, <1>g DEF PickCall, Form
    <2>2. Fill(w) BY <1>1 DEF PickCall
    <2> HIDE DEF w
    <2>1. w \in Form /\ StepsTaken(w) BY <2>0 DEF StepsTaken
    <2> QED BY <1>g, <2>1, <2>2, FillKeeps
  <1>2. CASE Continue
    <2> DEFINE w == [wizard EXCEPT !.step = 1]
    <2>1. w \in Form /\ w.step = 1 /\ w.call = wizard.call /\ w.cargo = wizard.cargo
      BY <1>g DEF Form
    <2>2. Fill(w) /\ wizard.cargo # "" BY <1>2 DEF Continue
    <2>c. wizard.call = TRUE
      <3>1. wizard.call \in BOOLEAN BY <1>g DEF Form
      <3>2. wizard.call BY <1>2 DEF Continue
      <3> QED BY <3>1, <3>2, Zenon
    <2> HIDE DEF w
    <2>s. w.step # 2 BY <2>1
    <2>3. StepsTaken(w) BY <2>1, <2>2, <2>c, <2>s, Zenon DEF StepsTaken
    <2> QED BY <1>g, <2>1, <2>2, <2>3, FillKeeps
  <1>3. CASE Review
    <2> DEFINE w == [wizard EXCEPT !.step = 2]
    <2>1. w \in Form /\ w.call = wizard.call /\ w.cargo = wizard.cargo BY <1>g DEF Form
    <2>2. CanReview(w)
      <3>1. CanReview(wizard) BY <1>3 DEF Review
      <3>2. /\ w.cargo = wizard.cargo /\ w.tonnage = wizard.tonnage /\ w.jetty = wizard.jetty
            /\ w.category = wizard.category /\ w.before = wizard.before /\ w.after = wizard.after
            /\ w.deductibles = wizard.deductibles /\ w.constant = wizard.constant
        BY <1>g DEF Form
      <3> HIDE DEF w
      <3> QED BY <3>1, <3>2 DEF CanReview, Reconciled, JettyOk
    <2>3. Fill(w) /\ wizard.step # 0 BY <1>3 DEF Review
    <2> HIDE DEF w
    <2>4. StepsTaken(w) BY <1>g, <2>1, <2>2, <2>3, StepsKept
    <2> QED BY <1>g, <2>1, <2>3, <2>4, FillKeeps
  <1>4. CASE Back
    <2>1. CASE wizard.step = 0
      <3>1. Fill(BlankForm) BY <1>4, <2>1 DEF Back
      <3> QED BY <1>g, <3>1, BlankIsForm, FillKeeps
    <2>2. CASE wizard.step # 0
      <3> DEFINE w == [wizard EXCEPT !.step = @ - 1]
      <3>0. wizard.step \in {0, 1, 2} BY <1>g DEF Form
      <3>1. wizard.step - 1 \in {0, 1} BY <2>2, <3>0
      <3>2. w \in Form /\ w.call = wizard.call /\ w.cargo = wizard.cargo
        BY <1>g, <3>1 DEF Form
      <3>4. w.step = wizard.step - 1 BY <1>g DEF Form
      <3>3. Fill(w) BY <1>4, <2>2 DEF Back
      <3> HIDE DEF w
      <3>5. w.step # 2 BY <3>1, <3>4
      <3>6. StepsTaken(w) BY <1>g, <2>2, <3>2, <3>5, StepsKept
      <3> QED BY <1>g, <3>2, <3>3, <3>6, FillKeeps
    <2> QED BY <2>1, <2>2
  <1>5. CASE Discard
    <2>1. Fill(BlankForm) BY <1>5 DEF Discard
    <2> QED BY <1>g, <2>1, BlankIsForm, FillKeeps
  <1>6. ASSUME NEW c \in Cargo, PickCargo(c) PROVE WizardInv'
    <2> DEFINE w == [wizard EXCEPT !.cargo = c]
    <2>0. w \in Form /\ w.step = 0 BY <1>6, <1>g DEF PickCargo, Form
    <2>2. Fill(w) BY <1>6 DEF PickCargo
    <2> HIDE DEF w
    <2>1. w \in Form /\ StepsTaken(w) BY <2>0 DEF StepsTaken
    <2> QED BY <1>g, <2>1, <2>2, FillKeeps
  <1>7. ASSUME NEW t \in Tons, NEW j \in JettyType, NEW k \in Category, EnterLiquid(t, j, k)
        PROVE  WizardInv'
    <2>0. wizard.step = 1 BY <1>7 DEF EnterLiquid
    <2>1. CASE Fill([wizard EXCEPT !.tonnage = t])
      <3> DEFINE w == [wizard EXCEPT !.tonnage = t]
      <3>1. w \in Form /\ w.step = 1 /\ w.call = wizard.call /\ w.cargo = wizard.cargo
        BY <1>g, <2>0 DEF Form
      <3>2. Fill(w) BY <2>1
      <3> HIDE DEF w
      <3>3. StepsTaken(w) BY <1>g, <2>0, <3>1, StepsKept
      <3> QED BY <1>g, <3>1, <3>2, <3>3, FillKeeps
    <2>2. CASE Fill([wizard EXCEPT !.jetty = j, !.category = IF j = "Local" THEN @ ELSE ""])
      <3> DEFINE w == [wizard EXCEPT !.jetty = j, !.category = IF j = "Local" THEN @ ELSE ""]
      <3>1. "" \in Category BY DEF Category
      <3>2. w \in Form /\ w.step = 1 /\ w.call = wizard.call /\ w.cargo = wizard.cargo
        BY <1>g, <2>0, <3>1 DEF Form
      <3>3. Fill(w) BY <2>2
      <3> HIDE DEF w
      <3>4. StepsTaken(w) BY <1>g, <2>0, <3>2, StepsKept
      <3> QED BY <1>g, <3>2, <3>3, <3>4, FillKeeps
    <2>3. CASE Fill([wizard EXCEPT !.category = k])
      <3> DEFINE w == [wizard EXCEPT !.category = k]
      <3>1. w \in Form /\ w.step = 1 /\ w.call = wizard.call /\ w.cargo = wizard.cargo
        BY <1>g, <2>0 DEF Form
      <3>2. Fill(w) BY <2>3
      <3> HIDE DEF w
      <3>3. StepsTaken(w) BY <1>g, <2>0, <3>1, StepsKept
      <3> QED BY <1>g, <3>1, <3>2, <3>3, FillKeeps
    <2> QED BY <1>7, <2>1, <2>2, <2>3 DEF EnterLiquid
  <1>8. ASSUME NEW t \in Tons, NEW f \in {"before", "after", "deductibles", "constant"}, EnterDry(f, t)
        PROVE  WizardInv'
    <2> DEFINE w == [wizard EXCEPT ![f] = t]
    <2>1. wizard.step = 1 BY <1>8 DEF EnterDry
    <2>2. w \in Form /\ w.step = 1 /\ w.call = wizard.call /\ w.cargo = wizard.cargo
      BY <1>g, <2>1 DEF Form
    <2>3. Fill(w) BY <1>8 DEF EnterDry
    <2> HIDE DEF w
    <2>4. StepsTaken(w) BY <1>g, <2>1, <2>2, StepsKept
    <2> QED BY <1>g, <2>2, <2>3, <2>4, FillKeeps
  <1> QED BY <1>1, <1>2, <1>3, <1>4, <1>5, <1>6, <1>7, <1>8 DEF FillingStep

\* A form at its last step has a cargo and can be reviewed.
LEMMA AtReview ==
  ASSUME NEW w, StepsTaken(w), w.step = 2
  PROVE  w.cargo # "" /\ CanReview(w)
  <1>1. w.step # 0 OBVIOUS
  <1> QED BY <1>1, Zenon DEF StepsTaken

\* Submitting a form under review keeps the invariant: what is sent can be charged.
LEMMA SubmitKeeps ==
  ASSUME WizardInv, NEW asDraft \in BOOLEAN, SubmitInspection(asDraft)
  PROVE  WizardInv'
  <1>1. Filling /\ wizard.step = 2 BY DEF SubmitInspection
  <1>2. wizard \in Form /\ wizard.cargo # "" /\ CanReview(wizard)
    BY <1>1, FillingIncomplete, AtReview
  <1>3. JettyOf(wizard) \in Jetty /\ Chargeable(wizard.cargo, JettyOf(wizard))
    BY <1>2, ReviewedIsChargeable
  <1>4. wizard.cargo \in Cargo BY <1>2 DEF Form
  <1>5. Reconciled(wizard) \in Int /\ Reconciled(wizard) > 0
    BY <1>2, ReconciledType DEF CanReview
  <1>p. PICK shown \in CalcPreview(wizard, seen) :
          flight' = [sent |-> TRUE, asDraft |-> asDraft, cargo |-> wizard.cargo,
                     jetty |-> JettyOf(wizard), form |-> wizard,
                     reconciled |-> IF asDraft /\ screen # "mobile" THEN 0 ELSE Reconciled(wizard),
                     preview |-> shown]
    BY Zenon DEF SubmitInspection
  <1> DEFINE tons == IF asDraft /\ screen # "mobile" THEN 0 ELSE Reconciled(wizard)
             f == [sent |-> TRUE, asDraft |-> asDraft, cargo |-> wizard.cargo,
                   jetty |-> JettyOf(wizard), form |-> wizard,
                   reconciled |-> tons, preview |-> shown]
  <1>6. flight' = f BY <1>p
  <1>7. shown \in [dues : Int, usd : Int, ngn : Int]
    BY <1>p, CalcPreviewType DEF WizardInv, WizardTypes
  <1>8. tons \in Int /\ (~asDraft => tons > 0)
    BY <1>5
  <1>9. /\ f.sent = TRUE /\ f.asDraft = asDraft /\ f.cargo = wizard.cargo
        /\ f.jetty = JettyOf(wizard) /\ f.reconciled = tons
    OBVIOUS
  <1> HIDE DEF tons
  <1>10. f \in Flight BY <1>2, <1>3, <1>4, <1>7, <1>8 DEF Flight
  <1> HIDE DEF f
  <1>11. UNCHANGED <<settings, open, seen, seenOpen, wizard, result, ins, invoice, screen>>
    BY DEF SubmitInspection
  <1>12. WizardTypes' BY <1>6, <1>10, <1>11 DEF WizardInv, WizardTypes
  <1>13. StepsTaken(wizard)'
    BY <1>11 DEF WizardInv, StepsTaken, CanReview, Reconciled, JettyOk
  <1>14. FlightSound'
    <2>1. Chargeable(flight.cargo, flight.jetty)' BY <1>3, <1>6, <1>9 DEF Chargeable
    <2>2. ~flight'.asDraft => flight'.reconciled > 0 BY <1>6, <1>8, <1>9
    <2>3. wizard'.on /\ ~result'.shown BY <1>1, <1>11 DEF Filling
    <2> QED BY <2>1, <2>2, <2>3 DEF FlightSound
  <1>15. CaptureEnds' BY <1>11 DEF WizardInv, CaptureEnds, Chargeable
  <1>16. ResultSound' BY <1>11 DEF WizardInv, ResultSound
  <1> QED BY <1>12, <1>13, <1>14, <1>15, <1>16 DEF WizardInv

\* What is stored of a request is an inspection, with the request's figures.
LEMMA StoredSound ==
  ASSUME WizardInv, flight.sent
  PROVE  /\ flight \in Flight /\ Stored \in Inspection
         /\ Stored.cargo = flight.cargo /\ Stored.jetty = flight.jetty
         /\ Stored.reconciled = flight.reconciled
         /\ Stored.status = IF flight.asDraft THEN "draft" ELSE "completed"
  <1>1. flight \in Flight BY DEF WizardInv, WizardTypes, NoFlight
  <1>2. flight.form \in Form /\ flight.cargo \in Cargo /\ flight.jetty \in Jetty
        /\ flight.reconciled \in Int
    BY <1>1 DEF Flight
  <1> DEFINE old == IF ins.status = "draft" THEN ins.form ELSE BlankForm
  <1>3. old \in Form
    <2>1. CASE ins = NoInspection BY <2>1, BlankIsForm DEF NoInspection
    <2>2. CASE ins \in Inspection BY <2>2, BlankIsForm DEF Inspection
    <2> QED BY <2>1, <2>2 DEF WizardInv, WizardTypes
  <1> HIDE DEF old
  <1>4. StoredForm \in Form
    <2>1. CASE flight.cargo = "Liquid"
      <3>1. StoredForm = [old EXCEPT !.tonnage = flight.form.tonnage]
        BY <2>1 DEF StoredForm, old
      <3> QED BY <1>2, <1>3, <3>1 DEF Form
    <2>2. CASE flight.cargo # "Liquid"
      <3>1. StoredForm = [old EXCEPT !.before = flight.form.before, !.after = flight.form.after,
                                     !.deductibles = flight.form.deductibles,
                                     !.constant = flight.form.constant]
        BY <2>2 DEF StoredForm, old
      <3>2. /\ flight.form.before \in Tons /\ flight.form.after \in Tons
            /\ flight.form.deductibles \in Tons /\ flight.form.constant \in Tons
        BY <1>2 DEF Form
      <3> QED BY <1>3, <3>1, <3>2 DEF Form
    <2> QED BY <2>1, <2>2
  <1>5. Stored \in Inspection BY <1>2, <1>4 DEF Stored, Inspection
  <1>6. /\ Stored.cargo = flight.cargo /\ Stored.jetty = flight.jetty
        /\ Stored.reconciled = flight.reconciled
        /\ Stored.status = IF flight.asDraft THEN "draft" ELSE "completed"
    BY DEF Stored
  <1> QED BY <1>1, <1>5, <1>6

\* The answer of the server keeps the invariant, for a draft, for a complete inspection
\* and when the call is no longer open.
LEMMA AnswerKeeps ==
  ASSUME WizardInv, Answer
  PROVE  WizardInv'
  <1>1. flight.sent /\ flight' = NoFlight BY DEF Answer
  <1>2. UNCHANGED <<settings, open, seen, seenOpen, spent, screen>> BY DEF Answer
  <1>3. flight \in Flight /\ Stored \in Inspection BY <1>1, StoredSound
  <1>4. FlightSound' BY <1>1, Zenon DEF FlightSound, NoFlight
  <1>5. CASE ~Accepted
    <2>1. UNCHANGED <<ins, invoice, wizard, result>> BY <1>5 DEF Answer
    <2>2. WizardTypes' BY <1>1, <1>2, <2>1 DEF WizardInv, WizardTypes
    <2>3. StepsTaken(wizard)' BY <2>1 DEF WizardInv, StepsTaken, CanReview, Reconciled, JettyOk
    <2>4. CaptureEnds' BY <2>1 DEF WizardInv, CaptureEnds, Chargeable
    <2>5. ResultSound' BY <1>2, <2>1 DEF WizardInv, ResultSound
    <2> QED BY <1>4, <2>2, <2>3, <2>4, <2>5 DEF WizardInv
  <1>6. CASE Accepted /\ flight.asDraft
    <2>1. ins' = Stored /\ UNCHANGED <<invoice, result>> /\ wizard' = BlankForm
      BY <1>6 DEF Answer, Succeed
    <2>2. ins'.status = "draft" BY <1>1, <1>6, <2>1, StoredSound
    <2>3. WizardTypes' BY <1>1, <1>2, <1>3, <2>1, BlankIsForm DEF WizardInv, WizardTypes
    <2>4. StepsTaken(wizard)'
      <3>1. wizard'.step = 0 BY <2>1 DEF BlankForm
      <3> QED BY <3>1 DEF StepsTaken
    <2>5. ins.status # "completed" /\ ~result.shown
      BY <1>1 DEF WizardInv, FlightSound, CaptureEnds
    <2>6. CaptureEnds' BY <2>1, <2>2, <2>5 DEF WizardInv, CaptureEnds, Chargeable
    <2>7. ResultSound' BY <2>1, <2>5 DEF ResultSound
    <2> QED BY <1>4, <2>3, <2>4, <2>6, <2>7 DEF WizardInv
  <1>7. CASE Accepted /\ ~flight.asDraft
    <2>1. ins' = Stored /\ invoice' = Issue(Stored, settings) /\ wizard' = wizard
      BY <1>7 DEF Answer, Succeed
    <2>2. result' = [shown |-> TRUE, queued |-> FALSE,
                     dues |-> Confirmed(invoice').dues, usd |-> Confirmed(invoice').usd]
      BY <1>7 DEF Answer, Succeed
    <2>3. Stored.jetty \in Jetty /\ Chargeable(Stored.cargo, Stored.jetty)
      BY <1>1, <1>3, StoredSound DEF WizardInv, FlightSound, Inspection
    <2>4. Issue(Stored, settings) \in Issuable /\ Issue(Stored, settings).issued
      <3>1. Stored.cargo \in Cargo BY <1>3 DEF Inspection
      <3> QED BY <3>1, IssueSound DEF WizardInv, WizardTypes
    <2>5. Confirmed(invoice').dues \in Int /\ Confirmed(invoice').usd \in Int
      <3>1. flight.preview.dues \in Int /\ flight.preview.usd \in Int BY <1>3 DEF Flight
      <3>2. invoice'.dues \in Int /\ invoice'.usd \in Int BY <2>1, <2>4 DEF Issuable
      <3> QED BY <3>1, <3>2 DEF Confirmed
    <2>6. result' \in Result /\ result'.shown = TRUE BY <2>2, <2>5 DEF Result
    <2>7. WizardTypes' BY <1>1, <1>2, <1>3, <2>1, <2>4, <2>6 DEF WizardInv, WizardTypes
    <2>8. StepsTaken(wizard)' BY <2>1 DEF WizardInv, StepsTaken, CanReview, Reconciled, JettyOk
    <2>9. ins'.status = "completed" /\ ins'.reconciled > 0
      BY <1>1, <1>7, <2>1, StoredSound DEF WizardInv, FlightSound
    <2>10. CaptureEnds'
      <3>1. result'.shown BY <2>6
      <3>2. Chargeable(ins.cargo, ins.jetty)' BY <2>1, <2>3 DEF Chargeable
      <3> QED BY <2>9, <3>1, <3>2 DEF CaptureEnds
    <2>11. ResultSound'
      <3>1. SUFFICES ASSUME screen' = "desktop"
                     PROVE  result'.dues = invoice'.dues /\ result'.usd = invoice'.usd
        BY <2>9 DEF ResultSound
      <3>2. screen = "desktop" BY <1>2, <3>1
      <3>3. invoice'.issued BY <2>1, <2>4
      <3>4. Confirmed(invoice') = [dues |-> invoice'.dues, usd |-> invoice'.usd]
        BY <3>2, <3>3 DEF Confirmed
      <3> QED BY <2>2, <3>4
    <2> QED BY <1>4, <2>7, <2>8, <2>10, <2>11 DEF WizardInv
  <1> QED BY <1>5, <1>6, <1>7

\* A capture that cannot be sent keeps the invariant: it is queued, or still in the form.
LEMMA OfflineKeeps ==
  ASSUME WizardInv, Offline
  PROVE  WizardInv'
  <1>1. flight.sent /\ flight' = NoFlight /\ UNCHANGED others BY DEF Offline
  <1>2. flight \in Flight BY <1>1, StoredSound
  <1>3. FlightSound' BY <1>1, Zenon DEF FlightSound, NoFlight
  <1>4. ins.status # "completed" /\ ~result.shown
    BY <1>1 DEF WizardInv, FlightSound, CaptureEnds
  <1>5. CaptureEnds' BY <1>1, <1>4 DEF WizardInv, CaptureEnds, others
  <1>6. CASE UNCHANGED <<wizard, result>>
    <2>1. WizardTypes' BY <1>1, <1>6 DEF WizardInv, WizardTypes, others
    <2>2. StepsTaken(wizard)' BY <1>6 DEF WizardInv, StepsTaken, CanReview, Reconciled, JettyOk
    <2>3. ResultSound' BY <1>1, <1>6 DEF WizardInv, ResultSound, others
    <2> QED BY <1>3, <1>5, <2>1, <2>2, <2>3 DEF WizardInv
  <1>7. CASE wizard' = BlankForm /\ UNCHANGED result
    <2>1. WizardTypes' BY <1>1, <1>7, BlankIsForm DEF WizardInv, WizardTypes, others
    <2>2. StepsTaken(wizard)'
      <3>1. wizard'.step = 0 BY <1>7 DEF BlankForm
      <3> QED BY <3>1 DEF StepsTaken
    <2>3. ResultSound' BY <1>1, <1>7 DEF WizardInv, ResultSound, others
    <2> QED BY <1>3, <1>5, <2>1, <2>2, <2>3 DEF WizardInv
  <1>8. CASE /\ UNCHANGED wizard
             /\ result' = [shown |-> TRUE, queued |-> TRUE,
                           dues |-> Confirmed(NoInvoice).dues, usd |-> Confirmed(NoInvoice).usd]
    <2>1. Confirmed(NoInvoice) = [dues |-> flight.preview.dues, usd |-> flight.preview.usd]
      BY DEF Confirmed, NoInvoice
    <2>2. flight.preview.dues \in Int /\ flight.preview.usd \in Int BY <1>2 DEF Flight
    <2>3. result' \in Result /\ result'.queued BY <1>8, <2>1, <2>2 DEF Result
    <2>4. WizardTypes' BY <1>1, <1>8, <2>3 DEF WizardInv, WizardTypes, others
    <2>5. StepsTaken(wizard)' BY <1>8 DEF WizardInv, StepsTaken, CanReview, Reconciled, JettyOk
    <2>6. ResultSound' BY <2>3, Zenon DEF ResultSound
    <2> QED BY <1>3, <1>5, <2>4, <2>5, <2>6 DEF WizardInv
  <1> QED BY <1>6, <1>7, <1>8 DEF Offline, Succeed

\* Leaving the success screen keeps the invariant.
LEMMA DoneKeeps ==
  ASSUME WizardInv, Done
  PROVE  WizardInv'
  <1>1. result.shown /\ wizard' = BlankForm /\ result' = NoResult /\ UNCHANGED <<flight, others>>
    BY DEF Done
  <1>2. WizardTypes' BY <1>1, BlankIsForm DEF WizardInv, WizardTypes, others, NoResult, Result
  <1>3. StepsTaken(wizard)'
    <2>1. wizard'.step = 0 BY <1>1 DEF BlankForm
    <2> QED BY <2>1 DEF StepsTaken
  <1>4. FlightSound' BY <1>1 DEF WizardInv, FlightSound, others
  <1>5. CaptureEnds' BY <1>1, BlankIsForm DEF WizardInv, CaptureEnds, others, Closed
  <1>6. ResultSound' BY <1>1, Zenon DEF ResultSound, NoResult
  <1> QED BY <1>2, <1>3, <1>4, <1>5, <1>6 DEF WizardInv

\* What other users change, and a poll, keep the invariant.
LEMMA OthersKeep ==
  ASSUME WizardInv, CallCancelled \/ Poll \/ \E s \in SettingsSet : ChangeSettings(s)
  PROVE  WizardInv'
  <1>1. UNCHANGED <<wizard, flight, result, ins, invoice, screen>>
    BY DEF CallCancelled, Poll, ChangeSettings
  <1>2. /\ settings' \in SettingsSet /\ seen' \in SettingsSet
        /\ open' \in BOOLEAN /\ seenOpen' \in BOOLEAN
    BY DEF WizardInv, WizardTypes, CallCancelled, Poll, ChangeSettings
  <1>3. WizardTypes' BY <1>1, <1>2 DEF WizardInv, WizardTypes
  <1>4. StepsTaken(wizard)' BY <1>1 DEF WizardInv, StepsTaken, CanReview, Reconciled, JettyOk
  <1>5. FlightSound' BY <1>1 DEF WizardInv, FlightSound, Chargeable
  <1>6. CaptureEnds' BY <1>1 DEF WizardInv, CaptureEnds, Chargeable
  <1>7. ResultSound' BY <1>1 DEF WizardInv, ResultSound
  <1> QED BY <1>3, <1>4, <1>5, <1>6, <1>7 DEF WizardInv

\* Every step of a capture keeps the invariant.
LEMMA WizardStep == WizardInv /\ [WizardNext]_wizardVars => WizardInv'
  <1> SUFFICES ASSUME WizardInv, [WizardNext]_wizardVars PROVE WizardInv'
    OBVIOUS
  <1>1. CASE UNCHANGED wizardVars
    <2> USE <1>1 DEF wizardVars
    <2>1. WizardTypes' BY DEF WizardInv, WizardTypes
    <2>2. StepsTaken(wizard)' BY DEF WizardInv, StepsTaken, CanReview, Reconciled, JettyOk
    <2>3. FlightSound' BY DEF WizardInv, FlightSound, Chargeable
    <2>4. CaptureEnds' BY DEF WizardInv, CaptureEnds, Chargeable
    <2>5. ResultSound' BY DEF WizardInv, ResultSound
    <2> QED BY <2>1, <2>2, <2>3, <2>4, <2>5 DEF WizardInv
  <1>2. CASE WizardNext
    <2>1. ASSUME NEW linked \in BOOLEAN, Open(linked) PROVE WizardInv' BY <2>1, OpenKeeps
    <2>2. CASE Resume BY <2>2, ResumeKeeps
    <2>3. CASE FillingStep BY <2>3, FillingKeeps
    <2>4. ASSUME NEW asDraft \in BOOLEAN, SubmitInspection(asDraft) PROVE WizardInv'
      BY <2>4, SubmitKeeps
    <2>5. CASE Answer BY <2>5, AnswerKeeps
    <2>6. CASE Offline BY <2>6, OfflineKeeps
    <2>7. CASE Done BY <2>7, DoneKeeps
    <2>8. CASE CallCancelled \/ Poll \/ \E s \in SettingsSet : ChangeSettings(s)
      BY <2>8, OthersKeep
    <2> QED BY <1>2, <2>1, <2>2, <2>3, <2>4, <2>5, <2>6, <2>7, <2>8 DEF WizardNext, FillingStep
  <1> QED BY <1>1, <1>2

\* The invariant gives the type invariant of the forms.
LEMMA WizardTyped == WizardInv => WizardTypeOK
  <1> SUFFICES ASSUME WizardInv PROVE WizardTypeOK
    OBVIOUS
  <1>1. wizard \in Form /\ StepsTaken(wizard) BY DEF WizardInv, WizardTypes
  <1>2. wizard.step \in 0..2
    <2>1. wizard.step \in {0, 1, 2} BY <1>1 DEF Form
    <2> QED BY <2>1
  <1>3. /\ wizard.cargo \in Cargo \cup {""}
        /\ wizard.jetty \in JettyType /\ wizard.category \in Category
        /\ {wizard.tonnage, wizard.before, wizard.after, wizard.deductibles, wizard.constant} \subseteq Tons
    BY <1>1 DEF Form
  <1>4. wizard.step = 2 => wizard.call /\ CanReview(wizard)
    <2>1. wizard.step = 2 => wizard.step # 0 OBVIOUS
    <2> QED BY <1>1, <2>1 DEF StepsTaken
  <1> QED BY <1>2, <1>3, <1>4 DEF WizardTypeOK, WizardInv, WizardTypes

\* The invariant makes the figures of the screens and of the server agree.
LEMMA FiguresFollow == WizardInv => FiguresAgree
  <1> SUFFICES ASSUME WizardInv PROVE FiguresAgree
    OBVIOUS
  <1>1. invoice.issued => Rated(ins) /\ ins.reconciled > 0
    BY DEF WizardInv, CaptureEnds, Chargeable, Rated
  <1>2. screen = "desktop" /\ result.shown /\ ~result.queued =>
          result.dues = invoice.dues /\ result.usd = invoice.usd
    BY DEF WizardInv, ResultSound
  <1> DEFINE r == [cargo |-> wizard.cargo, jetty |-> JettyOf(wizard)]
             i == Issue(r, settings)
  <1>3. ASSUME wizard.step = 2, seen = settings, NEW p \in CalcPreview(wizard, seen)
        PROVE  /\ Mirrors(p.dues, i.dues, NetTonnage * i.rate, Mills)
               /\ p.dues = i.dues => Mirrors(p.usd, i.usd, i.dues * settings.commission, Whole)
    <2>1. wizard \in Form /\ settings \in SettingsSet /\ wizard.cargo # "" /\ CanReview(wizard)
      BY <1>3, AtReview DEF WizardInv, WizardTypes
    <2>2. p \in CalcPreview(wizard, settings) BY <1>3
    <2>3. i.rate = ServerRate(r, settings) /\ i.dues = ServerDues(r, settings)
          /\ i.usd = ServerUsd(r, settings)
      BY IssueFields
    <2>4. PICK q : q = r OBVIOUS
    <2>5. /\ Mirrors(p.dues, ServerDues(q, settings), NetTonnage * ServerRate(q, settings), Mills)
          /\ p.dues = ServerDues(q, settings) =>
               Mirrors(p.usd, ServerUsd(q, settings), ServerDues(q, settings) * settings.commission, Whole)
      BY <2>1, <2>2, <2>4, PreviewMirrorsServer, Zenon
    <2> QED BY <2>3, <2>4, <2>5
  <1> QED BY <1>1, <1>2, <1>3 DEF FiguresAgree

\* Whatever way through the steps led to a submission, the server knows a rate for it; the
\* preview of a screen, computed in doubles, is what the server would charge but for a cent
\* where the exact figure is half a cent; and a desktop screen confirms the figures of the
\* invoice: for every tonnage, every tariff, zero rates included, and any number of other
\* users' changes.
THEOREM WizardFiguresAgree == WizardSpec => []FiguresAgree
  <1>1. WizardInit => WizardInv BY WizardInitial
  <1>2. WizardInv /\ [WizardNext]_wizardVars => WizardInv' BY WizardStep
  <1>3. WizardInv => FiguresAgree BY FiguresFollow
  <1> QED BY <1>1, <1>2, <1>3, PTL DEF WizardSpec

-----------------------------------------------------------------------------
(* Copies of the port data: the inductive invariant                         *)

Prices == [InvoiceIds -> LocalRates]
Drawer == [reference : 1..MaxRef, refStatus : {"ok", "taken"}]
Teams == [Members -> Roles \cup {Nothing}]

HasAdmin(team) == \E m \in Members : team[m] = "Admin"

\* One copy by itself: it has an Admin once it is registered, its invoices carry different
\* numbers and identifiers that were drawn, and each is worth its price.
CopySound(d, price, drawn) ==
  /\ d \in Data
  /\ d.registered => HasAdmin(d.role)
  /\ \A i, j \in Issued(d) : d.invoices[i].no = d.invoices[j].no => i = j
  /\ Issued(d) \subseteq drawn
  /\ \A i \in Issued(d) : d.invoices[i].dues = price[i]

LocalTypes ==
  /\ site \in LocalScope
  /\ data \in [LocalTabs -> Data]
  /\ stored = Nothing \/ stored \in Data
  /\ inbox \in [LocalTabs -> Seq(Data)]
  /\ \A t \in LocalTabs : Len(inbox[t]) <= MaxEvents
  /\ unsaved \subseteq Desktops /\ booting \subseteq LocalTabs
  /\ used \subseteq CallIds \cup InvoiceIds

\* The drawer and the forms of every tab; a team that is being edited has an Admin.
FormsSound ==
  /\ register \in [LocalTabs -> Drawer \cup {Nothing}]
  /\ settingsForm \in [LocalTabs -> LocalRates \cup {Nothing}]
  /\ teamForm \in [LocalTabs -> Teams \cup {Nothing}]
  /\ \A t \in LocalTabs : teamForm[t] # Nothing => HasAdmin(teamForm[t])

\* One price per invoice explains all copies, and a tab that is loading has nothing to save.
LocalInv ==
  /\ LocalTypes
  /\ FormsSound
  /\ \E price \in Prices : \A d \in Copies : CopySound(d, price, used)
  /\ unsaved \cap booting = {}

-----------------------------------------------------------------------------
(* Copies of the port data: what the operations make of one copy            *)

\* A copy that is sound stays so when more identifiers are drawn.
LEMMA DrawnMore ==
  ASSUME NEW d, NEW price, NEW drawn, NEW more, CopySound(d, price, drawn), drawn \subseteq more
  PROVE  CopySound(d, price, more)
  BY DEF CopySound

\* A copy with the same invoices, registered with an Admin, is as sound as the one it was made of.
LEMMA SameInvoices ==
  ASSUME NEW d, NEW e \in Data, NEW price, NEW drawn, CopySound(d, price, drawn),
         e.invoices = d.invoices, e.registered = TRUE => HasAdmin(e.role)
  PROVE  CopySound(e, price, drawn)
  <1>1. Issued(e) = Issued(d) BY DEF Issued
  <1>2. e.registered => HasAdmin(e.role)
    <2>1. e.registered \in BOOLEAN BY DEF Data
    <2> QED BY <2>1, Zenon
  <1>3. /\ \A i, j \in Issued(e) : e.invoices[i].no = e.invoices[j].no => i = j
        /\ Issued(e) \subseteq drawn
        /\ \A i \in Issued(e) : e.invoices[i].dues = price[i]
    BY <1>1 DEF CopySound
  <1> QED BY <1>2, <1>3 DEF CopySound

\* The fields of a copy.
LEMMA DataFields ==
  ASSUME NEW d \in Data
  PROVE  /\ d.reference \in [CallIds -> 0..MaxRef] /\ d.completed \in SUBSET CallIds
         /\ d.drafts \in SUBSET CallIds /\ d.invoices \in [InvoiceIds -> Invoices \cup {Nothing}]
         /\ d.settings \in LocalRates /\ d.role \in Teams /\ d.registered \in BOOLEAN
  BY DEF Data, Teams

\* A sound copy that is registered has an Admin.
LEMMA SoundHasAdmin ==
  ASSUME NEW d, NEW price, NEW drawn, CopySound(d, price, drawn), d.registered = TRUE
  PROVE  HasAdmin(d.role)
  BY Zenon DEF CopySound

\* The data a browser starts with is sound (SEED).
LEMMA SeedSound ==
  ASSUME NEW price, NEW drawn
  PROVE  SEED \in Data /\ CopySound(SEED, price, drawn)
  <1>1. DefaultRate \in LocalRates
    <2>1. \E r \in LocalRates : TRUE BY LocalAssumption
    <2> QED BY <2>1 DEF DefaultRate
  <1>2. 0 \in 0..MaxRef BY LocalAssumption
  <1>3. SEED \in Data BY <1>1, <1>2 DEF SEED, Data
  <1>4. Issued(SEED) = {} BY DEF Issued, SEED
  <1>5. ~SEED.registered BY Zenon DEF SEED
  <1> QED BY <1>3, <1>4, <1>5 DEF CopySound

\* Registering a call adds no invoice (addCall).
LEMMA AddCallSound ==
  ASSUME NEW d, NEW price, NEW drawn, CopySound(d, price, drawn),
         NEW c \in CallIds, NEW r \in 1..MaxRef
  PROVE  addCall(d, c, r) \in Data /\ CopySound(addCall(d, c, r), price, drawn)
  <1> DEFINE e == addCall(d, c, r)
  <1>0. d \in Data BY DEF CopySound
  <1>1. r \in 0..MaxRef BY LocalAssumption
  <1>2. [d.reference EXCEPT ![c] = r] \in [CallIds -> 0..MaxRef] BY <1>0, <1>1, DataFields
  <1>3. e = [d EXCEPT !.reference = [d.reference EXCEPT ![c] = r]] BY DEF addCall
  <1>4. e \in Data BY <1>0, <1>2, <1>3 DEF Data
  <1>5. e.invoices = d.invoices /\ e.registered = d.registered /\ e.role = d.role
    BY <1>0, <1>3 DEF Data
  <1> HIDE DEF e
  <1>6. e.registered = TRUE => HasAdmin(e.role) BY <1>5, SoundHasAdmin
  <1> QED BY <1>4, <1>5, <1>6, SameInvoices DEF e

\* Cancelling a call removes its invoices and no others (deleteCall).
LEMMA DeleteCallSound ==
  ASSUME NEW d, NEW price, NEW drawn, CopySound(d, price, drawn), NEW c \in CallIds
  PROVE  deleteCall(d, c) \in Data /\ CopySound(deleteCall(d, c), price, drawn)
  <1> DEFINE e == deleteCall(d, c)
             left == [i \in InvoiceIds |->
                        IF d.invoices[i] # Nothing /\ d.invoices[i].callId = c
                        THEN Nothing ELSE d.invoices[i]]
             refs == [d.reference EXCEPT ![c] = 0]
  <1>0. d \in Data BY DEF CopySound
  <1>1. 0 \in 0..MaxRef BY LocalAssumption
  <1>2. refs \in [CallIds -> 0..MaxRef] BY <1>0, <1>1, DataFields
  <1>3. left \in [InvoiceIds -> Invoices \cup {Nothing}] BY <1>0, DataFields
  <1>4. e = [d EXCEPT !.reference = refs, !.completed = d.completed \ {c},
                      !.drafts = d.drafts \ {c}, !.invoices = left]
    BY DEF deleteCall
  <1>5. d.completed \ {c} \in SUBSET CallIds /\ d.drafts \ {c} \in SUBSET CallIds
    BY <1>0, DataFields
  <1>6. \A i \in InvoiceIds : left[i] # Nothing => left[i] = d.invoices[i] OBVIOUS
  <1> HIDE DEF left, refs
  <1>7. e \in Data BY <1>0, <1>2, <1>3, <1>4, <1>5 DEF Data
  <1>8. e.invoices = left /\ e.registered = d.registered /\ e.role = d.role
    BY <1>0, <1>4 DEF Data
  <1> HIDE DEF e
  <1>9. Issued(e) \subseteq Issued(d) /\ \A i \in Issued(e) : e.invoices[i] = d.invoices[i]
    BY <1>6, <1>8 DEF Issued
  <1>10. e.registered => HasAdmin(e.role) BY <1>8, Zenon DEF CopySound
  <1>11. /\ \A i, j \in Issued(e) : e.invoices[i].no = e.invoices[j].no => i = j
         /\ Issued(e) \subseteq drawn
         /\ \A i \in Issued(e) : e.invoices[i].dues = price[i]
    BY <1>9 DEF CopySound
  <1>12. CopySound(e, price, drawn) BY <1>7, <1>10, <1>11 DEF CopySound
  <1> QED BY <1>7, <1>12 DEF e

\* The next number is above all numbers of the copy (the invoice number of applyInspection).
LEMMA InvoiceNoFresh ==
  ASSUME NEW d \in Data
  PROVE  InvoiceNo(d) \in Nat /\ \A i \in Issued(d) : d.invoices[i].no < InvoiceNo(d)
  <1> DEFINE f == [i \in Issued(d) |-> d.invoices[i].no]
             S == {0} \cup {d.invoices[i].no : i \in Issued(d)}
  <1>0. MaxInvoiceIds \in Nat BY LocalAssumption
  <1>1. IsFiniteSet(InvoiceIds) BY <1>0, FS_Interval DEF InvoiceIds
  <1>2. Issued(d) \subseteq InvoiceIds BY DEF Issued
  <1>3. IsFiniteSet(Issued(d)) BY <1>1, <1>2, FS_Subset
  <1>4. \A i \in Issued(d) : d.invoices[i] \in Invoices
    BY DataFields DEF Issued
  <1>5. \A i \in Issued(d) : d.invoices[i].no \in Nat BY <1>4 DEF Invoices
  <1>6. IsFiniteSet({f[i] : i \in Issued(d)})
    <2>1. f \in Surjection(Issued(d), {f[i] : i \in Issued(d)}) BY DEF Surjection
    <2> QED BY <1>3, <2>1, FS_Surjection
  <1>7. {f[i] : i \in Issued(d)} = {d.invoices[i].no : i \in Issued(d)} OBVIOUS
  <1>8. IsFiniteSet(S) BY <1>6, <1>7, FS_EmptySet, FS_AddElement, FS_Union, FS_Singleton
  <1>9. S \in SUBSET Int /\ S # {} /\ \A x \in S : x \in Nat BY <1>5
  <1>10. \A i \in Issued(d) : d.invoices[i].no \in S OBVIOUS
  <1> HIDE DEF S
  <1>11. Max(S) \in S /\ \A y \in S : y <= Max(S) BY <1>8, <1>9, MaxFinite
  <1>12. InvoiceNo(d) = 1 + Max(S) BY DEF InvoiceNo, S
  <1> QED BY <1>5, <1>9, <1>10, <1>11, <1>12

\* A completed capture issues one invoice more, at the rate of the copy (applyInspection).
LEMMA ApplyInspectionSound ==
  ASSUME NEW d, NEW price \in Prices, NEW drawn, CopySound(d, price, drawn),
         NEW c \in CallIds, NEW i \in InvoiceIds, i \notin drawn
  PROVE  /\ applyInspection(d, c, i) \in Data
         /\ CopySound(applyInspection(d, c, i), [price EXCEPT ![i] = d.settings], drawn \cup {i})
  <1> DEFINE e == applyInspection(d, c, i)
             v == [callId |-> c, no |-> InvoiceNo(d), dues |-> d.settings, status |-> "unpaid"]
             all == [d.invoices EXCEPT ![i] = v]
             p == [price EXCEPT ![i] = d.settings]
  <1>0. d \in Data BY DEF CopySound
  <1>1. v \in Invoices /\ v.no = InvoiceNo(d) /\ v.dues = d.settings
    BY <1>0, DataFields, InvoiceNoFresh DEF Invoices
  <1>2. e = [d EXCEPT !.completed = d.completed \cup {c}, !.invoices = all]
    BY DEF applyInspection
  <1>3. d.invoices \in [InvoiceIds -> Invoices \cup {Nothing}] BY <1>0, DataFields
  <1> HIDE DEF v
  <1>4. /\ all \in [InvoiceIds -> Invoices \cup {Nothing}] /\ all[i] = v
        /\ \A j \in InvoiceIds : j # i => all[j] = d.invoices[j]
    BY <1>1, <1>3
  <1>5. d.completed \cup {c} \in SUBSET CallIds BY <1>0, DataFields
  <1>6. p[i] = d.settings /\ \A j \in InvoiceIds : j # i => p[j] = price[j] BY DEF Prices
  <1> HIDE DEF all, p
  <1>7. e \in Data BY <1>0, <1>2, <1>4, <1>5 DEF Data
  <1>8. e.invoices = all /\ e.registered = d.registered /\ e.role = d.role
    BY <1>0, <1>2 DEF Data
  <1> HIDE DEF e
  <1>9. i \notin Issued(d) /\ Issued(d) \subseteq drawn BY DEF CopySound
  <1>10. \A j \in Issued(e) : j \in Issued(d) \/ j = i BY <1>4, <1>8 DEF Issued
  <1>11. \A j \in Issued(d) : j # i /\ e.invoices[j] = d.invoices[j]
    BY <1>4, <1>8, <1>9 DEF Issued
  <1>12. e.registered => HasAdmin(e.role) BY <1>8, Zenon DEF CopySound
  <1>13. \A j, k \in Issued(e) : e.invoices[j].no = e.invoices[k].no => j = k
    <2> SUFFICES ASSUME NEW j \in Issued(e), NEW k \in Issued(e),
                        e.invoices[j].no = e.invoices[k].no
                 PROVE  j = k
      OBVIOUS
    <2>1. \A l \in Issued(d) : d.invoices[l].no # InvoiceNo(d)
      <3>1. \A l \in Issued(d) : d.invoices[l].no \in Nat
        <4>1. \A l \in Issued(d) : d.invoices[l] \in Invoices BY <1>3 DEF Issued
        <4> QED BY <4>1 DEF Invoices
      <3> QED BY <1>0, <3>1, InvoiceNoFresh
    <2>2. e.invoices[i].no = InvoiceNo(d) BY <1>1, <1>4, <1>8
    <2>3. CASE j = i BY <1>10, <1>11, <2>1, <2>2, <2>3
    <2>4. CASE k = i BY <1>10, <1>11, <2>1, <2>2, <2>4
    <2>5. CASE j # i /\ k # i
      <3>1. j \in Issued(d) /\ k \in Issued(d) BY <1>10, <2>5
      <3>2. d.invoices[j].no = d.invoices[k].no BY <1>11, <3>1
      <3> QED BY <3>1, <3>2 DEF CopySound
    <2> QED BY <2>3, <2>4, <2>5
  <1>14. Issued(e) \subseteq drawn \cup {i} BY <1>9, <1>10
  <1>15. \A j \in Issued(e) : e.invoices[j].dues = p[j]
    <2>1. e.invoices[i].dues = p[i] BY <1>1, <1>4, <1>6, <1>8
    <2>2. \A j \in Issued(d) : e.invoices[j].dues = p[j]
      BY <1>6, <1>11 DEF CopySound, Issued
    <2> QED BY <1>10, <2>1, <2>2
  <1>16. CopySound(e, p, drawn \cup {i}) BY <1>7, <1>12, <1>13, <1>14, <1>15 DEF CopySound
  <1> QED BY <1>7, <1>16 DEF e, p

\* The price of an identifier nobody has drawn does not matter to a copy.
LEMMA PriceUndrawn ==
  ASSUME NEW d, NEW price \in Prices, NEW drawn, CopySound(d, price, drawn),
         NEW i \in InvoiceIds, i \notin drawn, NEW r
  PROVE  CopySound(d, [price EXCEPT ![i] = r], drawn \cup {i})
  <1>1. \A j \in Issued(d) : j # i /\ j \in InvoiceIds BY DEF CopySound, Issued
  <1>2. \A j \in InvoiceIds : j # i => [price EXCEPT ![i] = r][j] = price[j] BY DEF Prices
  <1>3. \A j \in Issued(d) : d.invoices[j].dues = [price EXCEPT ![i] = r][j]
    BY <1>1, <1>2 DEF CopySound
  <1> QED BY <1>3 DEF CopySound

\* A payment changes the status of an invoice and nothing else of it (updateInvoice).
LEMMA UpdateInvoiceSound ==
  ASSUME NEW d, NEW price, NEW drawn, CopySound(d, price, drawn),
         NEW i \in Issued(d), NEW s \in {"paid", "unpaid"}
  PROVE  updateInvoice(d, i, s) \in Data /\ CopySound(updateInvoice(d, i, s), price, drawn)
  <1> DEFINE e == updateInvoice(d, i, s)
             v == [d.invoices[i] EXCEPT !.status = s]
             all == [d.invoices EXCEPT ![i] = v]
  <1>0. d \in Data BY DEF CopySound
  <1>1. d.invoices \in [InvoiceIds -> Invoices \cup {Nothing}] /\ i \in InvoiceIds
    BY <1>0, DataFields DEF Issued
  <1>2. d.invoices[i] \in Invoices BY <1>1 DEF Issued
  <1>3. v \in Invoices /\ v.no = d.invoices[i].no /\ v.dues = d.invoices[i].dues
    BY <1>2 DEF Invoices
  <1>4. e = [d EXCEPT !.invoices = all] BY DEF updateInvoice
  <1> HIDE DEF v
  <1>5. /\ all \in [InvoiceIds -> Invoices \cup {Nothing}] /\ all[i] = v
        /\ \A j \in InvoiceIds : j # i => all[j] = d.invoices[j]
    BY <1>1, <1>3
  <1> HIDE DEF all
  <1>6. e \in Data BY <1>0, <1>4, <1>5 DEF Data
  <1>7. e.invoices = all /\ e.registered = d.registered /\ e.role = d.role
    BY <1>0, <1>4 DEF Data
  <1> HIDE DEF e
  <1>8. Issued(e) \subseteq Issued(d) BY <1>5, <1>7 DEF Issued
  <1>9. \A j \in Issued(d) : /\ e.invoices[j].no = d.invoices[j].no
                             /\ e.invoices[j].dues = d.invoices[j].dues
    BY <1>3, <1>5, <1>7 DEF Issued
  <1>10. e.registered => HasAdmin(e.role) BY <1>7, Zenon DEF CopySound
  <1>11. \A j, k \in Issued(e) : e.invoices[j].no = e.invoices[k].no => j = k
    <2> SUFFICES ASSUME NEW j \in Issued(e), NEW k \in Issued(e),
                        e.invoices[j].no = e.invoices[k].no
                 PROVE  j = k
      OBVIOUS
    <2>1. j \in Issued(d) /\ k \in Issued(d) BY <1>8
    <2>2. d.invoices[j].no = d.invoices[k].no BY <1>9, <2>1
    <2> QED BY <2>1, <2>2 DEF CopySound
  <1>12. Issued(e) \subseteq drawn /\ \A j \in Issued(e) : e.invoices[j].dues = price[j]
    BY <1>8, <1>9 DEF CopySound
  <1>13. CopySound(e, price, drawn) BY <1>6, <1>10, <1>11, <1>12 DEF CopySound
  <1> QED BY <1>6, <1>13 DEF e

-----------------------------------------------------------------------------
(* Copies of the port data: steps                                           *)

\* Who keeps a copy.
LEMMA CopyMembers ==
  /\ \A t \in LocalTabs \ booting : data[t] \in Copies
  /\ stored # Nothing => stored \in Copies
  /\ \A t \in LocalTabs : \A k \in 1..Len(inbox[t]) : inbox[t][k] \in Copies
  BY DEF Copies

\* It is enough that the tabs, the store and the events under way are sound.
LEMMA CopiesKeep ==
  ASSUME LocalTypes', FormsSound', (unsaved \cap booting = {})', NEW price \in Prices,
         \A t \in LocalTabs \ booting' : CopySound(data'[t], price, used'),
         stored' = Nothing \/ CopySound(stored', price, used'),
         \A t \in LocalTabs : \A k \in 1..Len(inbox'[t]) : CopySound(inbox'[t][k], price, used')
  PROVE  LocalInv'
  <1>1. \A d \in Copies' : CopySound(d, price, used') BY DEF Copies
  <1> QED BY <1>1 DEF LocalInv

\* A tab changes its data to a sound copy; what it may have drawn is taken into account.
LEMMA ChangeKeeps ==
  ASSUME LocalInv, NEW t \in LocalTabs, NEW d \in Data, Change(t, d),
         UNCHANGED <<stored, inbox, site>>,
         booting' = booting \ {t}, used' \subseteq CallIds \cup InvoiceIds, FormsSound',
         NEW price \in Prices, CopySound(d, price, used'),
         \A e \in Copies : CopySound(e, price, used')
  PROVE  LocalInv'
  <1>0. /\ data \in [LocalTabs -> Data] /\ unsaved \subseteq Desktops
        /\ booting \subseteq LocalTabs /\ unsaved \cap booting = {}
    BY DEF LocalInv, LocalTypes
  <1>1. data' \in [LocalTabs -> Data] /\ \A u \in LocalTabs : data'[u] = IF u = t THEN d ELSE data[u]
    BY <1>0 DEF Change
  <1>2. unsaved' \subseteq Desktops /\ unsaved' \subseteq unsaved \cup {t} BY <1>0 DEF Change
  <1>3. (unsaved \cap booting = {})' BY <1>0, <1>2
  <1>4. LocalTypes' BY <1>0, <1>1, <1>2 DEF LocalInv, LocalTypes
  <1>5. \A u \in LocalTabs \ booting' : CopySound(data'[u], price, used')
    BY <1>1, CopyMembers
  <1>6. stored' = Nothing \/ CopySound(stored', price, used') BY CopyMembers
  <1>7. \A u \in LocalTabs : \A k \in 1..Len(inbox'[u]) : CopySound(inbox'[u][k], price, used')
    BY CopyMembers
  <1> QED BY <1>3, <1>4, <1>5, <1>6, <1>7, CopiesKeep

\* The same for a change that draws nothing and a tab that has loaded.
LEMMA PlainChangeKeeps ==
  ASSUME LocalInv, NEW t \in LocalTabs \ booting, NEW d \in Data, Change(t, d),
         UNCHANGED <<stored, inbox, site, booting, used>>, FormsSound',
         NEW price \in Prices, CopySound(d, price, used), \A e \in Copies : CopySound(e, price, used)
  PROVE  LocalInv'
  <1>1. booting' = booting \ {t} /\ used' = used OBVIOUS
  <1>2. used' \subseteq CallIds \cup InvoiceIds BY DEF LocalInv, LocalTypes
  <1>3. CopySound(d, price, used') /\ \A e \in Copies : CopySound(e, price, used') BY <1>1
  <1> QED BY <1>1, <1>2, <1>3, ChangeKeeps

\* What a write adds to the events of the other tabs (the storage event of the browser).
LEMMA BroadcastAdds ==
  ASSUME LocalInv, NEW t \in LocalTabs, NEW d \in Data, Broadcast(t, d), Room(t)
  PROVE  /\ inbox' \in [LocalTabs -> Seq(Data)]
         /\ \A u \in LocalTabs : Len(inbox'[u]) <= MaxEvents
         /\ \A u \in LocalTabs : \A k \in 1..Len(inbox'[u]) :
              inbox'[u][k] = d \/ (k \in 1..Len(inbox[u]) /\ inbox'[u][k] = inbox[u][k])
  <1>0. /\ inbox \in [LocalTabs -> Seq(Data)] /\ MaxEvents \in Nat
        /\ \A u \in LocalTabs : Len(inbox[u]) <= MaxEvents
    BY LocalAssumption DEF LocalInv, LocalTypes
  <1>1. \A u \in LocalTabs : inbox'[u] = inbox[u] \/ (u # t /\ inbox'[u] = Append(inbox[u], d))
    BY DEF Broadcast
  <1>2. ASSUME NEW u \in LocalTabs
        PROVE  /\ inbox'[u] \in Seq(Data) /\ Len(inbox'[u]) <= MaxEvents
               /\ \A k \in 1..Len(inbox'[u]) :
                    inbox'[u][k] = d \/ (k \in 1..Len(inbox[u]) /\ inbox'[u][k] = inbox[u][k])
    <2>1. CASE inbox'[u] = inbox[u] BY <1>0, <2>1
    <2>2. CASE u # t /\ inbox'[u] = Append(inbox[u], d)
      <3>1. inbox[u] \in Seq(Data) /\ Len(inbox[u]) \in Nat /\ Len(inbox[u]) < MaxEvents
        BY <1>0, <2>2 DEF Room
      <3> QED BY <1>0, <2>2, <3>1
    <2> QED BY <1>1, <2>1, <2>2
  <1>3. inbox' = [u \in LocalTabs |-> inbox'[u]] BY DEF Broadcast
  <1>4. inbox' \in [LocalTabs -> Seq(Data)] BY <1>2, <1>3
  <1> QED BY <1>2, <1>4

\* The write-through effect of a desktop tab keeps the invariant.
LEMMA WriteThroughKeeps ==
  ASSUME LocalInv, NEW t \in LocalTabs, WriteThrough(t)
  PROVE  LocalInv'
  <1>0. /\ data \in [LocalTabs -> Data] /\ unsaved \subseteq Desktops
        /\ booting \subseteq LocalTabs /\ unsaved \cap booting = {}
    BY DEF LocalInv, LocalTypes
  <1>1. PICK price \in Prices : \A e \in Copies : CopySound(e, price, used) BY DEF LocalInv
  <1>2. /\ t \in unsaved /\ Room(t) /\ Broadcast(t, data[t]) /\ unsaved' = unsaved \ {t}
        /\ UNCHANGED <<data, booting, register, settingsForm, teamForm, used, site>>
    BY DEF WriteThrough
  <1>3. t \notin booting /\ data[t] \in Data /\ data[t] \in Copies
    BY <1>0, <1>2, CopyMembers
  <1>4. /\ inbox' \in [LocalTabs -> Seq(Data)]
        /\ \A u \in LocalTabs : Len(inbox'[u]) <= MaxEvents
        /\ \A u \in LocalTabs : \A k \in 1..Len(inbox'[u]) :
             inbox'[u][k] = data[t] \/ (k \in 1..Len(inbox[u]) /\ inbox'[u][k] = inbox[u][k])
    BY <1>2, <1>3, BroadcastAdds
  <1>5. stored' = data[t] BY <1>2 DEF Broadcast
  <1>6. LocalTypes' BY <1>0, <1>2, <1>3, <1>4, <1>5 DEF LocalInv, LocalTypes
  <1>7. FormsSound' BY <1>2 DEF LocalInv, FormsSound
  <1>8. (unsaved \cap booting = {})' BY <1>0, <1>2
  <1>9. \A u \in LocalTabs \ booting' : CopySound(data'[u], price, used')
    BY <1>1, <1>2, CopyMembers
  <1>10. CopySound(stored', price, used') BY <1>1, <1>2, <1>3, <1>5
  <1>11. \A u \in LocalTabs : \A k \in 1..Len(inbox'[u]) : CopySound(inbox'[u][k], price, used')
    BY <1>1, <1>2, <1>3, <1>4, CopyMembers
  <1> QED BY <1>6, <1>7, <1>8, <1>9, <1>10, <1>11, CopiesKeep

\* A tab takes over what another tab wrote; its forms go with its registration.
LEMMA OnStorageKeeps ==
  ASSUME LocalInv, NEW t \in LocalTabs, onStorage(t)
  PROVE  LocalInv'
  <1>0. /\ data \in [LocalTabs -> Data] /\ unsaved \subseteq Desktops
        /\ booting \subseteq LocalTabs /\ unsaved \cap booting = {}
        /\ inbox \in [LocalTabs -> Seq(Data)] /\ \A u \in LocalTabs : Len(inbox[u]) <= MaxEvents
        /\ MaxEvents \in Nat
    BY LocalAssumption DEF LocalInv, LocalTypes
  <1>1. PICK price \in Prices : \A e \in Copies : CopySound(e, price, used) BY DEF LocalInv
  <1> DEFINE d == Head(inbox[t])
  <1>2. /\ inbox[t] # <<>> /\ t \notin unsaved \cup booting /\ Change(t, d)
        /\ inbox' = [inbox EXCEPT ![t] = Tail(@)]
        /\ UNCHANGED <<stored, booting, used, site>>
    BY DEF onStorage
  <1>3. inbox[t] \in Seq(Data) /\ Len(inbox[t]) \in Nat /\ Len(inbox[t]) > 0 BY <1>0, <1>2
  <1>4. d = inbox[t][1] /\ d \in Data BY <1>2, <1>3
  <1>5. d \in Copies BY <1>3, <1>4, CopyMembers
  <1> HIDE DEF d
  <1>6. data' \in [LocalTabs -> Data] /\ \A u \in LocalTabs : data'[u] = IF u = t THEN d ELSE data[u]
    BY <1>0, <1>2, <1>4 DEF Change
  <1>7. unsaved' \subseteq Desktops /\ unsaved' \subseteq unsaved \cup {t} BY <1>0, <1>2 DEF Change
  <1>8. Tail(inbox[t]) \in Seq(Data) /\ Len(Tail(inbox[t])) = Len(inbox[t]) - 1
        /\ \A k \in 1..(Len(inbox[t]) - 1) : Tail(inbox[t])[k] = inbox[t][k + 1]
    BY <1>2, <1>3
  <1>9. inbox' \in [LocalTabs -> Seq(Data)] /\ \A u \in LocalTabs : Len(inbox'[u]) <= MaxEvents
    BY <1>0, <1>2, <1>3, <1>8
  <1>10. LocalTypes' BY <1>0, <1>2, <1>6, <1>7, <1>9 DEF LocalInv, LocalTypes
  <1>11. FormsSound'
    <2>1. register' = Mounted(register, t, d) /\ settingsForm' = Mounted(settingsForm, t, d)
          /\ teamForm' = Mounted(teamForm, t, d)
      BY DEF onStorage, d
    <2> QED BY <2>1 DEF LocalInv, FormsSound, Mounted
  <1>12. (unsaved \cap booting = {})' BY <1>0, <1>2, <1>7
  <1>13. \A u \in LocalTabs \ booting' : CopySound(data'[u], price, used')
    BY <1>1, <1>2, <1>5, <1>6, CopyMembers
  <1>14. stored' = Nothing \/ CopySound(stored', price, used') BY <1>1, <1>2, CopyMembers
  <1>15. \A u \in LocalTabs : \A k \in 1..Len(inbox'[u]) : CopySound(inbox'[u][k], price, used')
    <2> SUFFICES ASSUME NEW u \in LocalTabs, NEW k \in 1..Len(inbox'[u])
                 PROVE  inbox'[u][k] \in Copies
      BY <1>1, <1>2
    <2>1. CASE u # t BY <1>0, <1>2, <2>1, CopyMembers
    <2>2. CASE u = t
      <3>1. inbox'[u] = Tail(inbox[t]) BY <1>0, <1>2, <2>2
      <3>2. inbox'[u][k] = inbox[t][k + 1] /\ k + 1 \in 1..Len(inbox[t]) BY <1>3, <1>8, <3>1
      <3> QED BY <3>2, CopyMembers
    <2> QED BY <2>1, <2>2
  <1> QED BY <1>10, <1>11, <1>12, <1>13, <1>14, <1>15, CopiesKeep

\* Deleting the stored data and reloading keeps the invariant.
LEMMA ResetDataKeeps ==
  ASSUME LocalInv, NEW t \in LocalTabs, ResetData(t)
  PROVE  LocalInv'
  <1>0. /\ data \in [LocalTabs -> Data] /\ unsaved \subseteq Desktops
        /\ booting \subseteq LocalTabs /\ unsaved \cap booting = {}
        /\ inbox \in [LocalTabs -> Seq(Data)] /\ \A u \in LocalTabs : Len(inbox[u]) <= MaxEvents
        /\ MaxEvents \in Nat
    BY LocalAssumption DEF LocalInv, LocalTypes
  <1>1. PICK price \in Prices : \A e \in Copies : CopySound(e, price, used) BY DEF LocalInv
  <1>2. /\ stored' = Nothing /\ booting' = booting \cup {t} /\ unsaved' = unsaved \ {t}
        /\ inbox' = [inbox EXCEPT ![t] = <<>>] /\ UNCHANGED <<data, used, site>>
    BY DEF ResetData, Unload
  <1>3. <<>> \in Seq(Data) /\ Len(<<>>) = 0 OBVIOUS
  <1>4. \A u \in LocalTabs : inbox'[u] = IF u = t THEN <<>> ELSE inbox[u] BY <1>0, <1>2
  <1>5. inbox' \in [LocalTabs -> Seq(Data)] BY <1>0, <1>2, <1>3
  <1>6. \A u \in LocalTabs : Len(inbox'[u]) <= MaxEvents BY <1>0, <1>3, <1>4
  <1>7. LocalTypes' BY <1>0, <1>2, <1>5, <1>6 DEF LocalInv, LocalTypes
  <1>8. FormsSound' BY DEF LocalInv, FormsSound, ResetData, Unload
  <1>9. (unsaved \cap booting = {})' BY <1>0, <1>2
  <1>10. \A u \in LocalTabs \ booting' : CopySound(data'[u], price, used')
    BY <1>1, <1>2, CopyMembers
  <1>11. \A u \in LocalTabs : \A k \in 1..Len(inbox'[u]) : CopySound(inbox'[u][k], price, used')
    <2> SUFFICES ASSUME NEW u \in LocalTabs, NEW k \in 1..Len(inbox'[u])
                 PROVE  inbox'[u][k] \in Copies
      BY <1>1, <1>2
    <2>1. u # t BY <1>3, <1>4
    <2> QED BY <1>4, <2>1, CopyMembers
  <1> QED BY <1>2, <1>7, <1>8, <1>9, <1>10, <1>11, CopiesKeep

\* A tab that loads shows what is stored, or the data a browser starts with.
LEMMA BootKeeps ==
  ASSUME LocalInv, NEW t \in LocalTabs, bootPortData(t)
  PROVE  LocalInv'
  <1>1. PICK price \in Prices : \A e \in Copies : CopySound(e, price, used) BY DEF LocalInv
  <1> DEFINE d == loadLocalData
  <1>2. /\ Change(t, d) /\ booting' = booting \ {t}
        /\ UNCHANGED <<stored, inbox, register, settingsForm, teamForm, used, site>>
    BY DEF bootPortData
  <1>3. d \in Data /\ CopySound(d, price, used)
    BY <1>1, SeedSound, CopyMembers DEF loadLocalData, CopySound
  <1> HIDE DEF d
  <1>4. FormsSound' BY <1>2 DEF LocalInv, FormsSound
  <1>5. used' \subseteq CallIds \cup InvoiceIds BY <1>2 DEF LocalInv, LocalTypes
  <1>6. CopySound(d, price, used') /\ \A e \in Copies : CopySound(e, price, used') BY <1>1, <1>2, <1>3
  <1> QED BY <1>2, <1>3, <1>4, <1>5, <1>6, ChangeKeeps

\* What a tab shows when it has loaded is sound, and a desktop tab's organization has an Admin.
LEMMA ReadyTab ==
  ASSUME LocalInv, NEW t \in LocalTabs, Ready(t), NEW price,
         \A e \in Copies : CopySound(e, price, used)
  PROVE  /\ t \notin booting /\ data[t] \in Data /\ CopySound(data[t], price, used)
         /\ t \in Desktops => HasAdmin(data[t].role)
         /\ data[t].registered = TRUE => HasAdmin(data[t].role)
  <1>1. t \notin booting BY DEF Ready
  <1>2. CopySound(data[t], price, used) BY <1>1, CopyMembers
  <1>3. data[t] \in Data BY <1>2 DEF CopySound
  <1>4. t \in Desktops => HasAdmin(data[t].role) BY <1>2, Zenon DEF Ready, CopySound
  <1>5. data[t].registered = TRUE => HasAdmin(data[t].role) BY <1>2, SoundHasAdmin
  <1> QED BY <1>1, <1>2, <1>3, <1>4, <1>5

\* Calls: registering, cancelling and saving a draft keep the invariant.
LEMMA CallStepsKeep ==
  ASSUME LocalInv, NEW t \in LocalTabs, NEW c \in CallIds,
         SubmitCall(t, c) \/ CancelCall(t, c) \/ SaveDraft(t, c)
  PROVE  LocalInv'
  <1>1. PICK price \in Prices : \A e \in Copies : CopySound(e, price, used) BY DEF LocalInv
  <1>2. Ready(t) BY DEF SubmitCall, CancelCall, SaveDraft, MayCapture
  <1>3. /\ t \notin booting /\ data[t] \in Data /\ CopySound(data[t], price, used)
        /\ data[t].registered = TRUE => HasAdmin(data[t].role)
    BY <1>1, <1>2, ReadyTab
  <1>4. CASE SubmitCall(t, c)
    <2>1. /\ register[t] # Nothing /\ Change(t, addCall(data[t], c, register[t].reference))
          /\ used' = used \cup {c} /\ register' = [register EXCEPT ![t] = Nothing]
          /\ UNCHANGED <<stored, inbox, booting, settingsForm, teamForm, site>>
      BY <1>4 DEF SubmitCall
    <2>2. register[t] \in Drawer BY <2>1 DEF LocalInv, FormsSound
    <2>3. register[t].reference \in 1..MaxRef BY <2>2 DEF Drawer
    <2> DEFINE d == addCall(data[t], c, register[t].reference)
    <2>4. d \in Data /\ CopySound(d, price, used) BY <1>3, <2>3, AddCallSound
    <2>5. Change(t, d) BY <2>1
    <2> HIDE DEF d
    <2>6. used \subseteq used' /\ used' \subseteq CallIds \cup InvoiceIds
      BY <2>1 DEF LocalInv, LocalTypes
    <2>7. CopySound(d, price, used') /\ \A e \in Copies : CopySound(e, price, used')
      BY <1>1, <2>4, <2>6, DrawnMore
    <2>8. FormsSound' BY <2>1 DEF LocalInv, FormsSound
    <2>9. booting' = booting \ {t} BY <1>3, <2>1
    <2> QED BY <2>1, <2>4, <2>5, <2>6, <2>7, <2>8, <2>9, ChangeKeeps
  <1>5. CASE CancelCall(t, c)
    <2> DEFINE d == deleteCall(data[t], c)
    <2>1. /\ Change(t, d)
          /\ UNCHANGED <<stored, inbox, booting, register, settingsForm, teamForm, used, site>>
      BY <1>5 DEF CancelCall
    <2>2. d \in Data /\ CopySound(d, price, used) BY <1>3, DeleteCallSound
    <2> HIDE DEF d
    <2>3. FormsSound' BY <2>1 DEF LocalInv, FormsSound
    <2> QED BY <1>1, <1>3, <2>1, <2>2, <2>3, PlainChangeKeeps
  <1>6. CASE SaveDraft(t, c)
    <2> DEFINE d == [data[t] EXCEPT !.drafts = @ \cup {c}]
    <2>1. /\ Change(t, d)
          /\ UNCHANGED <<stored, inbox, booting, register, settingsForm, teamForm, used, site>>
      BY <1>6 DEF SaveDraft
    <2>2. data[t].drafts \cup {c} \in SUBSET CallIds BY <1>3, DataFields
    <2>3. /\ d \in Data /\ d.invoices = data[t].invoices
          /\ d.registered = data[t].registered /\ d.role = data[t].role
      BY <1>3, <2>2 DEF Data
    <2> HIDE DEF d
    <2>4. CopySound(d, price, used) BY <1>3, <2>3, SameInvoices
    <2>5. FormsSound' BY <2>1 DEF LocalInv, FormsSound
    <2> QED BY <1>1, <1>3, <2>1, <2>3, <2>4, <2>5, PlainChangeKeeps
  <1> QED BY <1>4, <1>5, <1>6

\* A completed capture, on a desktop or a mobile tab, keeps the invariant: its invoice gets
\* the rate of the copy it is made in, and no other copy has that invoice.
LEMMA SubmitCaptureKeeps ==
  ASSUME LocalInv, NEW t \in LocalTabs, NEW c \in CallIds, NEW i \in InvoiceIds,
         SubmitCapture(t, c, i)
  PROVE  LocalInv'
  <1>0. /\ data \in [LocalTabs -> Data] /\ unsaved \subseteq Desktops
        /\ booting \subseteq LocalTabs /\ unsaved \cap booting = {}
    BY DEF LocalInv, LocalTypes
  <1>1. PICK price \in Prices : \A e \in Copies : CopySound(e, price, used) BY DEF LocalInv
  <1>2. Ready(t) BY DEF SubmitCapture, MayCapture
  <1>3. t \notin booting /\ data[t] \in Data /\ CopySound(data[t], price, used)
    BY <1>1, <1>2, ReadyTab
  <1> DEFINE d == applyInspection(data[t], c, i)
             p == [price EXCEPT ![i] = data[t].settings]
  <1>4. /\ i \notin used /\ used' = used \cup {i} /\ Change(t, d)
        /\ UNCHANGED <<booting, register, settingsForm, teamForm, site>>
        /\ t \in Mobiles => Room(t) /\ Broadcast(t, d)
        /\ t \notin Mobiles => UNCHANGED <<stored, inbox>>
    BY DEF SubmitCapture
  <1>5. d \in Data /\ CopySound(d, p, used') BY <1>3, <1>4, ApplyInspectionSound
  <1>6. \A e \in Copies : CopySound(e, p, used') BY <1>1, <1>4, PriceUndrawn
  <1>7. p \in Prices BY <1>3, DataFields DEF Prices
  <1> HIDE DEF d, p
  <1>8. FormsSound' BY <1>4 DEF LocalInv, FormsSound
  <1>9. used' \subseteq CallIds \cup InvoiceIds BY <1>4 DEF LocalInv, LocalTypes
  <1>10. booting' = booting \ {t} BY <1>3, <1>4
  <1>11. CASE t \notin Mobiles
    BY <1>4, <1>5, <1>6, <1>7, <1>8, <1>9, <1>10, <1>11, ChangeKeeps
  <1>12. CASE t \in Mobiles
    <2>1. Room(t) /\ Broadcast(t, d) BY <1>4, <1>12
    <2>2. /\ inbox' \in [LocalTabs -> Seq(Data)]
          /\ \A u \in LocalTabs : Len(inbox'[u]) <= MaxEvents
          /\ \A u \in LocalTabs : \A k \in 1..Len(inbox'[u]) :
               inbox'[u][k] = d \/ (k \in 1..Len(inbox[u]) /\ inbox'[u][k] = inbox[u][k])
      BY <1>5, <2>1, BroadcastAdds
    <2>3. stored' = d BY <2>1 DEF Broadcast
    <2>4. data' \in [LocalTabs -> Data] /\ \A u \in LocalTabs : data'[u] = IF u = t THEN d ELSE data[u]
      BY <1>0, <1>4, <1>5 DEF Change
    <2>5. unsaved' = unsaved BY <1>4, <1>12, LocalAssumption DEF Change
    <2>6. LocalTypes' BY <1>0, <1>4, <1>5, <1>9, <2>2, <2>3, <2>4, <2>5 DEF LocalInv, LocalTypes
    <2>7. (unsaved \cap booting = {})' BY <1>0, <1>4, <2>5
    <2>8. \A u \in LocalTabs \ booting' : CopySound(data'[u], p, used')
      BY <1>4, <1>5, <1>6, <2>4, CopyMembers
    <2>9. CopySound(stored', p, used') BY <1>5, <2>3
    <2>10. \A u \in LocalTabs : \A k \in 1..Len(inbox'[u]) : CopySound(inbox'[u][k], p, used')
      BY <1>5, <1>6, <2>2, CopyMembers
    <2> QED BY <1>7, <1>8, <2>6, <2>7, <2>8, <2>9, <2>10, CopiesKeep
  <1> QED BY <1>11, <1>12

\* A payment keeps the invariant.
LEMMA RecordPaymentKeeps ==
  ASSUME LocalInv, NEW t \in LocalTabs, NEW i \in InvoiceIds, NEW s \in {"paid", "unpaid"},
         RecordPayment(t, i, s)
  PROVE  LocalInv'
  <1>1. PICK price \in Prices : \A e \in Copies : CopySound(e, price, used) BY DEF LocalInv
  <1>2. Ready(t) /\ i \in Issued(data[t]) BY DEF RecordPayment
  <1>3. t \notin booting /\ data[t] \in Data /\ CopySound(data[t], price, used)
    BY <1>1, <1>2, ReadyTab
  <1> DEFINE d == updateInvoice(data[t], i, s)
  <1>4. /\ Change(t, d)
        /\ UNCHANGED <<stored, inbox, booting, register, settingsForm, teamForm, used, site>>
    BY DEF RecordPayment
  <1>5. d \in Data /\ CopySound(d, price, used) BY <1>2, <1>3, UpdateInvoiceSound
  <1> HIDE DEF d
  <1>6. FormsSound' BY <1>4 DEF LocalInv, FormsSound
  <1> QED BY <1>1, <1>3, <1>4, <1>5, <1>6, PlainChangeKeeps

\* Onboarding keeps the invariant: the team it makes has an Admin.
LEMMA RegisterKeeps ==
  ASSUME LocalInv, NEW t \in LocalTabs, NEW m \in Members, RegisterOrganization(t, m)
  PROVE  LocalInv'
  <1>1. PICK price \in Prices : \A e \in Copies : CopySound(e, price, used) BY DEF LocalInv
  <1> DEFINE team == [n \in Members |-> IF n = m THEN "Admin" ELSE Nothing]
             d == [data[t] EXCEPT !.registered = TRUE, !.role = team]
  <1>2. /\ t \notin booting /\ Change(t, d)
        /\ UNCHANGED <<stored, inbox, booting, register, settingsForm, teamForm, used, site>>
    BY DEF RegisterOrganization
  <1>3. CopySound(data[t], price, used) /\ data[t] \in Data
    BY <1>1, <1>2, CopyMembers DEF CopySound
  <1>4. team \in Teams /\ HasAdmin(team) BY DEF Teams, Roles, HasAdmin
  <1> HIDE DEF team
  <1>5. d \in Data /\ d.invoices = data[t].invoices /\ d.role = team
    BY <1>3, <1>4 DEF Data, Teams
  <1> HIDE DEF d
  <1>6. CopySound(d, price, used) BY <1>3, <1>4, <1>5, SameInvoices
  <1>7. FormsSound' BY <1>2 DEF LocalInv, FormsSound
  <1> QED BY <1>1, <1>2, <1>5, <1>6, <1>7, PlainChangeKeeps

\* Saving the settings and the team keeps the invariant: the team has an Admin, and no
\* invoice changes.
LEMMA SaveFormsKeeps ==
  ASSUME LocalInv, NEW t \in LocalTabs, SaveForms(t)
  PROVE  LocalInv'
  <1>1. PICK price \in Prices : \A e \in Copies : CopySound(e, price, used) BY DEF LocalInv
  <1>2. Ready(t) BY DEF SaveForms
  <1>3. /\ t \notin booting /\ data[t] \in Data /\ CopySound(data[t], price, used)
        /\ data[t].registered = TRUE => HasAdmin(data[t].role)
    BY <1>1, <1>2, ReadyTab
  <1> DEFINE b == IF settingsForm[t] = Nothing THEN data[t]
                  ELSE updateSettings(data[t], settingsForm[t])
             d == [b EXCEPT !.role = Team(t)]
  <1>4. /\ Change(t, d)
        /\ settingsForm' = [settingsForm EXCEPT ![t] = Nothing]
        /\ teamForm' = [teamForm EXCEPT ![t] = Nothing]
        /\ UNCHANGED <<stored, inbox, booting, register, used, site>>
    BY DEF SaveForms
  <1>5. b \in Data /\ b.invoices = data[t].invoices /\ b.registered = data[t].registered
    <2>1. CASE settingsForm[t] = Nothing BY <1>3, <2>1
    <2>2. CASE settingsForm[t] # Nothing
      <3>1. settingsForm[t] \in LocalRates BY <2>2 DEF LocalInv, FormsSound
      <3>2. b = [data[t] EXCEPT !.settings = settingsForm[t]] BY <2>2 DEF updateSettings
      <3> QED BY <1>3, <3>1, <3>2 DEF Data
    <2> QED BY <2>1, <2>2
  <1>6. Team(t) \in Teams /\ (data[t].registered = TRUE => HasAdmin(Team(t)))
    BY <1>3, DataFields DEF Team, LocalInv, FormsSound
  <1> HIDE DEF b
  <1>7. d \in Data /\ d.invoices = data[t].invoices /\ d.registered = data[t].registered
        /\ d.role = Team(t)
    BY <1>5, <1>6 DEF Data, Teams
  <1> HIDE DEF d
  <1>8. CopySound(d, price, used) BY <1>3, <1>6, <1>7, SameInvoices
  <1>9. FormsSound' BY <1>4 DEF LocalInv, FormsSound
  <1> QED BY <1>1, <1>3, <1>4, <1>7, <1>8, <1>9, PlainChangeKeeps

\* Editing a form leaves all copies alone, and a team that is edited keeps an Admin.
LEMMA EditsKeep ==
  ASSUME LocalInv, NEW t \in LocalTabs,
         \/ DiscardForms(t)
         \/ \E m \in Members, r \in Roles \cup {Nothing} : EditTeam(t, m, r)
         \/ \E r \in LocalRates : EditSettings(t, r)
         \/ \E r \in 1..MaxRef : EditReference(t, r)
  PROVE  LocalInv'
  <1>1. PICK price \in Prices : \A e \in Copies : CopySound(e, price, used) BY DEF LocalInv
  <1>2. UNCHANGED <<data, stored, inbox, unsaved, booting, used, site>>
    BY DEF DiscardForms, EditTeam, EditSettings, EditReference
  <1>3. LocalTypes' /\ (unsaved \cap booting = {})' BY <1>2 DEF LocalInv, LocalTypes
  <1>4. FormsSound'
    <2>1. CASE DiscardForms(t) BY <2>1 DEF DiscardForms, LocalInv, FormsSound
    <2>2. ASSUME NEW r \in LocalRates, EditSettings(t, r) PROVE FormsSound'
      BY <2>2 DEF EditSettings, LocalInv, FormsSound
    <2>3. ASSUME NEW r \in 1..MaxRef, EditReference(t, r) PROVE FormsSound'
      <3>1. Typed(data[t], r) \in Drawer BY <2>3 DEF Typed, Drawer
      <3> QED BY <2>3, <3>1 DEF EditReference, LocalInv, FormsSound
    <2>4. ASSUME NEW m \in Members, NEW r \in Roles \cup {Nothing}, EditTeam(t, m, r)
          PROVE  FormsSound'
      <3>1. Ready(t) /\ t \in Desktops /\ MayChangeRole(Team(t), m) BY <2>4 DEF EditTeam
      <3>2. data[t] \in Data /\ HasAdmin(data[t].role) BY <1>1, <3>1, ReadyTab
      <3>3. Team(t) \in Teams /\ HasAdmin(Team(t))
        BY <3>2, DataFields DEF Team, LocalInv, FormsSound
      <3> DEFINE team == [Team(t) EXCEPT ![m] = r]
      <3>4. team \in Teams /\ \A n \in Members \ {m} : team[n] = Team(t)[n] BY <3>3 DEF Teams
      <3> HIDE DEF team
      <3>5. HasAdmin(team)
        <4>1. \E n \in Members \ {m} : Team(t)[n] = "Admin" BY <3>1, <3>3 DEF MayChangeRole, HasAdmin
        <4> QED BY <3>4, <4>1 DEF HasAdmin
      <3>6. teamForm' = [teamForm EXCEPT ![t] = team] /\ UNCHANGED <<register, settingsForm>>
        BY <2>4 DEF EditTeam, team
      <3> QED BY <3>4, <3>5, <3>6 DEF LocalInv, FormsSound
    <2> QED BY <2>1, <2>2, <2>3, <2>4
  <1>5. \A u \in LocalTabs \ booting' : CopySound(data'[u], price, used') BY <1>1, <1>2, CopyMembers
  <1>6. stored' = Nothing \/ CopySound(stored', price, used') BY <1>1, <1>2, CopyMembers
  <1>7. \A u \in LocalTabs : \A k \in 1..Len(inbox'[u]) : CopySound(inbox'[u][k], price, used')
    BY <1>1, <1>2, CopyMembers
  <1> QED BY <1>3, <1>4, <1>5, <1>6, <1>7, CopiesKeep

\* The tabs start with the same data and nothing stored.
LEMMA LocalInitial == LocalInit => LocalInv
  <1> SUFFICES ASSUME LocalInit PROVE LocalInv
    OBVIOUS
  <1>1. PICK r \in LocalRates : TRUE BY LocalAssumption
  <1> DEFINE price == [i \in InvoiceIds |-> r]
  <1>2. price \in Prices BY DEF Prices
  <1> HIDE DEF price
  <1>3. Copies = {}
    <2>1. LocalTabs \ booting = {} /\ stored = Nothing BY DEF LocalInit
    <2>2. \A t \in LocalTabs : inbox[t] = <<>> BY DEF LocalInit
    <2>3. \A t \in LocalTabs : 1..Len(inbox[t]) = {} BY <2>2
    <2> QED BY <2>1, <2>3 DEF Copies
  <1>4. SEED \in Data BY SeedSound
  <1>5. <<>> \in Seq(Data) /\ Len(<<>>) = 0 OBVIOUS
  <1>6. LocalTypes BY <1>4, <1>5, LocalAssumption DEF LocalInit, LocalTypes
  <1>7. FormsSound BY DEF LocalInit, FormsSound
  <1>8. unsaved \cap booting = {} BY DEF LocalInit
  <1> QED BY <1>2, <1>3, <1>6, <1>7, <1>8 DEF LocalInv

\* Every step of the tabs keeps the invariant.
LEMMA LocalStep == LocalInv /\ [LocalNext]_localVars => LocalInv'
  <1> SUFFICES ASSUME LocalInv, [LocalNext]_localVars PROVE LocalInv'
    OBVIOUS
  <1>1. CASE UNCHANGED localVars
    <2>1. PICK price \in Prices : \A e \in Copies : CopySound(e, price, used) BY DEF LocalInv
    <2>2. LocalTypes' /\ FormsSound' /\ (unsaved \cap booting = {})'
      BY <1>1 DEF localVars, LocalInv, LocalTypes, FormsSound
    <2>3. Copies' = Copies /\ used' = used BY <1>1 DEF localVars, Copies
    <2> QED BY <2>1, <2>2, <2>3 DEF LocalInv
  <1>2. CASE LocalNext
    <2>0. /\ site.tabs \subseteq LocalTabs /\ site.calls \subseteq CallIds
          /\ site.members \subseteq Members /\ site.rates \subseteq LocalRates
          /\ site.roles \subseteq Roles /\ site.invoices \in 0..MaxInvoiceIds
      BY DEF LocalInv, LocalTypes, LocalScope, LocalTabs
    <2>1. 1..site.invoices \subseteq InvoiceIds BY <2>0, LocalAssumption DEF InvoiceIds
    <2>2. PICK t \in LocalTabs :
            \/ bootPortData(t) \/ WriteThrough(t) \/ onStorage(t) \/ ResetData(t)
            \/ SaveForms(t) \/ DiscardForms(t)
            \/ \E m \in Members :
                 \/ RegisterOrganization(t, m)
                 \/ \E r \in Roles \cup {Nothing} : EditTeam(t, m, r)
            \/ \E r \in LocalRates : EditSettings(t, r)
            \/ \E r \in 1..MaxRef : EditReference(t, r)
            \/ \E c \in CallIds :
                 \/ SubmitCall(t, c) \/ CancelCall(t, c) \/ SaveDraft(t, c)
                 \/ \E i \in InvoiceIds : SubmitCapture(t, c, i)
            \/ \E i \in InvoiceIds, s \in {"paid", "unpaid"} : RecordPayment(t, i, s)
      BY <1>2, <2>0, <2>1, Zenon DEF LocalNext
    <2>3. CASE bootPortData(t) BY <2>3, BootKeeps
    <2>4. CASE WriteThrough(t) BY <2>4, WriteThroughKeeps
    <2>5. CASE onStorage(t) BY <2>5, OnStorageKeeps
    <2>6. CASE ResetData(t) BY <2>6, ResetDataKeeps
    <2>7. CASE SaveForms(t) BY <2>7, SaveFormsKeeps
    <2>8. CASE \/ DiscardForms(t)
               \/ \E m \in Members, r \in Roles \cup {Nothing} : EditTeam(t, m, r)
               \/ \E r \in LocalRates : EditSettings(t, r)
               \/ \E r \in 1..MaxRef : EditReference(t, r)
      BY <2>8, EditsKeep
    <2>9. CASE \E m \in Members : RegisterOrganization(t, m) BY <2>9, RegisterKeeps
    <2>10. CASE \E c \in CallIds : SubmitCall(t, c) \/ CancelCall(t, c) \/ SaveDraft(t, c)
      BY <2>10, CallStepsKeep
    <2>11. CASE \E c \in CallIds, i \in InvoiceIds : SubmitCapture(t, c, i)
      BY <2>11, SubmitCaptureKeeps
    <2>12. CASE \E i \in InvoiceIds, s \in {"paid", "unpaid"} : RecordPayment(t, i, s)
      BY <2>12, RecordPaymentKeeps
    <2> QED BY <2>2, <2>3, <2>4, <2>5, <2>6, <2>7, <2>8, <2>9, <2>10, <2>11, <2>12, Zenon
  <1> QED BY <1>1, <1>2

\* The invariant gives the type invariant and the soundness of all copies.
LEMMA LocalInvImplies == LocalInv => LocalTypeOK /\ CopiesSound
  <1> SUFFICES ASSUME LocalInv PROVE LocalTypeOK /\ CopiesSound
    OBVIOUS
  <1>1. PICK price \in Prices : \A e \in Copies : CopySound(e, price, used) BY DEF LocalInv
  <1>2. Copies \subseteq Data BY <1>1 DEF CopySound
  <1>3. LocalTypeOK BY <1>2 DEF LocalTypeOK, LocalInv, LocalTypes, FormsSound, Drawer, Teams
  <1>4. CopiesSound
    <2> SUFFICES ASSUME NEW d \in Copies
                 PROVE  /\ d.registered => \E m \in Members : d.role[m] = "Admin"
                        /\ \A i, j \in Issued(d) : d.invoices[i].no = d.invoices[j].no => i = j
                        /\ \A e \in Copies : \A i \in Issued(d) \cap Issued(e) :
                             d.invoices[i].dues = e.invoices[i].dues
      BY DEF CopiesSound
    <2>1. CopySound(d, price, used) BY <1>1
    <2>2. d.registered => \E m \in Members : d.role[m] = "Admin"
      BY <2>1, Zenon DEF CopySound, HasAdmin
    <2>3. \A i, j \in Issued(d) : d.invoices[i].no = d.invoices[j].no => i = j
      BY <2>1 DEF CopySound
    <2>4. \A e \in Copies : \A i \in Issued(d) \cap Issued(e) :
            d.invoices[i].dues = e.invoices[i].dues
      BY <1>1 DEF CopySound
    <2> QED BY <2>2, <2>3, <2>4
  <1> QED BY <1>3, <1>4

\* However many tabs overwrite each other's data, and in whatever order their events arrive,
\* every copy has an Admin, no number is given to two invoices, and an invoice is worth the
\* same in all of them.
THEOREM CopiesSoundAlways == LocalSpec => []CopiesSound
  <1> QED BY LocalInitial, LocalStep, LocalInvImplies, PTL DEF LocalSpec

-----------------------------------------------------------------------------
(* Closing a voyage out: the inductive invariant                            *)

Records == [reports : Seq(Report), invoices : Seq(Invoice), payment : Payments]
Quantities == [Lines -> Finals \cup {Blank}]
Drafts == [sheet : 0..MaxSheets, quantity : Quantities]
Shown == [page : {"away", "readings", "invoice"}, sheet : 1..MaxSheets, record : Records,
          draft : Drafts, revising : BOOLEAN, editing : BOOLEAN, input : Input \cup {NoInput}]

\* A version approved by somebody other than its preparer, or saved before the review step.
Reviewed(report) ==
  \/ report.status = "missing"
  \/ report.status = "approved" /\ report.reviewer \notin {NoUser, report.by}

\* What an invoice asks for when it asks for money: the entitlement of every line beyond the
\* earlier charges, on a paid declaration and without a lower line.
Charges(report, v) ==
  /\ v.input.payment = "paid"
  /\ \A l \in Lines : ~Below(report, l) /\ v.input.rate[l] # NoRate
  /\ v.total = SumFunctionOnSet([l \in Lines |-> Entitlement(report, v.input, l)
                                                   - v.input.previous[l]], Lines)

\* Nobody approved a version of their own; every invoice of a record rests on an approved
\* version of it, and its total is due.
RecordSound(r) ==
  /\ r \in Records /\ Len(r.reports) <= MaxReports
  /\ \A i \in DOMAIN r.reports : reportStatus(r.reports[i]) = "approved" => Reviewed(r.reports[i])
  /\ \A n \in DOMAIN r.invoices :
       /\ r.invoices[n].report \in DOMAIN r.reports
       /\ Reviewed(r.reports[r.invoices[n].report])
       /\ r.invoices[n].total > 0 => Charges(r.reports[r.invoices[n].report], r.invoices[n])

\* A tab by itself: it shows what was stored, and its editor has details while it is shown.
TabSound(w, n) ==
  /\ w \in Shown /\ w.sheet <= n /\ w.draft.sheet <= n
  /\ EditorShown(w) => w.input \in Input

CloseoutInv ==
  /\ voyage \in CloseoutScope
  /\ sheets \in Seq(Quantities) /\ Len(sheets) \in 1..MaxSheets
  /\ user \in Users
  /\ RecordSound(store)
  /\ tab \in [Tabs -> Shown] /\ \A t \in Tabs : TabSound(tab[t], Len(sheets))

-----------------------------------------------------------------------------
(* Closing a voyage out: reports and drafts                                 *)

\* The last of some positions, or none.
LEMMA LastPosition ==
  ASSUME NEW n \in Nat, NEW S \in SUBSET (1..n)
  PROVE  Max({0} \cup S) \in 0..n /\ (Max({0} \cup S) > 0 => Max({0} \cup S) \in S)
  <1>1. IsFiniteSet({0} \cup S)
    <2>1. IsFiniteSet(0..n) BY FS_Interval
    <2>2. {0} \cup S \subseteq 0..n OBVIOUS
    <2> QED BY <2>1, <2>2, FS_Subset
  <1>2. {0} \cup S \in SUBSET Int /\ {0} \cup S # {} OBVIOUS
  <1>3. Max({0} \cup S) \in {0} \cup S BY <1>1, <1>2, MaxFinite
  <1>4. PICK m : m = Max({0} \cup S) OBVIOUS
  <1>5. m = 0 \/ m \in S BY <1>3, <1>4
  <1>6. m \in 0..n
    <2>1. \A y \in S : y \in 0..n OBVIOUS
    <2>2. 0 \in 0..n OBVIOUS
    <2> QED BY <1>5, <2>1, <2>2
  <1>7. m > 0 => m \in S BY <1>5
  <1> QED BY <1>4, <1>6, <1>7

\* The fields of a record, of a report and of an invoice.
LEMMA RecordFields ==
  ASSUME NEW r \in Records
  PROVE  /\ r.reports \in Seq(Report) /\ r.invoices \in Seq(Invoice) /\ r.payment \in Payments
         /\ Len(r.reports) \in Nat /\ DOMAIN r.reports = 1..Len(r.reports)
         /\ Len(r.invoices) \in Nat /\ DOMAIN r.invoices = 1..Len(r.invoices)
         /\ \A i \in 1..Len(r.reports) : r.reports[i] \in Report
         /\ \A i \in 1..Len(r.invoices) : r.invoices[i] \in Invoice
  <1>1. r.reports \in Seq(Report) /\ r.invoices \in Seq(Invoice) /\ r.payment \in Payments
    BY DEF Records
  <1> QED BY <1>1

\* The report that counts is an approved one (currentReport).
LEMMA CurrentIsApproved ==
  ASSUME NEW r \in Records, NEW sheet
  PROVE  /\ currentReport(sheet, r) \in 0..Len(r.reports)
         /\ currentReport(sheet, r) > 0 => reportStatus(r.reports[currentReport(sheet, r)]) = "approved"
  <1> DEFINE S == {i \in DOMAIN r.reports : reportStatus(r.reports[i]) = "approved"}
  <1>1. Len(r.reports) \in Nat /\ S \in SUBSET (1..Len(r.reports)) BY RecordFields
  <1>2. NewestApproved(r) = Max({0} \cup S) BY DEF NewestApproved
  <1>3. NewestApproved(r) \in 0..Len(r.reports) /\ (NewestApproved(r) > 0 => NewestApproved(r) \in S)
    <2> HIDE DEF S
    <2> QED BY <1>1, <1>2, LastPosition
  <1> QED BY <1>1, <1>3 DEF currentReport

\* The report that waits for a reviewer is the last (pendingReport).
LEMMA PendingIsLast ==
  ASSUME NEW r \in Records, NEW sheet
  PROVE  /\ pendingReport(sheet, r) \in {0, Len(r.reports)}
         /\ pendingReport(sheet, r) \in 0..Len(r.reports)
  BY RecordFields DEF pendingReport

\* The version sent back is the last (ReturnedHere).
LEMMA ReturnedIsLast ==
  ASSUME NEW r \in Records, NEW sheet
  PROVE  ReturnedHere(sheet, r) \in 0..Len(r.reports)
  BY RecordFields DEF ReturnedHere

\* The newest invoice of a report is one of the record's (InvoiceOf).
LEMMA NewestInvoice ==
  ASSUME NEW r \in Records, NEW i
  PROVE  InvoiceOf(r, i) \in 0..Len(r.invoices)
  <1> DEFINE S == {n \in DOMAIN r.invoices : r.invoices[n].report = i}
  <1>1. Len(r.invoices) \in Nat /\ S \in SUBSET (1..Len(r.invoices)) BY RecordFields
  <1>2. InvoiceOf(r, i) = Max({0} \cup S) BY DEF InvoiceOf
  <1> HIDE DEF S
  <1> QED BY <1>1, <1>2, LastPosition

\* A draft begins with quantities of the version it starts from or of the declaration (initialDraft).
LEMMA InitialDraftTyped ==
  ASSUME NEW r \in Records, NEW base \in 0..Len(r.reports), NEW n \in 1..MaxSheets
  PROVE  initialDraft(n, r, base) \in Drafts /\ initialDraft(n, r, base).sheet = n
  <1> DEFINE q == [l \in Lines |-> CASE base > 0 -> r.reports[base].quantity[l]
                                     [] base = 0 /\ Agrees(n, l) -> Declared
                                     [] OTHER -> Blank]
  <1>1. base \in Nat /\ (base > 0 => r.reports[base] \in Report) BY RecordFields
  <1>2. ASSUME NEW l \in Lines PROVE q[l] \in Finals \cup {Blank}
    <2>1. CASE base > 0
      <3>1. r.reports[base].quantity \in [Lines -> Finals] BY <1>1, <2>1 DEF Report
      <3>2. q[l] = r.reports[base].quantity[l] BY <1>1, <2>1
      <3> QED BY <3>1, <3>2
    <2>2. CASE base = 0 /\ Agrees(n, l)
      <3>1. q[l] = Declared BY <2>2
      <3> QED BY <3>1, CloseoutAssumption
    <2>3. CASE base = 0 /\ ~Agrees(n, l)
      <3>1. q[l] = Blank BY <2>3
      <3> QED BY <3>1
    <2> QED BY <1>1, <2>1, <2>2, <2>3
  <1>3. q \in Quantities BY <1>2 DEF Quantities
  <1>4. initialDraft(n, r, base) = [sheet |-> n, quantity |-> q] BY DEF initialDraft
  <1>5. n \in 0..MaxSheets BY CloseoutAssumption
  <1> HIDE DEF q
  <1> QED BY <1>3, <1>4, <1>5 DEF Drafts

-----------------------------------------------------------------------------
(* Closing a voyage out: what a tab shows                                   *)

\* The fields of a tab.
LEMMA ShownFields ==
  ASSUME NEW w \in Shown
  PROVE  /\ w.page \in {"away", "readings", "invoice"} /\ w.sheet \in 1..MaxSheets
         /\ w.record \in Records /\ w.draft \in Drafts
         /\ w.revising \in BOOLEAN /\ w.editing \in BOOLEAN /\ w.input \in Input \cup {NoInput}
  BY DEF Shown

\* What the voyage and the tariff fill in are details of an invoice (invoiceInputFor).
LEMMA InputFilledIn ==
  ASSUME NEW report, NEW payment \in Payments
  PROVE  invoiceInputFor(report, payment) \in Input
  <1> DEFINE rate == [l \in Lines |-> IF Tariff[l] # NoRate \/ Above(report, l) THEN Tariff[l] ELSE 0]
             prev == [l \in Lines |-> 0]
  <1>1. rate \in [Lines -> Rates \cup {0, NoRate}] BY CloseoutAssumption
  <1>2. prev \in [Lines -> Previous] BY CloseoutAssumption
  <1>3. invoiceInputFor(report, payment) = [payment |-> payment, rate |-> rate, previous |-> prev]
    BY DEF invoiceInputFor
  <1> HIDE DEF rate, prev
  <1> QED BY <1>1, <1>2, <1>3 DEF Input

\* The editor is only shown for an approved report (EditorShown).
LEMMA EditorNeedsReport ==
  ASSUME NEW w, EditorShown(w)
  PROVE  w.page = "invoice" /\ currentReport(w.sheet, w.record) > 0
  BY Zenon DEF EditorShown

\* Whether the editor is shown does not depend on its details.
LEMMA SameEditor ==
  ASSUME NEW w, NEW v, w.page = v.page, w.sheet = v.sheet, w.record = v.record, w.editing = v.editing
  PROVE  EditorShown(w) <=> EditorShown(v)
  BY Zenon DEF EditorShown, CurrentInvoice

\* The editor starts from the newest invoice or from what is known of the voyage (EditorInput).
LEMMA EditorInputTyped ==
  ASSUME NEW w \in Shown PROVE EditorInput(w) \in Input
  <1>1. w.record \in Records BY ShownFields
  <1>2. CurrentInvoice(w) \in 0..Len(w.record.invoices) BY <1>1, NewestInvoice DEF CurrentInvoice
  <1>3. CASE CurrentInvoice(w) > 0
    <2>1. w.record.invoices[CurrentInvoice(w)] \in Invoice BY <1>1, <1>2, <1>3, RecordFields
    <2>2. w.record.invoices[CurrentInvoice(w)].input \in Input BY <2>1 DEF Invoice
    <2> QED BY <1>3, <2>2 DEF EditorInput
  <1>4. CASE ~(CurrentInvoice(w) > 0)
    <2>1. w.record.payment \in Payments BY <1>1, RecordFields
    <2> QED BY <1>4, <2>1, InputFilledIn DEF EditorInput
  <1> QED BY <1>3, <1>4

\* A page that is not open shows the record and has no editor (Unopened).
LEMMA UnopenedSound ==
  ASSUME NEW r \in Records, NEW n \in 1..MaxSheets
  PROVE  TabSound(Unopened(r, n), n)
  <1> DEFINE w == Unopened(r, n)
  <1>1. NoDraft \in Drafts /\ NoDraft.sheet = 0
    <2>1. [l \in Lines |-> Blank] \in Quantities BY DEF Quantities
    <2>2. 0 \in 0..MaxSheets BY CloseoutAssumption
    <2> QED BY <2>1, <2>2 DEF NoDraft, Drafts
  <1>2. w \in Shown /\ w.sheet = n /\ w.draft = NoDraft /\ w.page = "away"
    BY <1>1 DEF Unopened, Shown
  <1> HIDE DEF w
  <1>3. ~EditorShown(w) BY <1>2, EditorNeedsReport
  <1>4. n <= n /\ 0 <= n BY CloseoutAssumption
  <1>5. TabSound(w, n) BY <1>1, <1>2, <1>3, <1>4 DEF TabSound
  <1> QED BY <1>5 DEF w

\* Rendering gives the editor its details while it is shown (Rendered).
LEMMA RenderedSound ==
  ASSUME NEW n \in Nat, NEW w \in Shown, w.sheet <= n, w.draft.sheet <= n
  PROVE  TabSound(Rendered(w), n)
  <1> DEFINE v == Rendered(w)
  <1>1. CASE ~EditorShown(w)
    <2>1. v = [w EXCEPT !.input = NoInput] BY <1>1 DEF Rendered
    <2>2. v \in Shown /\ v.page = w.page /\ v.sheet = w.sheet /\ v.record = w.record
          /\ v.editing = w.editing /\ v.draft = w.draft
      BY <2>1 DEF Shown
    <2> HIDE DEF v
    <2>3. ~EditorShown(v) BY <1>1, <2>2, SameEditor
    <2>4. TabSound(v, n) BY <2>2, <2>3 DEF TabSound
    <2> QED BY <2>4 DEF v
  <1>2. CASE EditorShown(w) /\ w.input = NoInput
    <2>1. v = [w EXCEPT !.input = EditorInput(w)] BY <1>2 DEF Rendered
    <2>2. EditorInput(w) \in Input BY EditorInputTyped
    <2>3. v \in Shown /\ v.page = w.page /\ v.sheet = w.sheet /\ v.record = w.record
          /\ v.editing = w.editing /\ v.draft = w.draft /\ v.input = EditorInput(w)
      BY <2>1, <2>2 DEF Shown
    <2> HIDE DEF v
    <2>4. TabSound(v, n) BY <2>2, <2>3 DEF TabSound
    <2> QED BY <2>4 DEF v
  <1>3. CASE EditorShown(w) /\ w.input # NoInput
    <2>1. v = w BY <1>3 DEF Rendered
    <2>2. w.input \in Input BY <1>3, ShownFields
    <2> HIDE DEF v
    <2>3. TabSound(v, n) BY <2>1, <2>2 DEF TabSound
    <2> QED BY <2>3 DEF v
  <1> QED BY <1>1, <1>2, <1>3

\* A tab that is drawn again leaves every tab sound (Draws).
LEMMA DrawsSound ==
  ASSUME CloseoutInv, NEW t \in Tabs, NEW w \in Shown, Draws(t, w), UNCHANGED sheets,
         w.sheet <= Len(sheets), w.draft.sheet <= Len(sheets)
  PROVE  tab' \in [Tabs -> Shown] /\ \A s \in Tabs : TabSound(tab'[s], Len(sheets'))
  <1>1. Len(sheets) \in Nat BY CloseoutAssumption DEF CloseoutInv
  <1>2. TabSound(Rendered(w), Len(sheets)) BY <1>1, RenderedSound
  <1>3. Rendered(w) \in Shown BY <1>2 DEF TabSound
  <1>4. tab' = [tab EXCEPT ![t] = Rendered(w)] BY DEF Draws
  <1>5. tab \in [Tabs -> Shown] /\ \A s \in Tabs : TabSound(tab[s], Len(sheets)) BY DEF CloseoutInv
  <1>6. tab' \in [Tabs -> Shown] BY <1>3, <1>4, <1>5
  <1>7. \A s \in Tabs : TabSound(tab'[s], Len(sheets)) BY <1>2, <1>4, <1>5
  <1> QED BY <1>6, <1>7

-----------------------------------------------------------------------------
(* Closing a voyage out: the amount of an invoice                           *)

\* Rounding half up: the quotient is the only number within half a unit, and no more than
\* what is divided.
LEMMA RoundedOnce ==
  ASSUME NEW x \in Nat, NEW s \in Nat \ {0}
  PROVE  LET c == (x + s \div 2) \div s
         IN  /\ c \in Nat /\ c <= x
             /\ 2 * (s * c - x) <= s /\ 2 * (x - s * c) < s
             /\ \A d \in Nat : 2 * (s * d - x) <= s /\ 2 * (x - s * d) < s => d = c
  <1> DEFINE h == s \div 2
             c == (x + h) \div s
  <1>1. h \in Nat /\ 2 * h <= s /\ s <= 2 * h + 1 OBVIOUS
  <1> HIDE DEF h
  <1>2. c \in Nat /\ s * c <= x + h /\ x + h < s * c + s BY <1>1
  <1> HIDE DEF c
  <1>3. s * c \in Nat BY <1>2
  <1>4. 2 * (s * c - x) <= s /\ 2 * (x - s * c) < s BY <1>1, <1>2, <1>3
  <1>5. c <= x
    <2>1. SUFFICES ASSUME c >= x + 1 PROVE FALSE BY <1>2
    <2>2. s * c >= s * (x + 1) /\ s * (x + 1) = s * x + s /\ s * x >= x BY <1>2, <2>1
    <2>3. s * x \in Nat OBVIOUS
    <2> QED BY <1>1, <1>2, <1>3, <2>2, <2>3
  <1>6. ASSUME NEW d \in Nat, 2 * (s * d - x) <= s, 2 * (x - s * d) < s PROVE d = c
    <2>1. s * d \in Nat OBVIOUS
    <2>2. CASE d >= c + 1
      <3>1. s * d >= s * (c + 1) /\ s * (c + 1) = s * c + s BY <1>2, <2>2
      <3> QED BY <1>3, <1>4, <1>6, <2>1, <3>1
    <2>3. CASE c >= d + 1
      <3>1. s * c >= s * (d + 1) /\ s * (d + 1) = s * d + s BY <1>2, <2>3
      <3> QED BY <1>3, <1>4, <1>6, <2>1, <3>1
    <2> QED BY <1>2, <2>2, <2>3
  <1> QED BY <1>2, <1>4, <1>5, <1>6 DEF c, h

\* What is owed and what is asked for are natural numbers (Entitlement, AmountOf).
LEMMA AmountNat ==
  ASSUME NEW report \in Report, NEW input \in Input, ~Unrated(input), NEW l \in Lines
  PROVE  /\ Entitlement(report, input, l) \in Nat /\ input.previous[l] \in Nat
         /\ AmountOf(report, input, l) \in Nat
         /\ input.previous[l] <= Entitlement(report, input, l) =>
              AmountOf(report, input, l) = Entitlement(report, input, l) - input.previous[l]
  <1>1. report.quantity[l] \in Nat BY CloseoutAssumption DEF Report
  <1>2. input.rate[l] \in Nat
    <2>1. input.rate \in [Lines -> Rates \cup {0, NoRate}] BY DEF Input
    <2>2. input.rate[l] # NoRate BY DEF Unrated
    <2> QED BY <2>1, <2>2, CloseoutAssumption
  <1>3. input.previous[l] \in Nat
    <2>1. input.previous \in [Lines -> Previous] BY DEF Input
    <2> QED BY <2>1, CloseoutAssumption
  <1>4. Entitlement(report, input, l) \in Nat
    <2>1. CASE Above(report, l)
      <3>1. report.quantity[l] - Declared \in Nat BY <1>1, <2>1, CloseoutAssumption DEF Above
      <3>2. (report.quantity[l] - Declared) * input.rate[l] \in Nat BY <1>2, <3>1
      <3>3. PICK x \in Nat : x = (report.quantity[l] - Declared) * input.rate[l] BY <3>2
      <3>4. (x + Scale \div 2) \div Scale \in Nat
        <4>1. Scale \in Nat \ {0} BY CloseoutAssumption
        <4> QED BY <4>1, RoundedOnce
      <3> QED BY <2>1, <3>3, <3>4 DEF Entitlement
    <2>2. CASE ~Above(report, l) BY <2>2 DEF Entitlement
    <2> QED BY <2>1, <2>2
  <1>5. PICK e \in Nat : e = Entitlement(report, input, l) BY <1>4
  <1>6. PICK p \in Nat : p = input.previous[l] BY <1>3
  <1>7. Max({0, e - p}) \in Nat /\ (p <= e => Max({0, e - p}) = e - p)
    <2>1. IsFiniteSet({0, e - p}) /\ {0, e - p} \in SUBSET Int /\ {0, e - p} # {}
      <3>1. IsFiniteSet({0, e - p})
        <4>1. IsFiniteSet({0}) BY FS_Singleton
        <4>2. {0, e - p} = {0} \cup {e - p} OBVIOUS
        <4> QED BY <4>1, <4>2, FS_AddElement
      <3> QED BY <3>1
    <2>2. PICK m : m = Max({0, e - p}) OBVIOUS
    <2>3. m \in {0, e - p} /\ \A y \in {0, e - p} : y <= m BY <2>1, <2>2, MaxFinite
    <2>4. m \in Nat /\ (p <= e => m = e - p) BY <2>3
    <2> QED BY <2>2, <2>4
  <1> QED BY <1>4, <1>3, <1>5, <1>6, <1>7 DEF AmountOf

\* The statuses of an invoice, and what one that asks for money implies (calculateVariation).
LEMMA VariationSound ==
  ASSUME NEW report \in Report, NEW input \in Input, ~Unrated(input)
  PROVE  LET v == calculateVariation(report, input)
         IN  /\ v.total \in Nat /\ v.status \in {"draft", "no-charge", "overpayment-review", "held"}
             /\ v.total > 0 =>
                  /\ v.status = "draft" /\ \A l \in Lines : ~Below(report, l)
                  /\ v.total = SumFunctionOnSet([l \in Lines |-> Entitlement(report, input, l)
                                                                   - input.previous[l]], Lines)
  <1> DEFINE f == [l \in Lines |-> AmountOf(report, input, l)]
             e == [l \in Lines |-> Entitlement(report, input, l) - input.previous[l]]
             total == SumFunctionOnSet(f, Lines)
             has(k) == \E l \in Lines : LineStatus(report, input, l) = k
             status == CASE has("held") -> "held"
                         [] ~has("held") /\ has("overpayment-review") -> "overpayment-review"
                         [] OTHER -> IF total > 0 THEN "draft" ELSE "no-charge"
             v == [status |-> status,
                   total |-> IF status \in {"held", "overpayment-review"} THEN 0 ELSE total]
  <1>0. calculateVariation(report, input) = v BY DEF calculateVariation
  <1>1. total \in Nat
    <2>1. \A l \in Lines : f[l] \in Nat BY AmountNat
    <2>2. IsFiniteSet(Lines) BY CloseoutAssumption
    <2> HIDE DEF f
    <2> QED BY <2>1, <2>2, SumNat
  <1>2. CASE has("held")
    <2>1. status = "held" BY <1>2
    <2>2. v.status = "held" /\ v.total = 0 BY <2>1
    <2> QED BY <1>0, <2>2
  <1>3. CASE ~has("held") /\ has("overpayment-review")
    <2>1. status = "overpayment-review" BY <1>3
    <2>2. v.status = "overpayment-review" /\ v.total = 0 BY <2>1
    <2> QED BY <1>0, <2>2
  <1>4. CASE ~has("held") /\ ~has("overpayment-review")
    <2>1. status = IF total > 0 THEN "draft" ELSE "no-charge" BY <1>4
    <2>2. status \in {"draft", "no-charge"} /\ (total > 0 => status = "draft") BY <2>1
    <2>3. v.status = status /\ v.total = total BY <2>2
    <2>4. ASSUME NEW l \in Lines
          PROVE  ~Below(report, l) /\ input.previous[l] <= Entitlement(report, input, l)
      <3>1. LineStatus(report, input, l) # "held" /\ LineStatus(report, input, l) # "overpayment-review"
        BY <1>4
      <3>2. ~Below(report, l) BY <3>1 DEF LineStatus
      <3>3. ~(input.previous[l] > Entitlement(report, input, l)) BY <3>1, <3>2 DEF LineStatus
      <3> QED BY <3>2, <3>3, AmountNat
    <2>5. total = SumFunctionOnSet(e, Lines)
      <3>1. \A l \in Lines : f[l] \in Int /\ e[l] = f[l] BY <2>4, AmountNat
      <3>2. IsFiniteSet(Lines) BY CloseoutAssumption
      <3> HIDE DEF f, e
      <3> QED BY <3>1, <3>2, SumSame
    <2> HIDE DEF total, status, has, f
    <2> QED BY <1>0, <1>1, <2>2, <2>3, <2>4, <2>5
  <1> QED BY <1>2, <1>3, <1>4

\* Drafting an invoice keeps the versions and the invoices of a record (WithInvoice).
LEMMA InvoiceDrafted ==
  ASSUME NEW r, RecordSound(r), NEW i \in DOMAIN r.reports, Reviewed(r.reports[i]), NEW input \in Input
  PROVE  LET s == WithInvoice(r, i, input)
         IN  /\ RecordSound(s) /\ s.reports = r.reports /\ s.payment = r.payment
             /\ s.invoices = r.invoices \/ \E v \in Invoice : s.invoices = Append(r.invoices, v)
  <1> DEFINE report == r.reports[i]
             outcome == calculateVariation(report, input)
             v == [report |-> i, input |-> input, total |-> outcome.total,
                   status |-> outcome.status, number |-> Len(r.invoices) + 1]
             same == /\ r.invoices # <<>>
                     /\ Last(r.invoices).report = i /\ Last(r.invoices).input = input
             s == [r EXCEPT !.invoices = Append(r.invoices, v)]
  <1>0. WithInvoice(r, i, input) = IF DraftIssue(report, input) \/ same THEN r ELSE s
    BY DEF WithInvoice
  <1>1. CASE DraftIssue(report, input) \/ same
    <2>1. WithInvoice(r, i, input) = r BY <1>0, <1>1
    <2> QED BY <2>1
  <1>2. CASE ~DraftIssue(report, input) /\ ~same
    <2>1. WithInvoice(r, i, input) = s BY <1>0, <1>2
    <2>2. ~Unrated(input) /\ (outcome.status = "draft" => input.payment = "paid") BY <1>2 DEF DraftIssue
    <2>3. r \in Records /\ Len(r.reports) <= MaxReports BY DEF RecordSound
    <2>4. report \in Report /\ i \in 1..MaxReports
      <3>1. i \in 1..Len(r.reports) /\ Len(r.reports) \in Nat BY <2>3, RecordFields
      <3>2. r.reports[i] \in Report BY <2>3, <3>1, RecordFields
      <3> QED BY <2>3, <3>1, <3>2, CloseoutAssumption
    <2>5. /\ outcome.total \in Nat /\ outcome.status \in {"draft", "no-charge", "overpayment-review", "held"}
          /\ outcome.total > 0 =>
                  /\ outcome.status = "draft" /\ \A l \in Lines : ~Below(report, l)
                  /\ outcome.total = SumFunctionOnSet([l \in Lines |-> Entitlement(report, input, l)
                                                                   - input.previous[l]], Lines)
      <3> HIDE DEF report
      <3> QED BY <2>2, <2>4, VariationSound
    <2>6. Len(r.invoices) + 1 \in Nat BY <2>3, RecordFields
    <2> HIDE DEF outcome
    <2>7. v \in Invoice BY <2>4, <2>5, <2>6 DEF Invoice
    <2>8. v.total > 0 => Charges(report, v)
      <3>1. v.input = input /\ v.total = outcome.total OBVIOUS
      <3> HIDE DEF v, report
      <3>2. \A l \in Lines : input.rate[l] # NoRate BY <2>2 DEF Unrated
      <3> QED BY <2>2, <2>5, <3>1, <3>2 DEF Charges
    <2>9. v.report = i OBVIOUS
    <2> HIDE DEF v
    <2>10. Append(r.invoices, v) \in Seq(Invoice) BY <2>3, <2>7, RecordFields
    <2>11. s \in Records /\ s.reports = r.reports /\ s.payment = r.payment
           /\ s.invoices = Append(r.invoices, v)
      BY <2>3, <2>10 DEF Records
    <2> HIDE DEF s
    <2>12. ASSUME NEW n \in DOMAIN s.invoices
           PROVE  /\ s.invoices[n].report \in DOMAIN s.reports
                  /\ Reviewed(s.reports[s.invoices[n].report])
                  /\ s.invoices[n].total > 0 => Charges(s.reports[s.invoices[n].report], s.invoices[n])
      <3>1. CASE n \in DOMAIN r.invoices
        <4>1. s.invoices[n] = r.invoices[n] BY <2>3, <2>11, <3>1, RecordFields
        <4> QED BY <2>11, <3>1, <4>1 DEF RecordSound
      <3>2. CASE n \notin DOMAIN r.invoices
        <4>1. s.invoices[n] = v BY <2>3, <2>11, <3>2, RecordFields
        <4> QED BY <2>8, <2>9, <2>11, <4>1
      <3> QED BY <3>1, <3>2
    <2>13. RecordSound(s) BY <2>3, <2>11, <2>12 DEF RecordSound
    <2> QED BY <2>1, <2>7, <2>11, <2>13
  <1> QED BY <1>1, <1>2

-----------------------------------------------------------------------------
(* Closing a voyage out: the steps                                          *)

\* What an earlier release may have left is sound (LegacyRecord).
LEMMA LegacyRecordSound ==
  ASSUME NEW q \in [Lines -> Finals], user \in Users
  PROVE  RecordSound(LegacyRecord(q))
  <1> DEFINE p == [sheet |-> 1, quantity |-> q, by |-> user, status |-> "missing", reviewer |-> NoUser]
             s == LegacyRecord(q)
  <1>1. p \in Report /\ p.status = "missing" BY CloseoutAssumption DEF Report
  <1>2. s = [EmptyRecord EXCEPT !.reports = <<p>>] BY DEF LegacyRecord
  <1> HIDE DEF p, s
  <1>3. <<p>> \in Seq(Report) /\ Len(<<p>>) = 1 /\ DOMAIN <<p>> = {1} /\ <<p>>[1] = p BY <1>1
  <1>r. PICK z : z = <<p>> OBVIOUS
  <1>4. s \in Records /\ s.reports = <<p>> /\ s.invoices = <<>>
    <2>1. s = [reports |-> z, invoices |-> <<>>, payment |-> "none"] BY <1>2, <1>r DEF EmptyRecord
    <2>2. z \in Seq(Report) BY <1>3, <1>r
    <2> QED BY <1>r, <2>1, <2>2 DEF Records, Payments
  <1>5. Len(s.reports) <= MaxReports BY <1>3, <1>4, CloseoutAssumption
  <1>6. DOMAIN s.invoices = {} BY <1>4
  <1>7. \A i \in DOMAIN s.reports : Reviewed(s.reports[i]) BY <1>1, <1>3, <1>4 DEF Reviewed
  <1>8. RecordSound(s) BY <1>4, <1>5, <1>6, <1>7 DEF RecordSound
  <1> QED BY <1>8 DEF s

\* Initially no tab is open, and nothing is stored but what an earlier release left.
LEMMA CloseoutInitial == CloseoutInit => CloseoutInv
  <1> SUFFICES ASSUME CloseoutInit PROVE CloseoutInv OBVIOUS
  <1>1. voyage \in CloseoutScope /\ user \in Users BY CloseoutAssumption DEF CloseoutInit
  <1>2. voyage.finals \cup {Declared} \subseteq Finals BY <1>1, CloseoutAssumption DEF CloseoutScope
  <1>3. 1 \in 1..MaxSheets /\ 0 \in 0..MaxSheets BY CloseoutAssumption
  <1>4. (\E r \in Quantities : sheets = <<r>>) /\ RecordSound(store)
    <2>1. CASE voyage.legacy = "no"
      <3>1. store = EmptyRecord
            /\ sheets = <<[l \in Lines |-> IF l \in voyage.lines THEN Blank ELSE Declared]>>
        BY <2>1, Zenon DEF CloseoutInit
      <3>2. [l \in Lines |-> IF l \in voyage.lines THEN Blank ELSE Declared] \in Quantities
        BY CloseoutAssumption DEF Quantities
      <3>3. EmptyRecord \in Records /\ EmptyRecord.reports = <<>> /\ EmptyRecord.invoices = <<>>
        BY DEF EmptyRecord, Records, Payments
      <3>4. Len(EmptyRecord.reports) <= MaxReports BY <3>3, CloseoutAssumption
      <3>5. DOMAIN EmptyRecord.invoices = {} /\ DOMAIN EmptyRecord.reports = {} BY <3>3
      <3>6. RecordSound(EmptyRecord) BY <3>3, <3>4, <3>5 DEF RecordSound
      <3> QED BY <3>1, <3>2, <3>6
    <2>2. CASE voyage.legacy # "no"
      <3>1. PICK r, q \in [Lines -> voyage.finals \cup {Declared}] :
              sheets = <<r>> /\ store = LegacyRecord(q)
        BY <2>2, Zenon DEF CloseoutInit
      <3>2. r \in Quantities /\ q \in [Lines -> Finals] BY <1>2, <3>1 DEF Quantities
      <3> QED BY <1>1, <3>1, <3>2, LegacyRecordSound
    <2> QED BY <2>1, <2>2
  <1>5. PICK r \in Quantities : sheets = <<r>> BY <1>4
  <1>6. sheets \in Seq(Quantities) /\ Len(sheets) = 1 BY <1>5
  <1>7. store \in Records BY <1>4 DEF RecordSound
  <1>8. TabSound(Unopened(store, 1), 1) BY <1>3, <1>7, UnopenedSound
  <1>9. tab = [t \in Tabs |-> Unopened(store, 1)] BY Zenon DEF CloseoutInit
  <1>10. tab \in [Tabs -> Shown] /\ \A t \in Tabs : TabSound(tab[t], Len(sheets))
    BY <1>6, <1>8, <1>9 DEF TabSound
  <1> QED BY <1>1, <1>3, <1>4, <1>6, <1>10 DEF CloseoutInv

\* What a step may do to the record: the body of HistoryKept.
Kept(r, s) ==
  /\ IsPrefix(r.invoices, s.invoices)
  /\ Len(r.reports) <= Len(s.reports)
  /\ \A i \in DOMAIN s.reports : i > Len(r.reports) => s.reports[i].status = "submitted"
  /\ \A i \in DOMAIN r.reports :
       s.reports[i] # r.reports[i] =>
         /\ i = Len(r.reports) /\ r.reports[i].status = "submitted"
         /\ s.reports[i] = [r.reports[i] EXCEPT !.status = s.reports[i].status,
                                                !.reviewer = s.reports[i].reviewer]

\* Invoices that are only added keep the earlier ones.
LEMMA InvoicesAdded ==
  ASSUME NEW r \in Records, NEW s \in Records,
         s.invoices = r.invoices \/ \E v \in Invoice : s.invoices = Append(r.invoices, v)
  PROVE  IsPrefix(r.invoices, s.invoices)
  <1>1. r.invoices \in Seq(Invoice) BY RecordFields
  <1>2. CASE s.invoices = r.invoices
    <2>1. Len(r.invoices) <= Len(r.invoices) BY <1>1
    <2> QED BY <1>2, <2>1 DEF IsPrefix
  <1>3. ASSUME NEW v \in Invoice, s.invoices = Append(r.invoices, v)
        PROVE  IsPrefix(r.invoices, s.invoices)
    <2>1. Len(s.invoices) = Len(r.invoices) + 1 /\ Len(r.invoices) \in Nat BY <1>1, <1>3
    <2>2. SubSeq(r.invoices, 1, Len(r.invoices)) = SubSeq(s.invoices, 1, Len(r.invoices))
      BY <1>1, <1>3
    <2> QED BY <2>1, <2>2 DEF IsPrefix
  <1> QED BY <1>2, <1>3

\* A record whose versions stay as they are is kept.
LEMMA SameReports ==
  ASSUME NEW r \in Records, NEW s \in Records, s.reports = r.reports,
         s.invoices = r.invoices \/ \E v \in Invoice : s.invoices = Append(r.invoices, v)
  PROVE  Kept(r, s)
  <1>1. /\ Len(r.reports) <= Len(s.reports)
        /\ \A i \in DOMAIN s.reports : ~(i > Len(r.reports))
    BY RecordFields
  <1> QED BY <1>1, InvoicesAdded DEF Kept

\* A step that only draws a tab keeps the invariant and the history.
LEMMA TabStep ==
  ASSUME CloseoutInv, NEW t \in Tabs, NEW w \in Shown, w.sheet <= Len(sheets),
         w.draft.sheet <= Len(sheets), Draws(t, w), UNCHANGED <<sheets, store, user, voyage>>
  PROVE  CloseoutInv' /\ Kept(store, store')
  <1>1. tab' \in [Tabs -> Shown] /\ \A s \in Tabs : TabSound(tab'[s], Len(sheets')) BY DrawsSound
  <1>2. Kept(store, store') BY SameReports DEF CloseoutInv, RecordSound
  <1> QED BY <1>1, <1>2 DEF CloseoutInv

\* A step that stores a sound record in which the history is kept does too (Keeps).
LEMMA StoreStep ==
  ASSUME CloseoutInv, NEW t \in Tabs, NEW w \in Shown, w.sheet <= Len(sheets),
         w.draft.sheet <= Len(sheets), NEW r, RecordSound(r), Kept(store, r), Keeps(t, r, w),
         UNCHANGED <<sheets, user, voyage>>
  PROVE  CloseoutInv' /\ Kept(store, store')
  <1> DEFINE v == [w EXCEPT !.record = r]
  <1>1. r \in Records BY DEF RecordSound
  <1>2. v \in Shown /\ v.sheet = w.sheet /\ v.draft = w.draft BY <1>1 DEF Shown
  <1>3. Draws(t, v) /\ store' = r BY DEF Keeps
  <1> HIDE DEF v
  <1>4. tab' \in [Tabs -> Shown] /\ \A s \in Tabs : TabSound(tab'[s], Len(sheets'))
    BY <1>2, <1>3, DrawsSound
  <1> QED BY <1>3, <1>4 DEF CloseoutInv

\* What the invariant says of a tab.
LEMMA TabFields ==
  ASSUME CloseoutInv, NEW t \in Tabs
  PROVE  /\ tab[t] \in Shown /\ TabSound(tab[t], Len(sheets))
         /\ tab[t].sheet <= Len(sheets) /\ tab[t].draft.sheet <= Len(sheets)
         /\ tab[t].record \in Records /\ tab[t].sheet \in 1..MaxSheets
         /\ store \in Records /\ Len(sheets) \in 1..MaxSheets
  <1>1. tab[t] \in Shown /\ TabSound(tab[t], Len(sheets)) BY DEF CloseoutInv
  <1>2. store \in Records /\ Len(sheets) \in 1..MaxSheets BY DEF CloseoutInv, RecordSound
  <1> QED BY <1>1, <1>2, ShownFields DEF TabSound

\* The steps around a tab.
LEMMA AroundKeeps ==
  ASSUME CloseoutInv, Around PROVE CloseoutInv' /\ Kept(store, store')
  <1>1. ASSUME NEW r \in [Lines -> voyage.finals], NewReading(r)
        PROVE  CloseoutInv' /\ Kept(store, store')
    <2>1. r \in Quantities
      <3>1. voyage.finals \subseteq Finals BY DEF CloseoutInv, CloseoutScope
      <3> QED BY <3>1 DEF Quantities
    <2>2. sheets \in Seq(Quantities) /\ Len(sheets) \in 1..MaxSheets BY DEF CloseoutInv
    <2>3. Len(sheets) < MaxSheets /\ sheets' = Append(sheets, r) /\ UNCHANGED <<store, tab, user, voyage>>
      BY <1>1 DEF NewReading
    <2>4. MaxSheets \in Nat BY CloseoutAssumption
    <2>5. sheets' \in Seq(Quantities) /\ Len(sheets') = Len(sheets) + 1 /\ Len(sheets') \in 1..MaxSheets
      BY <2>1, <2>2, <2>3, <2>4
    <2>6. ASSUME NEW t \in Tabs PROVE TabSound(tab[t], Len(sheets'))
      <3>1. tab[t] \in Shown /\ TabSound(tab[t], Len(sheets)) BY TabFields
      <3>2. tab[t].sheet \in Nat /\ tab[t].draft.sheet \in Nat
        BY <2>4, <3>1, ShownFields DEF Drafts
      <3> QED BY <2>2, <2>5, <3>1, <3>2 DEF TabSound
    <2>7. Kept(store, store') BY <2>3, SameReports DEF CloseoutInv, RecordSound
    <2> QED BY <2>3, <2>5, <2>6, <2>7 DEF CloseoutInv
  <1>2. ASSUME NEW u \in Users, SignIn(u) PROVE CloseoutInv' /\ Kept(store, store')
    <2>1. user' = u /\ tab' = [t \in Tabs |-> Unopened(store, Len(sheets))]
          /\ UNCHANGED <<sheets, store, voyage>>
      BY <1>2 DEF SignIn
    <2>2. store \in Records /\ Len(sheets) \in 1..MaxSheets BY DEF CloseoutInv, RecordSound
    <2>3. TabSound(Unopened(store, Len(sheets)), Len(sheets)) BY <2>2, UnopenedSound
    <2>4. tab' \in [Tabs -> Shown] /\ \A t \in Tabs : TabSound(tab'[t], Len(sheets'))
      BY <2>1, <2>3 DEF TabSound
    <2>5. Kept(store, store') BY <2>1, <2>2, SameReports
    <2> QED BY <2>1, <2>4, <2>5 DEF CloseoutInv
  <1>3. ASSUME NEW t \in voyage.tabs, Refetch(t) PROVE CloseoutInv' /\ Kept(store, store')
    <2>0. t \in Tabs BY DEF CloseoutInv, CloseoutScope
    <2> DEFINE w == [tab[t] EXCEPT !.sheet = Len(sheets)]
    <2>1. w \in Shown /\ w.sheet = Len(sheets) /\ w.draft = tab[t].draft
      BY <2>0, TabFields DEF Shown
    <2>2. Draws(t, w) /\ UNCHANGED <<sheets, store, user, voyage>> BY <1>3 DEF Refetch
    <2>3. Len(sheets) <= Len(sheets) BY <2>0, TabFields, CloseoutAssumption
    <2> HIDE DEF w
    <2> QED BY <2>0, <2>1, <2>2, <2>3, TabFields, TabStep
  <1>4. ASSUME NEW t \in voyage.tabs, StorageEvent(t) PROVE CloseoutInv' /\ Kept(store, store')
    <2>0. t \in Tabs BY DEF CloseoutInv, CloseoutScope
    <2> DEFINE w == [tab[t] EXCEPT !.record = store]
    <2>1. w \in Shown /\ w.sheet = tab[t].sheet /\ w.draft = tab[t].draft
      BY <2>0, TabFields DEF Shown
    <2>2. Draws(t, w) /\ UNCHANGED <<sheets, store, user, voyage>> BY <1>4 DEF StorageEvent
    <2> HIDE DEF w
    <2> QED BY <2>0, <2>1, <2>2, TabFields, TabStep
  <1>5. ASSUME NEW t \in voyage.tabs, NEW page \in {"away", "readings", "invoice"}, OpenPage(t, page)
        PROVE  CloseoutInv' /\ Kept(store, store')
    <2>0. t \in Tabs BY DEF CloseoutInv, CloseoutScope
    <2> DEFINE n == tab[t].sheet
               u == Unopened(store, n)
               d == IF page = "readings" THEN initialDraft(n, store, ReturnedHere(n, store)) ELSE u.draft
               w == [u EXCEPT !.page = page, !.draft = d]
    <2>1. store \in Records /\ n \in 1..MaxSheets /\ n <= Len(sheets) /\ Len(sheets) \in Nat
      BY <2>0, TabFields, CloseoutAssumption
    <2>2. Draws(t, w) /\ UNCHANGED <<sheets, store, user, voyage>> BY <1>5 DEF OpenPage
    <2> HIDE DEF n
    <2>3. u \in Shown /\ u.sheet <= n /\ u.draft.sheet <= n /\ u.sheet = n
      <3>1. TabSound(u, n) BY <2>1, UnopenedSound
      <3>2. u.sheet = n BY DEF Unopened
      <3> QED BY <3>1, <3>2 DEF TabSound
    <2>4. d \in Drafts /\ d.sheet <= n
      <3>1. initialDraft(n, store, ReturnedHere(n, store)) \in Drafts
            /\ initialDraft(n, store, ReturnedHere(n, store)).sheet = n
        BY <2>1, ReturnedIsLast, InitialDraftTyped
      <3>2. u.draft \in Drafts BY <2>3, ShownFields
      <3>3. n <= n BY <2>1, CloseoutAssumption
      <3> QED BY <2>3, <3>1, <3>2, <3>3
    <2> HIDE DEF u, d
    <2>5. w \in Shown /\ w.sheet = n /\ w.draft = d BY <2>3, <2>4 DEF Shown
    <2>6. d.sheet \in Nat BY <2>4, CloseoutAssumption DEF Drafts
    <2>7. d.sheet <= Len(sheets)
      <3>1. n \in Nat BY <2>1
      <3> QED BY <2>1, <2>4, <2>6, <3>1
    <2> HIDE DEF w
    <2> QED BY <2>0, <2>1, <2>2, <2>5, <2>7, TabStep
  <1> QED BY <1>1, <1>2, <1>3, <1>4, <1>5 DEF Around

\* A version is added at the end, unless it waits already (submitReport).
LEMMA SubmitKeepsHistory ==
  ASSUME NEW r, RecordSound(r), NEW d \in Drafts, d.sheet \in 1..MaxSheets,
         d.quantity \in [Lines -> Finals], user \in Users, Len(r.reports) < MaxReports
  PROVE  RecordSound(submitReport(r, d)) /\ Kept(r, submitReport(r, d))
  <1> DEFINE p == [sheet |-> d.sheet, quantity |-> d.quantity, by |-> user,
                   status |-> "submitted", reviewer |-> NoUser]
             same == /\ LastIs(r, "submitted")
                     /\ Last(r.reports).sheet = d.sheet /\ Last(r.reports).quantity = d.quantity
             s == [r EXCEPT !.reports = Append(r.reports, p)]
  <1>0. submitReport(r, d) = IF same THEN r ELSE s BY DEF submitReport
  <1>1. r \in Records BY DEF RecordSound
  <1>2. CASE same
    <2>1. submitReport(r, d) = r BY <1>0, <1>2
    <2> QED BY <1>1, <2>1, SameReports
  <1>3. CASE ~same
    <2>1. submitReport(r, d) = s BY <1>0, <1>3
    <2>2. p \in Report /\ p.status = "submitted" BY DEF Report
    <2> HIDE DEF p
    <2>3. r.reports \in Seq(Report) /\ Len(r.reports) \in Nat BY <1>1, RecordFields
    <2>4. /\ Append(r.reports, p) \in Seq(Report) /\ Len(Append(r.reports, p)) = Len(r.reports) + 1
          /\ \A i \in DOMAIN r.reports : /\ Append(r.reports, p)[i] = r.reports[i]
                                        /\ i \in DOMAIN Append(r.reports, p)
          /\ \A i \in DOMAIN Append(r.reports, p) : i \in DOMAIN r.reports \/ Append(r.reports, p)[i] = p
      BY <2>2, <2>3
    <2>5. s \in Records /\ s.reports = Append(r.reports, p) /\ s.invoices = r.invoices
      BY <1>1, <2>4 DEF Records
    <2> HIDE DEF s
    <2>6. Len(s.reports) <= MaxReports /\ Len(r.reports) <= Len(s.reports)
      BY <2>3, <2>4, <2>5, CloseoutAssumption
    <2>7. RecordSound(s)
      <3>0. reportStatus(p) # "approved" BY <2>2 DEF reportStatus
      <3>1. \A i \in DOMAIN s.reports : reportStatus(s.reports[i]) = "approved" => Reviewed(s.reports[i])
        BY <2>4, <2>5, <3>0 DEF RecordSound
      <3> QED BY <2>4, <2>5, <2>6, <3>1 DEF RecordSound
    <2>8. Kept(r, s)
      <3>1. \A i \in DOMAIN s.reports : i > Len(r.reports) => s.reports[i].status = "submitted"
        <4>1. \A i \in DOMAIN r.reports : ~(i > Len(r.reports)) BY <2>3
        <4> QED BY <2>2, <2>4, <2>5, <4>1
      <3> QED BY <1>1, <2>4, <2>5, <2>6, <3>1, InvoicesAdded DEF Kept
    <2> QED BY <2>1, <2>7, <2>8
  <1> QED BY <1>2, <1>3

\* The steps of the preparer.
LEMMA PrepareKeeps ==
  ASSUME CloseoutInv, NEW t \in Tabs, Prepare(t) PROVE CloseoutInv' /\ Kept(store, store')
  <1> DEFINE w == tab[t]
  <1>0. /\ w \in Shown /\ w.sheet <= Len(sheets) /\ w.draft.sheet <= Len(sheets)
        /\ w.record \in Records /\ w.sheet \in 1..MaxSheets /\ w.draft \in Drafts
    BY TabFields, ShownFields
  <1>1. ASSUME NEW l \in Lines, NEW q \in voyage.finals, Decide(t, l, q)
        PROVE  CloseoutInv' /\ Kept(store, store')
    <2> DEFINE d == [w.draft EXCEPT !.quantity[l] = q]
               v == [w EXCEPT !.draft = d]
    <2>1. q \in Finals BY DEF CloseoutInv, CloseoutScope
    <2>2. [w.draft.quantity EXCEPT ![l] = q] \in Quantities BY <1>0, <2>1 DEF Drafts, Quantities
    <2>3. d \in Drafts /\ d.sheet = w.draft.sheet BY <1>0, <2>2 DEF Drafts
    <2>4. Draws(t, v) /\ UNCHANGED <<sheets, store, user, voyage>> BY <1>1 DEF Decide
    <2> HIDE DEF d
    <2>5. v \in Shown /\ v.sheet = w.sheet /\ v.draft = d BY <1>0, <2>3 DEF Shown
    <2> HIDE DEF v, w
    <2> QED BY <1>0, <2>3, <2>4, <2>5, TabStep
  <1>2. ASSUME LoadLatest(t) PROVE CloseoutInv' /\ Kept(store, store')
    <2> DEFINE d == initialDraft(w.sheet, w.record, ReturnedHere(w.sheet, w.record))
               v == [w EXCEPT !.draft = d]
    <2>1. Draws(t, v) /\ UNCHANGED <<sheets, store, user, voyage>> BY <1>2 DEF LoadLatest
    <2> HIDE DEF w
    <2>2. d \in Drafts /\ d.sheet = w.sheet BY <1>0, ReturnedIsLast, InitialDraftTyped
    <2> HIDE DEF d
    <2>3. v \in Shown /\ v.sheet = w.sheet /\ v.draft = d BY <1>0, <2>2 DEF Shown
    <2> HIDE DEF v
    <2> QED BY <1>0, <2>1, <2>2, <2>3, TabStep
  <1>3. ASSUME StartRevision(t) PROVE CloseoutInv' /\ Kept(store, store')
    <2> DEFINE d == initialDraft(w.sheet, w.record, Approved(t))
               v == [w EXCEPT !.revising = TRUE, !.draft = d]
    <2>1. Draws(t, v) /\ UNCHANGED <<sheets, store, user, voyage>> BY <1>3 DEF StartRevision
    <2>2. Approved(t) \in 0..Len(w.record.reports) BY <1>0, CurrentIsApproved DEF Approved
    <2> HIDE DEF w
    <2>3. d \in Drafts /\ d.sheet = w.sheet BY <1>0, <2>2, InitialDraftTyped
    <2> HIDE DEF d
    <2>4. v \in Shown /\ v.sheet = w.sheet /\ v.draft = d BY <1>0, <2>3 DEF Shown
    <2> HIDE DEF v
    <2> QED BY <1>0, <2>1, <2>3, <2>4, TabStep
  <1>4. ASSUME CancelRevision(t) PROVE CloseoutInv' /\ Kept(store, store')
    <2> DEFINE v == [w EXCEPT !.revising = FALSE]
    <2>1. Draws(t, v) /\ UNCHANGED <<sheets, store, user, voyage>> BY <1>4 DEF CancelRevision
    <2> HIDE DEF w
    <2>2. v \in Shown /\ v.sheet = w.sheet /\ v.draft = w.draft BY <1>0 DEF Shown
    <2> HIDE DEF v
    <2> QED BY <1>0, <2>1, <2>2, TabStep
  <1>5. ASSUME Submit(t) PROVE CloseoutInv' /\ Kept(store, store')
    <2> DEFINE v == [w EXCEPT !.revising = FALSE]
               r == submitReport(store, w.draft)
    <2>1. /\ ~StaleDraft(t) /\ DraftComplete(t) /\ Len(store.reports) < voyage.reports
          /\ Keeps(t, r, v) /\ UNCHANGED <<sheets, user, voyage>>
      BY <1>5 DEF Submit, SavedRecord
    <2>2. w.draft.sheet = w.sheet /\ \A l \in Lines : w.draft.quantity[l] # Blank
      BY <2>1 DEF StaleDraft, DraftComplete
    <2> HIDE DEF w
    <2>3. w.draft.quantity \in [Lines -> Finals] BY <1>0, <2>2 DEF Drafts, Quantities
    <2>4. RecordSound(store) /\ user \in Users BY DEF CloseoutInv
    <2>5. Len(store.reports) < MaxReports
      <3>1. voyage.reports \in 0..MaxReports BY DEF CloseoutInv, CloseoutScope
      <3>2. Len(store.reports) \in Nat BY <2>4, RecordFields DEF RecordSound
      <3> QED BY <2>1, <3>1, <3>2, CloseoutAssumption
    <2>6. RecordSound(r) /\ Kept(store, r)
      BY <1>0, <2>2, <2>3, <2>4, <2>5, SubmitKeepsHistory
    <2>7. v \in Shown /\ v.sheet = w.sheet /\ v.draft = w.draft BY <1>0 DEF Shown
    <2> HIDE DEF v, r
    <2> QED BY <1>0, <2>1, <2>6, <2>7, StoreStep
  <1> QED BY <1>1, <1>2, <1>3, <1>4, <1>5 DEF Prepare

\* A decision on the last version changes nothing else (Decided).
LEMMA DecidedKeepsHistory ==
  ASSUME NEW r, RecordSound(r), NEW i, i = Len(r.reports), i \in DOMAIN r.reports,
         r.reports[i].status = "submitted", NEW st \in {"approved", "returned"}, user \in Users,
         st = "approved" => r.reports[i].by # user
  PROVE  LET s == Decided(r, i, st)
         IN  /\ RecordSound(s) /\ Kept(r, s) /\ s.invoices = r.invoices /\ s.payment = r.payment
             /\ DOMAIN s.reports = DOMAIN r.reports
             /\ s.reports[i].status = st /\ s.reports[i].reviewer = user
             /\ s.reports[i].by = r.reports[i].by
  <1> DEFINE p == [r.reports[i] EXCEPT !.status = st, !.reviewer = user]
             q == [r.reports EXCEPT ![i] = p]
             s == Decided(r, i, st)
  <1>1. r \in Records BY DEF RecordSound
  <1>2. r.reports \in Seq(Report) /\ i \in 1..Len(r.reports) /\ r.reports[i] \in Report
    BY <1>1, RecordFields
  <1>3. p \in Report /\ p.status = st /\ p.reviewer = user /\ p.by = r.reports[i].by
    BY <1>2 DEF Report
  <1>4. s = [r EXCEPT !.reports = [[r.reports EXCEPT ![i].status = st] EXCEPT ![i].reviewer = user]]
    BY DEF Decided
  <1>5. [[r.reports EXCEPT ![i].status = st] EXCEPT ![i].reviewer = user] = q BY <1>2
  <1> HIDE DEF p
  <1>6. /\ q \in Seq(Report) /\ Len(q) = Len(r.reports) /\ DOMAIN q = DOMAIN r.reports
        /\ \A j \in DOMAIN r.reports : q[j] = IF j = i THEN p ELSE r.reports[j]
    BY <1>2, <1>3
  <1> HIDE DEF q, s
  <1>7. s = [r EXCEPT !.reports = q] BY <1>4, <1>5
  <1>8. s \in Records /\ s.reports = q /\ s.invoices = r.invoices /\ s.payment = r.payment
    BY <1>1, <1>6, <1>7 DEF Records
  <1>9. RecordSound(s)
    <2>1. Len(s.reports) <= MaxReports BY <1>6, <1>8 DEF RecordSound
    <2>2. ASSUME NEW n \in DOMAIN s.invoices
          PROVE  /\ s.invoices[n].report \in DOMAIN s.reports
                 /\ s.reports[s.invoices[n].report] = r.reports[r.invoices[n].report]
      <3>1. r.invoices[n].report \in DOMAIN r.reports /\ r.invoices[n].report # i
        BY <1>8 DEF RecordSound, Reviewed
      <3> QED BY <1>6, <1>8, <3>1
    <2>3. ASSUME NEW j \in DOMAIN s.reports, reportStatus(s.reports[j]) = "approved"
          PROVE  Reviewed(s.reports[j])
      <3>1. CASE j = i
        <4>1. s.reports[j] = p /\ st = "approved"
          BY <1>3, <1>6, <1>8, <2>3, <3>1 DEF reportStatus
        <4> QED BY <1>3, <4>1, CloseoutAssumption DEF Reviewed
      <3>2. CASE j # i
        <4>1. j \in DOMAIN r.reports /\ s.reports[j] = r.reports[j] BY <1>6, <1>8, <3>2
        <4> QED BY <2>3, <4>1 DEF RecordSound
      <3> QED BY <3>1, <3>2
    <2> QED BY <1>8, <2>1, <2>2, <2>3 DEF RecordSound
  <1>10. Kept(r, s)
    <2>1. IsPrefix(r.invoices, s.invoices) BY <1>1, <1>8, InvoicesAdded
    <2>2. Len(r.reports) <= Len(s.reports) BY <1>2, <1>6, <1>8
    <2>3. s.reports[i] = [r.reports[i] EXCEPT !.status = s.reports[i].status,
                                              !.reviewer = s.reports[i].reviewer]
      <3>1. s.reports[i] = p BY <1>6, <1>8
      <3>2. p = [r.reports[i] EXCEPT !.status = p.status, !.reviewer = p.reviewer] BY <1>3 DEF p
      <3> QED BY <3>1, <3>2
    <2>4. \A j \in DOMAIN r.reports : s.reports[j] # r.reports[j] => j = i BY <1>6, <1>8
    <2>5. \A j \in DOMAIN s.reports : ~(j > Len(r.reports)) BY <1>2, <1>6, <1>8
    <2> QED BY <2>1, <2>2, <2>3, <2>4, <2>5 DEF Kept
  <1> QED BY <1>3, <1>6, <1>8, <1>9, <1>10 DEF s

\* The steps of the reviewer: a version is approved, with its invoice, or sent back.
LEMMA ReviewKeeps ==
  ASSUME CloseoutInv, NEW t \in Tabs, approveReport(t) \/ returnReport(t)
  PROVE  CloseoutInv' /\ Kept(store, store')
  <1> DEFINE w == tab[t]
             i == Pending(t)
  <1>0. /\ w \in Shown /\ w.sheet <= Len(sheets) /\ w.draft.sheet <= Len(sheets)
        /\ w.record \in Records /\ w.sheet \in 1..MaxSheets /\ w.record.payment \in Payments
    BY TabFields, RecordFields
  <1>1. RecordSound(store) /\ store \in Records /\ user \in Users BY DEF CloseoutInv, RecordSound
  <1>2. Reviewing(t) /\ MayReview(store, i) BY DEF approveReport, returnReport, SavedRecord
  <1>3. i \in DOMAIN store.reports /\ i = Len(store.reports) /\ store.reports[i].status = "submitted"
    <2>1. i > 0 /\ i = Len(store.reports) /\ store.reports[i].status = "submitted"
      BY <1>2 DEF Reviewing, MayReview, reportStatus
    <2> HIDE DEF i
    <2> QED BY <1>1, <2>1, RecordFields
  <1>4. CASE approveReport(t)
    <2> DEFINE d == Decided(store, i, "approved")
               input == invoiceInputFor(w.record.reports[i], w.record.payment)
               r == WithInvoice(d, i, input)
    <2>1. /\ store.reports[i].by # user /\ Keeps(t, r, w) /\ UNCHANGED <<sheets, user, voyage>>
      BY <1>4 DEF approveReport, SavedRecord
    <2> HIDE DEF w, i
    <2>2. input \in Input BY <1>0, InputFilledIn
    <2>3. /\ RecordSound(d) /\ Kept(store, d) /\ d.invoices = store.invoices
          /\ DOMAIN d.reports = DOMAIN store.reports
          /\ d.reports[i].status = "approved" /\ d.reports[i].reviewer = user
          /\ d.reports[i].by = store.reports[i].by
      BY <1>1, <1>3, <2>1, DecidedKeepsHistory
    <2> HIDE DEF d, input
    <2>4. Reviewed(d.reports[i]) BY <1>1, <2>1, <2>3, CloseoutAssumption DEF Reviewed
    <2>5. /\ RecordSound(r) /\ r.reports = d.reports
          /\ r.invoices = d.invoices \/ \E v \in Invoice : r.invoices = Append(d.invoices, v)
      BY ONLY <1>3, <2>2, <2>3, <2>4, InvoiceDrafted
    <2> HIDE DEF r
    <2>6. IsPrefix(store.invoices, r.invoices)
      BY <1>1, <2>3, <2>5, InvoicesAdded DEF RecordSound
    <2>7. Kept(store, r) BY <2>3, <2>5, <2>6 DEF Kept
    <2> QED BY <1>0, <2>1, <2>5, <2>7, StoreStep
  <1>5. CASE returnReport(t)
    <2> DEFINE d == Decided(store, i, "returned")
               draft == initialDraft(w.sheet, d, i)
               v == [w EXCEPT !.draft = draft]
    <2>1. Keeps(t, d, v) /\ UNCHANGED <<sheets, user, voyage>> BY <1>5 DEF returnReport, SavedRecord
    <2> HIDE DEF w, i
    <2>2. RecordSound(d) /\ Kept(store, d) /\ DOMAIN d.reports = DOMAIN store.reports
      BY <1>1, <1>3, DecidedKeepsHistory
    <2> HIDE DEF d
    <2>3. d \in Records /\ i \in 0..Len(d.reports)
      <3>1. d \in Records BY <2>2 DEF RecordSound
      <3>2. i \in 1..Len(d.reports) BY <1>3, <2>2, <3>1, RecordFields
      <3>3. \A k \in 1..Len(d.reports) : k \in 0..Len(d.reports) BY <3>1, RecordFields
      <3> QED BY <3>1, <3>2, <3>3
    <2>4. draft \in Drafts /\ draft.sheet = w.sheet BY <1>0, <2>3, InitialDraftTyped
    <2> HIDE DEF draft
    <2>5. v \in Shown /\ v.sheet = w.sheet /\ v.draft = draft BY <1>0, <2>4 DEF Shown
    <2> HIDE DEF v
    <2> QED BY <1>0, <2>1, <2>2, <2>4, <2>5, StoreStep
  <1> QED BY <1>4, <1>5

\* A declaration that is saved by itself keeps the versions and the invoices.
LEMMA DeclarationKept ==
  ASSUME NEW r, RecordSound(r), NEW payment \in Payments
  PROVE  LET s == [r EXCEPT !.payment = payment]
         IN  RecordSound(s) /\ Kept(r, s) /\ s.reports = r.reports /\ s.invoices = r.invoices
  <1> DEFINE s == [r EXCEPT !.payment = payment]
  <1>1. r \in Records BY DEF RecordSound
  <1>2. s \in Records /\ s.reports = r.reports /\ s.invoices = r.invoices BY <1>1 DEF Records
  <1> HIDE DEF s
  <1>3. RecordSound(s) BY <1>2 DEF RecordSound
  <1>4. Kept(r, s) BY <1>1, <1>2, SameReports
  <1> QED BY <1>2, <1>3, <1>4 DEF s

\* A field of the editor is entered.
LEMMA EntersKeeps ==
  ASSUME CloseoutInv, NEW t \in Tabs, EditorShown(tab[t]), NEW l \in Lines, Enters(t, l),
         UNCHANGED <<sheets, store, user, voyage>>
  PROVE  CloseoutInv' /\ Kept(store, store')
  <1> DEFINE w == tab[t]
  <1>0. w \in Shown /\ w.sheet <= Len(sheets) /\ w.draft.sheet <= Len(sheets) /\ w.input \in Input
    BY TabFields DEF TabSound
  <1>1. voyage.previous \subseteq Previous /\ voyage.payments \subseteq Payments
    BY DEF CloseoutInv, CloseoutScope
  <1>2. ASSUME NEW input \in Input, Draws(t, [w EXCEPT !.input = input])
        PROVE  CloseoutInv' /\ Kept(store, store')
    <2> DEFINE v == [w EXCEPT !.input = input]
    <2> HIDE DEF w
    <2>1. v \in Shown /\ v.sheet = w.sheet /\ v.draft = w.draft BY <1>0 DEF Shown
    <2>2. Draws(t, v) BY <1>2
    <2> HIDE DEF v
    <2> QED BY <1>0, <2>1, <2>2, TabStep
  <1>3. ASSUME NEW r \in Rates, Draws(t, [w EXCEPT !.input.rate[l] = r])
        PROVE  CloseoutInv' /\ Kept(store, store')
    <2> DEFINE input == [w.input EXCEPT !.rate[l] = r]
    <2>1. Draws(t, [w EXCEPT !.input = input]) BY <1>3
    <2> HIDE DEF w
    <2>2. [w.input.rate EXCEPT ![l] = r] \in [Lines -> Rates \cup {0, NoRate}] BY <1>0 DEF Input
    <2>3. input \in Input BY <1>0, <2>2 DEF Input
    <2> HIDE DEF input
    <2> QED BY <1>2, <2>1, <2>3
  <1>4. ASSUME NEW p \in voyage.previous, Draws(t, [w EXCEPT !.input.previous[l] = p])
        PROVE  CloseoutInv' /\ Kept(store, store')
    <2> DEFINE input == [w.input EXCEPT !.previous[l] = p]
    <2>1. Draws(t, [w EXCEPT !.input = input]) BY <1>4
    <2> HIDE DEF w
    <2>2. [w.input.previous EXCEPT ![l] = p] \in [Lines -> Previous] BY <1>0, <1>1 DEF Input
    <2>3. input \in Input BY <1>0, <2>2 DEF Input
    <2> HIDE DEF input
    <2> QED BY <1>2, <2>1, <2>3
  <1>5. ASSUME NEW p \in voyage.payments, Draws(t, [w EXCEPT !.input.payment = p])
        PROVE  CloseoutInv' /\ Kept(store, store')
    <2> DEFINE input == [w.input EXCEPT !.payment = p]
    <2>1. Draws(t, [w EXCEPT !.input = input]) BY <1>5
    <2> HIDE DEF w
    <2>2. input \in Input BY <1>0, <1>1 DEF Input
    <2> HIDE DEF input
    <2> QED BY <1>2, <2>1, <2>2
  <1> QED BY <1>3, <1>4, <1>5 DEF Enters

\* Saving the details stores the declaration, and the invoice of the report that counts.
LEMMA SaveKeeps ==
  ASSUME CloseoutInv, NEW t \in Tabs, NEW room \in BOOLEAN, SaveDetails(t, room)
  PROVE  CloseoutInv' /\ Kept(store, store')
  <1> DEFINE w == tab[t]
             i == Approved(t)
             declared == [store EXCEPT !.payment = w.input.payment]
             billed == WithInvoice(declared, i, w.input)
             made == /\ room /\ currentReport(w.sheet, declared) = i
                     /\ ~DraftIssue(declared.reports[i], w.input)
             r == IF made THEN billed ELSE declared
             v == [w EXCEPT !.editing = IF made THEN FALSE ELSE w.editing]
  <1>0. w \in Shown /\ w.sheet <= Len(sheets) /\ w.draft.sheet <= Len(sheets) /\ w.record \in Records
    BY TabFields
  <1>1. EditorShown(w) /\ Keeps(t, r, v) /\ UNCHANGED <<sheets, user, voyage>>
    BY Zenon DEF SaveDetails, SavedRecord
  <1>2. w.input \in Input BY <1>1, TabFields DEF TabSound
  <1>3. i > 0
    <2>1. i = currentReport(w.sheet, w.record) BY DEF Approved
    <2> QED BY <1>1, <2>1, EditorNeedsReport
  <1>4. RecordSound(store) /\ store \in Records BY DEF CloseoutInv, RecordSound
  <1>5. w.input.payment \in Payments BY <1>2 DEF Input
  <1> HIDE DEF w, i
  <1>6. RecordSound(declared) /\ Kept(store, declared) /\ declared.reports = store.reports
        /\ declared.invoices = store.invoices
    BY <1>4, <1>5, DeclarationKept
  <1> HIDE DEF declared
  <1>7. v \in Shown /\ v.sheet = w.sheet /\ v.draft = w.draft
    <2>1. (IF made THEN FALSE ELSE w.editing) \in BOOLEAN BY <1>0, ShownFields
    <2>2. PICK b \in BOOLEAN : v = [w EXCEPT !.editing = b] BY <2>1
    <2> HIDE DEF v
    <2> QED BY <1>0, <2>2 DEF Shown
  <1>8. ASSUME currentReport(w.sheet, declared) = i
        PROVE  RecordSound(billed) /\ Kept(store, billed)
    <2>1. i \in DOMAIN declared.reports /\ reportStatus(declared.reports[i]) = "approved"
      <3>1. declared \in Records BY <1>6 DEF RecordSound
      <3>2. i \in 0..Len(declared.reports) /\ reportStatus(declared.reports[i]) = "approved"
        BY <1>3, <1>8, <3>1, CurrentIsApproved
      <3> QED BY <1>3, <3>1, <3>2, RecordFields
    <2>2. Reviewed(declared.reports[i]) BY <1>6, <2>1 DEF RecordSound
    <2>3. /\ RecordSound(billed) /\ billed.reports = declared.reports
          /\ billed.invoices = declared.invoices
             \/ \E x \in Invoice : billed.invoices = Append(declared.invoices, x)
      BY <1>2, <1>6, <2>1, <2>2, InvoiceDrafted
    <2> HIDE DEF billed
    <2>4. Kept(store, billed) BY <1>4, <1>6, <2>3, SameReports DEF RecordSound
    <2> QED BY <2>3, <2>4
  <1>9. RecordSound(r) /\ Kept(store, r)
    <2> HIDE DEF billed
    <2> QED BY <1>6, <1>8
  <1> HIDE DEF r, v
  <1> QED BY <1>0, <1>1, <1>7, <1>9, StoreStep

\* The steps of the declaration card and the invoice page.
LEMMA BillKeeps ==
  ASSUME CloseoutInv, NEW t \in Tabs, Bill(t) PROVE CloseoutInv' /\ Kept(store, store')
  <1> DEFINE w == tab[t]
  <1>0. w \in Shown /\ w.sheet <= Len(sheets) /\ w.draft.sheet <= Len(sheets)
    BY TabFields
  <1>1. ASSUME NEW payment \in voyage.payments, saveDeclaration(t, payment)
        PROVE  CloseoutInv' /\ Kept(store, store')
    <2> DEFINE r == [store EXCEPT !.payment = payment]
    <2>1. Keeps(t, r, w) /\ UNCHANGED <<sheets, user, voyage>> BY <1>1 DEF saveDeclaration, SavedRecord
    <2>2. RecordSound(store) /\ payment \in Payments BY DEF CloseoutInv, CloseoutScope
    <2>3. RecordSound(r) /\ Kept(store, r) BY <2>2, DeclarationKept
    <2> HIDE DEF r, w
    <2> QED BY <1>0, <2>1, <2>3, StoreStep
  <1>2. ASSUME NEW b \in BOOLEAN, Draws(t, [w EXCEPT !.editing = b]),
               UNCHANGED <<sheets, store, user, voyage>>
        PROVE  CloseoutInv' /\ Kept(store, store')
    <2> DEFINE v == [w EXCEPT !.editing = b]
    <2> HIDE DEF w
    <2>1. v \in Shown /\ v.sheet = w.sheet /\ v.draft = w.draft BY <1>0 DEF Shown
    <2>2. Draws(t, v) BY <1>2
    <2> HIDE DEF v
    <2> QED BY <1>0, <1>2, <2>1, <2>2, TabStep
  <1>3. CASE EditDetails(t)
    <2>1. Draws(t, [w EXCEPT !.editing = TRUE]) /\ UNCHANGED <<sheets, store, user, voyage>>
      BY <1>3, Zenon DEF EditDetails
    <2> HIDE DEF w
    <2> QED BY <1>2, <2>1
  <1>4. CASE CancelEdit(t)
    <2>1. Draws(t, [w EXCEPT !.editing = FALSE]) /\ UNCHANGED <<sheets, store, user, voyage>>
      BY <1>4, Zenon DEF CancelEdit
    <2> HIDE DEF w
    <2> QED BY <1>2, <2>1
  <1>5. CASE EnterDetails(t)
    <2>1. voyage.lines \subseteq Lines BY DEF CloseoutInv, CloseoutScope
    <2>2. PICK l \in voyage.lines : Enters(t, l) BY <1>5 DEF EnterDetails
    <2>3. EditorShown(tab[t]) /\ UNCHANGED <<sheets, store, user, voyage>> BY <1>5 DEF EnterDetails
    <2> QED BY <2>1, <2>2, <2>3, EntersKeeps
  <1>6. ASSUME NEW room \in BOOLEAN, SaveDetails(t, room) PROVE CloseoutInv' /\ Kept(store, store')
    BY <1>6, SaveKeeps
  <1> QED BY <1>1, <1>3, <1>4, <1>5, <1>6 DEF Bill

\* Every step keeps the invariant and the history.
LEMMA CloseoutStep ==
  CloseoutInv /\ [CloseoutNext]_closeoutVars => CloseoutInv' /\ Kept(store, store')
  <1> SUFFICES ASSUME CloseoutInv, [CloseoutNext]_closeoutVars
               PROVE  CloseoutInv' /\ Kept(store, store')
    OBVIOUS
  <1>1. CASE UNCHANGED closeoutVars
    <2>1. UNCHANGED <<sheets, store, tab, user, voyage>> BY <1>1 DEF closeoutVars
    <2>2. Kept(store, store') BY <2>1, SameReports DEF CloseoutInv, RecordSound
    <2> QED BY <2>1, <2>2 DEF CloseoutInv
  <1>2. CASE Around BY <1>2, AroundKeeps
  <1>3. ASSUME NEW t \in voyage.tabs, Prepare(t) \/ approveReport(t) \/ returnReport(t) \/ Bill(t)
        PROVE  CloseoutInv' /\ Kept(store, store')
    <2>1. t \in Tabs BY DEF CloseoutInv, CloseoutScope
    <2> QED BY <1>3, <2>1, PrepareKeeps, ReviewKeeps, BillKeeps
  <1> QED BY <1>1, <1>2, <1>3 DEF CloseoutNext

-----------------------------------------------------------------------------
(* Closing a voyage out: what follows                                       *)

\* What a line above the declaration costs is the one number of whole cents within half a cent.
LEMMA CostIsEntitlement ==
  ASSUME NEW report \in Report, NEW input \in Input, NEW l \in Lines,
         input.rate[l] # NoRate, Above(report, l)
  PROVE  Entitlement(report, input, l) =
           CHOOSE c \in 0..(Max(Finals) * Max(Rates)) :
             LET exact == (report.quantity[l] - Declared) * input.rate[l]
             IN  2 * (Scale * c - exact) <= Scale /\ 2 * (exact - Scale * c) < Scale
  <1>1. report.quantity[l] \in Finals /\ report.quantity[l] \in Nat /\ Declared \in Nat
    BY CloseoutAssumption DEF Report
  <1>2. input.rate[l] \in Rates \cup {0} /\ input.rate[l] \in Nat
    <2>1. input.rate[l] \in Rates \cup {0, NoRate} BY DEF Input
    <2> QED BY <2>1, CloseoutAssumption
  <1>3. PICK f \in Nat : f = Max(Finals) /\ report.quantity[l] <= f
    <2>1. Finals \in SUBSET Int /\ IsFiniteSet(Finals) /\ Finals # {} /\ Finals \subseteq Nat
      BY CloseoutAssumption
    <2>2. Max(Finals) \in Finals /\ \A y \in Finals : y <= Max(Finals) BY <2>1, MaxFinite
    <2> QED BY <1>1, <2>1, <2>2
  <1>4. PICK m \in Nat : m = Max(Rates) /\ input.rate[l] <= m
    <2>1. Rates \in SUBSET Int /\ IsFiniteSet(Rates) /\ Rates # {} /\ Rates \subseteq Nat
      BY CloseoutAssumption
    <2>2. Max(Rates) \in Rates /\ \A y \in Rates : y <= Max(Rates) BY <2>1, MaxFinite
    <2>3. Max(Rates) \in Nat BY <2>1, <2>2
    <2>4. input.rate[l] <= Max(Rates) BY <1>2, <2>2, <2>3
    <2> QED BY <2>3, <2>4
  <1>5. PICK a \in Nat, b \in Nat : a = report.quantity[l] - Declared /\ b = input.rate[l]
    <2>1. report.quantity[l] - Declared \in Nat BY <1>1 DEF Above
    <2> QED BY <1>2, <2>1
  <1>6. a <= f /\ b <= m BY <1>1, <1>3, <1>4, <1>5
  <1>7. a * b \in Nat /\ f * m \in Nat /\ a * b <= f * m
    <2>1. a * b <= f * b BY <1>6
    <2>2. f * b <= f * m BY <1>6
    <2>3. a * b \in Nat /\ f * b \in Nat /\ f * m \in Nat OBVIOUS
    <2> QED BY <2>1, <2>2, <2>3
  <1>8. PICK x \in Nat : x = a * b BY <1>7
  <1>9. Scale \in Nat \ {0} BY CloseoutAssumption
  <1> DEFINE e == (x + Scale \div 2) \div Scale
             Close(c) == 2 * (Scale * c - x) <= Scale /\ 2 * (x - Scale * c) < Scale
  <1>10. e \in Nat /\ e <= x /\ Close(e) /\ \A d \in Nat : Close(d) => d = e
    BY <1>9, RoundedOnce
  <1>11. Entitlement(report, input, l) = e BY <1>5, <1>8 DEF Entitlement
  <1> HIDE DEF e, Close
  <1>12. e \in 0..(f * m)
    <2>1. PICK y \in Nat : y = f * m BY <1>7
    <2>2. x <= y BY <1>7, <1>8, <2>1
    <2>3. e \in 0..y BY <1>10, <2>2
    <2> QED BY <2>1, <2>3
  <1>13. \A d \in 0..(f * m) : d \in Nat BY <1>7
  <1>14. e = CHOOSE c \in 0..(f * m) : Close(c) BY <1>10, <1>12, <1>13
  <1> QED BY <1>3, <1>4, <1>5, <1>8, <1>11, <1>14 DEF Close

\* The invariant makes every invoice payable and sound.
LEMMA PayableFollows == CloseoutInv => PayableIsSound
  <1> SUFFICES ASSUME CloseoutInv, NEW n \in DOMAIN store.invoices
               PROVE  LET v == store.invoices[n]
                          report == store.reports[v.report]
                          cost(l) == IF Above(report, l)
                                     THEN CHOOSE c \in 0..(Max(Finals) * Max(Rates)) :
                                            LET exact == (report.quantity[l] - Declared) * v.input.rate[l]
                                            IN  2 * (Scale * c - exact) <= Scale /\ 2 * (exact - Scale * c) < Scale
                                     ELSE 0
                      IN  /\ \/ report.status = "missing"
                             \/ report.status = "approved" /\ report.reviewer \notin {NoUser, report.by}
                          /\ v.total > 0 =>
                               /\ v.input.payment = "paid"
                               /\ ~\E l \in Lines : Below(report, l)
                               /\ v.total = SumFunctionOnSet([l \in Lines |-> cost(l) - v.input.previous[l]], Lines)
    BY Zenon DEF PayableIsSound
  <1> DEFINE v == store.invoices[n]
             report == store.reports[v.report]
             cost(l) == IF Above(report, l)
                        THEN CHOOSE c \in 0..(Max(Finals) * Max(Rates)) :
                               LET exact == (report.quantity[l] - Declared) * v.input.rate[l]
                               IN  2 * (Scale * c - exact) <= Scale /\ 2 * (exact - Scale * c) < Scale
                        ELSE 0
             g == [l \in Lines |-> cost(l) - v.input.previous[l]]
             h == [l \in Lines |-> Entitlement(report, v.input, l) - v.input.previous[l]]
  <1>1. RecordSound(store) /\ store \in Records BY DEF CloseoutInv, RecordSound
  <1>2. Reviewed(report) /\ (v.total > 0 => Charges(report, v)) BY <1>1 DEF RecordSound
  <1>3. report \in Report /\ v \in Invoice BY <1>1, RecordFields DEF RecordSound
  <1>4. v.input \in Input BY <1>3 DEF Invoice
  <1> HIDE DEF v, report
  <1>5. ASSUME v.total > 0
        PROVE  /\ v.input.payment = "paid" /\ ~\E l \in Lines : Below(report, l)
               /\ v.total = SumFunctionOnSet(g, Lines)
    <2>1. Charges(report, v) BY <1>2, <1>5
    <2>2. \A l \in Lines : ~Below(report, l) /\ v.input.rate[l] # NoRate BY <2>1 DEF Charges
    <2>3. ~Unrated(v.input) BY <2>2 DEF Unrated
    <2>4. \A l \in Lines : cost(l) = Entitlement(report, v.input, l)
      <3> TAKE l \in Lines
      <3>1. CASE Above(report, l)
        <4>1. Entitlement(report, v.input, l) =
                CHOOSE c \in 0..(Max(Finals) * Max(Rates)) :
                  LET exact == (report.quantity[l] - Declared) * v.input.rate[l]
                  IN  2 * (Scale * c - exact) <= Scale /\ 2 * (exact - Scale * c) < Scale
          BY <1>3, <1>4, <2>2, <3>1, CostIsEntitlement
        <4> QED BY <3>1, <4>1
      <3>2. CASE ~Above(report, l) BY <3>2 DEF Entitlement
      <3> QED BY <3>1, <3>2
    <2> HIDE DEF cost
    <2>5. \A l \in Lines : h[l] \in Int /\ g[l] = h[l] BY <1>3, <1>4, <2>3, <2>4, AmountNat
    <2>6. IsFiniteSet(Lines) BY CloseoutAssumption
    <2>7. v.total = SumFunctionOnSet(h, Lines) BY <2>1 DEF Charges
    <2> HIDE DEF g, h
    <2>8. SumFunctionOnSet(h, Lines) = SumFunctionOnSet(g, Lines) BY <2>5, <2>6, SumSame
    <2> QED BY <2>1, <2>2, <2>7, <2>8 DEF Charges
  <1>6. \/ report.status = "missing"
        \/ report.status = "approved" /\ report.reviewer \notin {NoUser, report.by}
    BY <1>2 DEF Reviewed
  <1> HIDE DEF cost
  <1> QED BY <1>5, <1>6 DEF v, report, cost

\* The invariant has the type invariant in it.
LEMMA CloseoutTyped == CloseoutInv => CloseoutTypeOK
  <1> SUFFICES ASSUME CloseoutInv PROVE CloseoutTypeOK OBVIOUS
  <1>1. voyage \in CloseoutScope /\ sheets \in Seq([Lines -> Finals \cup {Blank}]) /\ user \in Users
    BY DEF CloseoutInv, Quantities
  <1>2. Record(store) BY RecordFields DEF CloseoutInv, RecordSound, Record
  <1>3. ASSUME NEW t \in Tabs
        PROVE  /\ Record(tab[t].record) /\ tab[t].sheet \in 1..Len(sheets)
               /\ tab[t].page \in {"away", "readings", "invoice"}
               /\ tab[t].draft.sheet \in 0..Len(sheets)
               /\ tab[t].draft.quantity \in [Lines -> Finals \cup {Blank}]
               /\ tab[t].input = NoInput \/ tab[t].input \in Input
    <2>1. /\ tab[t] \in Shown /\ tab[t].record \in Records /\ tab[t].sheet \in 1..MaxSheets
          /\ tab[t].sheet <= Len(sheets) /\ tab[t].draft.sheet <= Len(sheets) /\ tab[t].draft \in Drafts
          /\ Len(sheets) \in 1..MaxSheets
      BY TabFields, ShownFields
    <2>2. Record(tab[t].record) BY <2>1, RecordFields DEF Record
    <2>3. tab[t].draft.sheet \in 0..MaxSheets /\ tab[t].draft.quantity \in Quantities BY <2>1 DEF Drafts
    <2>4. tab[t].sheet \in 1..Len(sheets) /\ tab[t].draft.sheet \in 0..Len(sheets)
      BY <2>1, <2>3, CloseoutAssumption
    <2> QED BY <2>1, <2>2, <2>3, <2>4, ShownFields DEF Quantities
  <1> QED BY <1>1, <1>2, <1>3 DEF CloseoutTypeOK

\* An invoice rests on a version somebody other than its preparer approved, or on one saved
\* before there was a review step (reportStatus); one that asks for money also on a paid
\* declaration, and it asks for what the higher quantities cost (calculateVariation,
\* draftInvoice).
THEOREM PayableIsSoundAlways == CloseoutSpec => []PayableIsSound
  <1>1. CloseoutInv /\ [CloseoutNext]_closeoutVars => CloseoutInv' BY CloseoutStep
  <1> QED BY <1>1, CloseoutInitial, PayableFollows, PTL DEF CloseoutSpec

\* Whatever a tab shows, saving never changes an earlier version or drops an invoice, and
\* never adds a version that nobody has to review.
THEOREM HistoryIsKept == CloseoutSpec => HistoryKept
  <1>1. CloseoutInv /\ [CloseoutNext]_closeoutVars => CloseoutInv' BY CloseoutStep
  <1>2. CloseoutInv /\ [CloseoutNext]_closeoutVars =>
         [/\ IsPrefix(store.invoices, store'.invoices)
          /\ Len(store.reports) <= Len(store'.reports)
          /\ \A i \in DOMAIN store'.reports :
               i > Len(store.reports) => store'.reports[i].status = "submitted"
          /\ \A i \in DOMAIN store.reports :
               store'.reports[i] # store.reports[i] =>
                   /\ i = Len(store.reports) /\ store.reports[i].status = "submitted"
                   /\ store'.reports[i] = [store.reports[i] EXCEPT
                                             !.status = store'.reports[i].status,
                                             !.reviewer = store'.reports[i].reviewer]]_closeoutVars
    BY CloseoutStep DEF Kept
  <1> QED BY <1>1, <1>2, CloseoutInitial, PTL DEF CloseoutSpec, HistoryKept

-----------------------------------------------------------------------------
(* The three parts together                                                 *)

\* Each part, seen by itself, behaves as its own specification says: the parts share no
\* variable, so what is proved of one holds of the applications as a whole.
THEOREM ScreensImplementParts == Spec => WizardSpec /\ LocalSpec /\ CloseoutSpec
  <1>1. Init => WizardInit /\ LocalInit /\ CloseoutInit BY DEF Init
  <1>2. [Next]_<<wizardVars, localVars, closeoutVars, part>> =>
          [WizardNext]_wizardVars /\ [LocalNext]_localVars /\ [CloseoutNext]_closeoutVars
    BY DEF Next
  <1> QED BY <1>1, <1>2, PTL DEF Spec, WizardSpec, LocalSpec, CloseoutSpec

\* Forms, submissions, the copies in localStorage and the record of a voyage hold values of
\* their kinds, and a form is only reviewed once it is complete.
THEOREM ScreensTypeCorrect == Spec => []ScreensTypeOK
  <1>1. WizardSpec => []WizardTypeOK BY WizardInitial, WizardStep, WizardTyped, PTL DEF WizardSpec
  <1>2. LocalSpec => []LocalTypeOK BY LocalInitial, LocalStep, LocalInvImplies, PTL DEF LocalSpec
  <1>3. CloseoutSpec => []CloseoutTypeOK
    <2>1. CloseoutInv /\ [CloseoutNext]_closeoutVars => CloseoutInv' BY CloseoutStep
    <2> QED BY <2>1, CloseoutInitial, CloseoutTyped, PTL DEF CloseoutSpec
  <1>4. WizardTypeOK /\ LocalTypeOK /\ CloseoutTypeOK => ScreensTypeOK BY DEF ScreensTypeOK
  <1> QED BY <1>1, <1>2, <1>3, <1>4, ScreensImplementParts, PTL

=============================================================================

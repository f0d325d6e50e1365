------------------------------ MODULE MCScreens ------------------------------
(***************************************************************************)
(* Three parts of the browser applications for TLC: the capture of an      *)
(* inspection, the closeout of a voyage, and the retired applications that *)
(* work from localStorage alone. They share no variable, so the run        *)
(* explores one at a time, each under every one of its scopes.             *)
(***************************************************************************)
EXTENDS CaptureWizard, LocalFallback, VoyageCloseout

CONSTANTS d1, m1, p1, t1, u1, l1

\* Two sets of rates whose dues need rounding for a vessel of seven net tons: some fall on
\* half a cent (255 and 145; the commission of 143), and one is zero.
MCSettings ==
  {[dry |-> 111, international |-> 255, government |-> 143, private |-> 0,
    commission |-> 25, exchange |-> 1501],
   [dry |-> 121, international |-> 263, government |-> 145, private |-> 153,
    commission |-> 35, exchange |-> 1602]}

\* Calls and captures in a desktop and a mobile tab, with a change of rates or a
\* second capture; the team in two desktop tabs.
MCLocalScopes ==
  {[tabs |-> {d1, m1}, calls |-> CallIds, members |-> {p1}, rates |-> LocalRates,
    roles |-> {}, invoices |-> 1],
   [tabs |-> {d1, m1}, calls |-> CallIds, members |-> {p1}, rates |-> {1},
    roles |-> {}, invoices |-> 2],
   [tabs |-> Desktops, calls |-> {}, members |-> Members, rates |-> {1},
    roles |-> {"Admin", "Viewer"}, invoices |-> 0]}

\* A rate that is not a whole number of cents, and a line the tariff lacks.
MCTariff == [l \in Lines |-> IF l = l1 THEN 3 ELSE NoRate]

\* Two tabs with one line in dispute; one tab with a line above and a line
\* below the declaration; one tab that finds a version saved before the review step.
MCCloseoutScopes ==
  {[tabs |-> Tabs, lines |-> {l1}, finals |-> {2, 3}, previous |-> {0},
    payments |-> {"paid"}, reports |-> 2, invoices |-> 1, legacy |-> "no"],
   [tabs |-> {t1}, lines |-> Lines, finals |-> {1, 3}, previous |-> Previous,
    payments |-> {"unconfirmed", "paid"}, reports |-> 1, invoices |-> 1, legacy |-> "no"],
   [tabs |-> {t1}, lines |-> {l1}, finals |-> {2, 3}, previous |-> {0},
    payments |-> {"none", "paid"}, reports |-> 2, invoices |-> 1, legacy |-> "yes"]}

VARIABLE part

Init ==
  /\ part \in {"capture", "local", "closeout"}
  /\ WizardInit /\ LocalInit /\ CloseoutInit
  /\ part # "capture" => screen = "desktop" /\ settings.dry = 111
  /\ part # "local" => site.calls = {}
  /\ part # "closeout" => voyage.lines = Lines
  /\ user = u1  \* the users are alike

Next ==
  \/ part = "capture" /\ WizardNext /\ UNCHANGED <<localVars, closeoutVars, part>>
  \/ part = "local" /\ LocalNext /\ UNCHANGED <<wizardVars, closeoutVars, part>>
  \/ part = "closeout" /\ CloseoutNext /\ UNCHANGED <<wizardVars, localVars, part>>

Spec == Init /\ [][Next]_<<wizardVars, localVars, closeoutVars, part>>

\* The type invariants of the three parts.
ScreensTypeOK == WizardTypeOK /\ LocalTypeOK /\ CloseoutTypeOK

=============================================================================

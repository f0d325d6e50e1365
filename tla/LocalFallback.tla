--------------------------- MODULE LocalFallback ---------------------------
(***************************************************************************)
(* The retired applications without a backend (src/calabar, src/mobile):   *)
(* every tab keeps the whole port data in memory, writes all of it through *)
(* to one localStorage key and replaces all of it when the browser reports *)
(* that another tab wrote the key.  A desktop tab writes from an effect    *)
(* after EVERY change of its data, a change received from another tab      *)
(* included; a mobile tab writes only what it captures.                    *)
(*                                                                         *)
(* Anybody in front of a tab may act as any member of the team (the member *)
(* menu of the top bar asks for nothing), so a permission holds when some  *)
(* member has a role that grants it.                                       *)
(***************************************************************************)
EXTENDS Naturals, Sequences, FiniteSets, FiniteSetsExt

CONSTANTS
  Desktops,     \* tabs of the desktop application
  Mobiles,      \* tabs of the mobile capture application
  CallIds,      \* identifiers of vessel calls, one per registration
  MaxInvoiceIds, \* bound: invoices issued, one per completed capture
  Members,      \* people who may be on the team
  Nothing,      \* an empty store, an absent form
  LocalRates,   \* values of the rate that stands for the settings
  LocalScopes,  \* who and what takes part in each exploration
  MaxRef,       \* bound: rotation numbers are 1..MaxRef
  MaxEvents     \* bound: storage events waiting for one tab

Roles == {"Admin", "Operations", "Finance", "Viewer"}

LocalScope == [tabs : SUBSET (Desktops \cup Mobiles), calls : SUBSET CallIds,
               members : SUBSET Members, rates : SUBSET LocalRates,
               roles : SUBSET Roles, invoices : 0..MaxInvoiceIds]

ASSUME LocalAssumption ==
  /\ LocalScopes \subseteq LocalScope
  /\ Desktops \cap Mobiles = {}
  /\ Desktops # {} /\ Members # {} /\ LocalRates # {}
  /\ MaxInvoiceIds \in Nat /\ MaxRef \in Nat \ {0} /\ MaxEvents \in Nat \ {0}

VARIABLES
  data,       \* tab -> the port data it shows
  stored,     \* the value of the localStorage key, or Nothing
  inbox,      \* tab -> storage events not yet handled, oldest first
  unsaved,    \* desktop tabs whose write-through effect has not run yet
  booting,    \* tabs that are loading
  register,   \* tab -> the register drawer, or Nothing
  settingsForm, \* tab -> the edited copy of the settings, or Nothing
  teamForm,   \* tab -> the edited copy of the team, or Nothing
  used,       \* identifiers taken so far
  site        \* the tabs, people and values of this exploration, chosen once

localVars == <<data, stored, inbox, unsaved, booting, register, settingsForm,
          teamForm, used, site>>

\* Identifiers of invoices, in the order they are drawn.
InvoiceIds == 1..MaxInvoiceIds
LocalTabs == Desktops \cup Mobiles
DefaultRate == CHOOSE r \in LocalRates : TRUE
----------------------------------------------------------------------------
(* The port data.  A call is listed when it has a rotation number. *)

Invoices == [callId : CallIds, no : Nat, dues : LocalRates,
             status : {"paid", "unpaid"}]

Data == [reference : [CallIds -> 0..MaxRef],
         completed : SUBSET CallIds,
         drafts    : SUBSET CallIds,
         invoices  : [InvoiceIds -> Invoices \cup {Nothing}],
         settings  : LocalRates,
         role      : [Members -> Roles \cup {Nothing}],
         registered : BOOLEAN]

Listed(d) == {c \in CallIds : d.reference[c] # 0}
Issued(d) == {i \in InvoiceIds : d.invoices[i] # Nothing}

SEED ==
  [reference |-> [c \in CallIds |-> 0],
   completed |-> {}, drafts |-> {},
   invoices |-> [i \in InvoiceIds |-> Nothing],
   settings |-> DefaultRate,
   role |-> [m \in Members |-> Nothing],
   registered |-> FALSE]

loadLocalData == IF stored = Nothing THEN SEED ELSE stored

PERMS == [registerCall   |-> {"Admin", "Operations"},
          cancelCall     |-> {"Admin", "Operations"},
          addInspection  |-> {"Admin", "Operations"},
          recordPayment  |-> {"Admin", "Finance"},
          manageSettings |-> {"Admin"}]

canUser(d, action) == \E m \in Members : d.role[m] \in PERMS[action]

(* A tab shows its screens when it has loaded; a desktop tab also needs a  *)
(* registered organization.  Its next event waits for the write-through    *)
(* effect of the last change, which React flushes first.                   *)
Ready(t) == /\ t \notin booting \cup unsaved
            /\ t \in Desktops => data[t].registered

Change(t, d) ==
  /\ data' = [data EXCEPT ![t] = d]
  /\ unsaved' = IF t \in Desktops THEN unsaved \cup {t} ELSE unsaved
----------------------------------------------------------------------------
(* Vessel calls. *)

NextRef(d) == 1 + Max({0} \cup {d.reference[c] : c \in Listed(d)})

(* The availability of a rotation number is looked up once per edit of the *)
(* field, in the calls the tab showed at that moment.                      *)
Typed(d, r) ==
  [reference |-> r,
   refStatus |-> IF \E c \in Listed(d) : d.reference[c] = r
                 THEN "taken" ELSE "ok"]

EditReference(t, r) ==
  /\ Ready(t) /\ t \in Desktops
  /\ canUser(data[t], "registerCall")
  /\ r \in 1..MaxRef
  /\ register[t] = Nothing => r = NextRef(data[t])
  /\ register' = [register EXCEPT ![t] = Typed(data[t], r)]
  /\ UNCHANGED <<data, stored, inbox, unsaved, booting, settingsForm,
                 teamForm, used, site>>

addCall(d, c, r) == [d EXCEPT !.reference[c] = r]

SubmitCall(t, c) ==
  /\ Ready(t) /\ register[t] # Nothing
  /\ register[t].refStatus = "ok"
  /\ canUser(data[t], "registerCall")
  /\ c \notin used
  /\ Change(t, addCall(data[t], c, register[t].reference))
  /\ used' = used \cup {c}
  /\ register' = [register EXCEPT ![t] = Nothing]
  /\ UNCHANGED <<stored, inbox, booting, settingsForm, teamForm, site>>

deleteCall(d, c) ==
  [d EXCEPT !.reference[c] = 0,
            !.completed = @ \ {c},
            !.drafts = @ \ {c},
            !.invoices = [i \in InvoiceIds |->
              IF @[i] # Nothing /\ @[i].callId = c THEN Nothing ELSE @[i]]]

CancelCall(t, c) ==
  /\ Ready(t) /\ t \in Desktops
  /\ c \in Listed(data[t])
  /\ canUser(data[t], "cancelCall")
  /\ Change(t, deleteCall(data[t], c))
  /\ UNCHANGED <<stored, inbox, booting, register, settingsForm, teamForm, used,
                 site>>
----------------------------------------------------------------------------
(* Captures and invoices. *)

UnpaidNo(d) ==
  1 + Max({0} \cup {d.invoices[i].no : i \in {j \in Issued(d) :
                                         d.invoices[j].status = "unpaid"}})

InvoiceNo(d) == 1 + Max({0} \cup {d.invoices[i].no : i \in Issued(d)})

applyInspection(d, c, i) ==
  [d EXCEPT !.completed = @ \cup {c},
            !.invoices[i] = [callId |-> c, no |-> InvoiceNo(d),
                             dues |-> d.settings,
                             status |-> "unpaid"]]

MayCapture(t, c) ==
  /\ Ready(t)
  /\ c \in Listed(data[t])
  /\ t \in Desktops => canUser(data[t], "addInspection")

(* The mobile application saves what it captured in the same step. *)
Broadcast(t, d) ==
  /\ stored' = d
  /\ inbox' = [u \in LocalTabs |->
       IF u = t \/ u \in booting \/ stored = d THEN inbox[u]
       ELSE Append(inbox[u], d)]

Room(t) == \A u \in LocalTabs \ {t} : Len(inbox[u]) < MaxEvents

SubmitCapture(t, c, i) ==
  /\ MayCapture(t, c) /\ i \notin used /\ 1..(i - 1) \subseteq used
  /\ LET d == applyInspection(data[t], c, i)
     IN /\ Change(t, d)
        /\ IF t \in Mobiles THEN Room(t) /\ Broadcast(t, d)
                            ELSE UNCHANGED <<stored, inbox>>
  /\ used' = used \cup {i}
  /\ UNCHANGED <<booting, register, settingsForm, teamForm, site>>

(* Only the desktop form can save a draft without a backend. *)
SaveDraft(t, c) ==
  /\ MayCapture(t, c) /\ t \in Desktops
  /\ Change(t, [data[t] EXCEPT !.drafts = @ \cup {c}])
  /\ UNCHANGED <<stored, inbox, booting, register, settingsForm, teamForm,
                 used, site>>

StoresOverdue(d, i, s) ==
  [d EXCEPT !.invoices[i].status = IF s = "paid" THEN s ELSE "overdue"]

updateInvoice(d, i, s) == [d EXCEPT !.invoices[i].status = s]

RecordPayment(t, i, s) ==
  /\ Ready(t) /\ t \in Desktops
  /\ i \in Issued(data[t])
  /\ canUser(data[t], "recordPayment")
  /\ Change(t, updateInvoice(data[t], i, s))
  /\ UNCHANGED <<stored, inbox, booting, register, settingsForm, teamForm,
                 used, site>>
----------------------------------------------------------------------------
(* Settings and team: forms that follow the data while they are clean and  *)
(* keep their own copy from the first edit on.                             *)

EditSettings(t, r) ==
  /\ Ready(t) /\ t \in Desktops /\ canUser(data[t], "manageSettings")
  /\ r # IF settingsForm[t] = Nothing THEN data[t].settings ELSE settingsForm[t]
  /\ settingsForm' = [settingsForm EXCEPT ![t] = r]
  /\ UNCHANGED <<data, stored, inbox, unsaved, booting, register, teamForm,
                 used, site>>

Team(t) == IF teamForm[t] = Nothing THEN data[t].role ELSE teamForm[t]

AnyRoleMayChange(team, m) == TRUE

(* The role menu and the remove button of the last Admin are disabled. *)
MayChangeRole(team, m) ==
  \/ team[m] # "Admin"
  \/ \E n \in Members \ {m} : team[n] = "Admin"

EditTeam(t, m, r) ==
  /\ Ready(t) /\ t \in Desktops /\ canUser(data[t], "manageSettings")
  /\ Team(t)[m] # r
  /\ MayChangeRole(Team(t), m)
  /\ teamForm' = [teamForm EXCEPT ![t] = [Team(t) EXCEPT ![m] = r]]
  /\ UNCHANGED <<data, stored, inbox, unsaved, booting, register,
                 settingsForm, used, site>>

RepricesInvoices(d, s) ==
  [d EXCEPT !.settings = s,
            !.invoices = [i \in InvoiceIds |->
              IF @[i] = Nothing THEN Nothing
              ELSE [@[i] EXCEPT !.dues = s]]]

updateSettings(d, s) == [d EXCEPT !.settings = s]

SaveForms(t) ==
  /\ Ready(t) /\ canUser(data[t], "manageSettings")
  /\ settingsForm[t] # Nothing \/ teamForm[t] # Nothing
  /\ LET d == IF settingsForm[t] = Nothing THEN data[t]
              ELSE updateSettings(data[t], settingsForm[t])
     IN Change(t, [d EXCEPT !.role = Team(t)])
  /\ settingsForm' = [settingsForm EXCEPT ![t] = Nothing]
  /\ teamForm' = [teamForm EXCEPT ![t] = Nothing]
  /\ UNCHANGED <<stored, inbox, booting, register, used, site>>

DiscardForms(t) ==
  /\ Ready(t)
  /\ settingsForm[t] # Nothing \/ teamForm[t] # Nothing
  /\ settingsForm' = [settingsForm EXCEPT ![t] = Nothing]
  /\ teamForm' = [teamForm EXCEPT ![t] = Nothing]
  /\ UNCHANGED <<data, stored, inbox, unsaved, booting, register, used,
                 site>>

(* Onboarding: the administrator named in the last step is the whole team. *)
RegisterOrganization(t, m) ==
  /\ t \in Desktops \ (booting \cup unsaved)
  /\ ~ data[t].registered
  /\ Change(t, [data[t] EXCEPT !.registered = TRUE,
                  !.role = [n \in Members |->
                              IF n = m THEN "Admin" ELSE Nothing]])
  /\ UNCHANGED <<stored, inbox, booting, register, settingsForm, teamForm,
                 used, site>>
----------------------------------------------------------------------------
(* Storage. *)

WriteThrough(t) ==
  /\ t \in unsaved /\ Room(t)
  /\ Broadcast(t, data[t])
  /\ unsaved' = unsaved \ {t}
  /\ UNCHANGED <<data, booting, register, settingsForm, teamForm, used,
                 site>>

(* Losing its registration replaces a desktop tab by the onboarding, and   *)
(* its drawer and its forms with it.                                       *)
Mounted(form, t, d) ==
  IF d.registered THEN form ELSE [form EXCEPT ![t] = Nothing]

onStorage(t) ==
  /\ inbox[t] # <<>> /\ t \notin unsaved \cup booting
  /\ Change(t, Head(inbox[t]))
  /\ inbox' = [inbox EXCEPT ![t] = Tail(@)]
  /\ register' = Mounted(register, t, Head(inbox[t]))
  /\ settingsForm' = Mounted(settingsForm, t, Head(inbox[t]))
  /\ teamForm' = Mounted(teamForm, t, Head(inbox[t]))
  /\ UNCHANGED <<stored, booting, used, site>>

(* A reload forgets the tab's memory, an effect that has not run included. *)
Unload(t) ==
  /\ booting' = booting \cup {t}
  /\ unsaved' = unsaved \ {t}
  /\ inbox' = [inbox EXCEPT ![t] = <<>>]
  /\ register' = [register EXCEPT ![t] = Nothing]
  /\ settingsForm' = [settingsForm EXCEPT ![t] = Nothing]
  /\ teamForm' = [teamForm EXCEPT ![t] = Nothing]

ResetData(t) ==
  /\ Ready(t) /\ t \in Desktops /\ canUser(data[t], "manageSettings")
  /\ stored' = Nothing
  /\ Unload(t)
  /\ UNCHANGED <<data, used, site>>

bootPortData(t) ==
  /\ t \in booting
  /\ booting' = booting \ {t}
  /\ Change(t, loadLocalData)
  /\ UNCHANGED <<stored, inbox, register, settingsForm, teamForm, used,
                 site>>
----------------------------------------------------------------------------
LocalInit ==
  /\ site \in LocalScopes
  /\ data = [t \in LocalTabs |-> SEED]
  /\ stored = Nothing
  /\ inbox = [t \in LocalTabs |-> <<>>]
  /\ unsaved = {} /\ booting = LocalTabs
  /\ register = [t \in LocalTabs |-> Nothing]
  /\ settingsForm = [t \in LocalTabs |-> Nothing]
  /\ teamForm = [t \in LocalTabs |-> Nothing]
  /\ used = {}

LocalNext ==
  \E t \in site.tabs :
    \/ bootPortData(t) \/ WriteThrough(t) \/ onStorage(t) \/ ResetData(t)
    \/ SaveForms(t) \/ DiscardForms(t)
    \/ \E m \in site.members :
         \/ RegisterOrganization(t, m)
         \/ \E r \in site.roles \cup {Nothing} : EditTeam(t, m, r)
    \/ \E r \in site.rates : EditSettings(t, r)
    \/ \E r \in 1..MaxRef : EditReference(t, r)
    \/ \E c \in site.calls :
         \/ SubmitCall(t, c) \/ CancelCall(t, c) \/ SaveDraft(t, c)
         \/ \E i \in 1..site.invoices : SubmitCapture(t, c, i)
    \/ \E i \in InvoiceIds, s \in {"paid", "unpaid"} : RecordPayment(t, i, s)

LocalSpec == LocalInit /\ [][LocalNext]_localVars
----------------------------------------------------------------------------
(* Properties. *)

Copies == {data[t] : t \in LocalTabs \ booting}
            \cup ({stored} \ {Nothing})
            \cup UNION {{inbox[t][k] : k \in 1..Len(inbox[t])} : t \in LocalTabs}

(* Every copy of the port data, in a tab, in the store or under way, and   *)
(* every form has its shape.                                               *)
LocalTypeOK ==
  /\ site \in LocalScope
  /\ \A t \in LocalTabs : data[t] \in Data
  /\ Copies \subseteq Data
  /\ unsaved \subseteq Desktops /\ booting \subseteq LocalTabs
  /\ \A t \in LocalTabs : Len(inbox[t]) <= MaxEvents
  /\ register \in [LocalTabs -> [reference : 1..MaxRef, refStatus : {"ok", "taken"}]
                             \cup {Nothing}]
  /\ settingsForm \in [LocalTabs -> LocalRates \cup {Nothing}]
  /\ teamForm \in [LocalTabs -> [Members -> Roles \cup {Nothing}] \cup {Nothing}]
  /\ used \subseteq CallIds \cup InvoiceIds

(* However the tabs overwrite each other's data, every copy is sound: a     *)
(* registered organization has an Admin, without whom nobody could open    *)
(* the settings or the team again (screens-org.jsx, the disabled role      *)
(* menu); no two invoices carry the same number, although calls and their  *)
(* invoices are deleted in between; and an invoice is worth the same in    *)
(* all copies, in every tab and for ever: no later change of the rates     *)
(* rewrites it (api.jsx, applyInspection).                                 *)
CopiesSound ==
  \A d \in Copies :
    /\ d.registered => \E m \in Members : d.role[m] = "Admin"
    /\ \A i, j \in Issued(d) : d.invoices[i].no = d.invoices[j].no => i = j
    /\ \A e \in Copies : \A i \in Issued(d) \cap Issued(e) :
         d.invoices[i].dues = e.invoices[i].dues
============================================================================

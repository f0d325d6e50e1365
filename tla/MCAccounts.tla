----------------------------- MODULE MCAccounts -----------------------------
(***************************************************************************)
(* The three parts of account management for TLC: how people enter an      *)
(* organization, what their accounts may do, and the console of the system *)
(* operators. They share no variable, so the run explores one at a time,   *)
(* each under every one of its scopes.                                     *)
(***************************************************************************)
EXTENDS AccountAdmission, AccountAccess, SystemConsole, TLC

CONSTANTS Ops, Adm, mail1, adm1, ben, dev1, op1, why1

\* One address reached by all three paths; two requests over two sign-up links;
\* two addresses that members move between.
MCAdmissionScopes ==
  {[accounts |-> 2, requests |-> 1, tokens |-> 2, links |-> 1, emails |-> {mail1},
    roles |-> {Adm}, admins |-> Admins],
   [accounts |-> 2, requests |-> 2, tokens |-> 0, links |-> 2, emails |-> {mail1},
    roles |-> Roles, admins |-> Admins],
   [accounts |-> 2, requests |-> 0, tokens |-> 2, links |-> 0, emails |-> Emails,
    roles |-> {Adm}, admins |-> {adm1}]}

\* Roles with passwords, and with an authenticator, on two devices; suspensions
\* and reactivations; one account that still awaits its first password and has
\* not proven its address.
MCAccessScopes ==
  {[devices |-> Devices, pending |-> {}, enrolling |-> {}, creds |-> 2, eras |-> 0],
   [devices |-> Devices, pending |-> {}, enrolling |-> {ben}, creds |-> 1, eras |-> 0],
   [devices |-> {dev1}, pending |-> {}, enrolling |-> {ben}, creds |-> 2, eras |-> 2],
   [devices |-> {dev1}, pending |-> {ben}, enrolling |-> {}, creds |-> 2, eras |-> 1],
   [devices |-> {dev1}, pending |-> {ben}, enrolling |-> {}, creds |-> 3, eras |-> 0]}

\* Two operators decide on one organization's status; one operator changes its
\* profile and its Admins' access, giving other reasons between attempts.
MCConsoleScopes ==
  {[operators |-> Operators, tasks |-> {"approve"}, reasons |-> {why1},
    keys |-> 2, copies |-> 1, revs |-> 4],
   [operators |-> Operators, tasks |-> {"suspend", "reactivate"}, reasons |-> {why1},
    keys |-> 2, copies |-> 1, revs |-> 3],
   [operators |-> {op1}, tasks |-> {"invite", "resend", "revoke"}, reasons |-> {},
    keys |-> 2, copies |-> 2, revs |-> 4],
   [operators |-> {op1}, tasks |-> {"invite", "resend", "revoke"}, reasons |-> {},
    keys |-> 3, copies |-> 1, revs |-> 4],
   [operators |-> {op1}, tasks |-> {"recover"}, reasons |-> Reasons,
    keys |-> 2, copies |-> 2, revs |-> 3],
   [operators |-> {op1}, tasks |-> {"update"}, reasons |-> Reasons,
    keys |-> 2, copies |-> 2, revs |-> 3]}

VARIABLE part

Init ==
  /\ part \in {"admission", "access", "console"}
  /\ AdmissionInit /\ AccessInit /\ ConsoleInit
  /\ part # "admission" => intake.requests = 2
  /\ part # "access" => reachable.creds = 3
  /\ part # "console" => "approve" \in desk.tasks

Next ==
  \/ part = "admission" /\ AdmissionNext /\ UNCHANGED <<accessVars, consoleVars, part>>
  \/ part = "access" /\ AccessNext /\ UNCHANGED <<admissionVars, consoleVars, part>>
  \/ part = "console" /\ ConsoleNext /\ UNCHANGED <<admissionVars, accessVars, part>>

Spec == Init /\ [][Next]_<<admissionVars, accessVars, consoleVars, part>>

\* The type invariants of the three parts.
AccountsTypeOK == AdmissionTypeOK /\ AccessTypeOK /\ ConsoleTypeOK

=============================================================================

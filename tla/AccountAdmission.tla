-------------------------- MODULE AccountAdmission --------------------------
(***************************************************************************)
(* How people enter an organization: an e-mail invitation, a user created  *)
(* with a temporary password, or a sign-up link whose request an Admin     *)
(* approves.  The three paths meet in one e-mail address, and an           *)
(* organization suspension cuts across all of them.  Every server          *)
(* operation runs under the organization's row lock, so each is one step;  *)
(* the Admin's forms are the state that may be stale when they arrive.     *)
(*                                                                         *)
(*   users    the accounts: state, e-mail, role, the path that made them,  *)
(*            the invitation link presented for them and the new address   *)
(*            an unused verification link was mailed to                    *)
(*   invs     the newest invitation of each e-mail (older ones are dead)   *)
(*   links    the invitation tokens mailed to each e-mail                  *)
(*   retired  ghost: tokens that were withdrawn, renewed or left to lapse  *)
(*   signup   the sign-up link in force: its number and whether it is live *)
(*   reqs     the join requests                                            *)
(*   form     each Admin's Add-user drawer                                 *)
(*   review   the join request each Admin's drawer shows                   *)
(*   intake   the bounds of this exploration, chosen once                  *)
(***************************************************************************)
EXTENDS Naturals, FiniteSets

CONSTANTS Emails, Roles, Admins,
          AdminRole,            \* the role whose invitations an operator handles
          MaxAccounts, MaxRequests, MaxTokens, MaxLinks, \* largest bounds of a scope
          AdmissionScopes,      \* the bounds of each exploration
          NoEmail, NoRequest, NoRole

\* Bounds: accounts made, join requests filed, invitation tokens issued and
\* sign-up links created; the addresses in use, the roles given and the
\* Admins at work.
AdmissionScope == [accounts : 0..MaxAccounts, requests : 0..MaxRequests,
                   tokens : 0..MaxTokens, links : 0..MaxLinks,
                   emails : SUBSET Emails, roles : SUBSET Roles,
                   admins : SUBSET Admins]

\* Accounts and join requests are numbered in the order they are made.
Slots == 1..MaxAccounts
Requests == 1..MaxRequests

ASSUME AdmissionAssumption ==
    /\ {MaxAccounts, MaxRequests, MaxTokens, MaxLinks} \subseteq Nat
    /\ AdmissionScopes \subseteq AdmissionScope
    /\ NoEmail \notin Emails /\ NoRequest \notin Requests /\ NoRole \notin Roles
    /\ AdminRole \in Roles

VARIABLES orgOpen, users, invs, links, retired, lastToken, signup, reqs,
          form, review, intake

admissionVars == <<orgOpen, users, invs, links, retired, lastToken, signup, reqs,
          form, review, intake>>
server == <<orgOpen, users, invs, links, retired, lastToken, signup, reqs, intake>>

User == [state : {"none", "live", "removed"}, email : Emails \cup {NoEmail},
         role : Roles \cup {NoRole},
         path : {"none", "invitation", "temporary", "join"},
         request : Requests \cup {NoRequest}, link : 0..MaxTokens,
         moving : Emails \cup {NoEmail}]
Invitation == [status : {"none", "pending", "accepted", "revoked"},
               role : Roles \cup {NoRole}, token : 0..MaxTokens,
               expired : BOOLEAN]
JoinRequest == [status : {"none", "unverified", "pending", "approved",
                          "rejected", "expired"},
                email : Emails \cup {NoEmail}, link : 0..MaxLinks,
                late : BOOLEAN, role : Roles \cup {NoRole}]
Form == [email : Emails \cup {NoEmail}, told : BOOLEAN, replace : BOOLEAN]

NoUser == [state |-> "none", email |-> NoEmail, role |-> NoRole,
           path |-> "none", request |-> NoRequest, link |-> 0,
           moving |-> NoEmail]
NoInvitation == [status |-> "none", role |-> NoRole, token |-> 0,
                 expired |-> FALSE]
Unused == [status |-> "none", email |-> NoEmail, link |-> 0, late |-> FALSE,
           role |-> NoRole]
Blank == [email |-> NoEmail, told |-> FALSE, replace |-> FALSE]

AdmissionInit ==
    /\ intake \in AdmissionScopes
    /\ orgOpen = TRUE
    /\ users = [s \in Slots |-> NoUser]
    /\ invs = [e \in Emails |-> NoInvitation]
    /\ links = [e \in Emails |-> {}]
    /\ retired = {}
    /\ lastToken = 0
    /\ signup = [id |-> 0, live |-> FALSE]
    /\ reqs = [r \in Requests |-> Unused]
    /\ form = [a \in Admins |-> Blank]
    /\ review = [a \in Admins |-> NoRequest]

-----------------------------------------------------------------------------
(* The questions every path asks before it creates an account.             *)

\* Mutant: accounts that came from a join request are overlooked.
TakenByInvited(e) ==
    \E s \in Slots : users[s].email = e /\ users[s].path # "join"

\* account_email_unavailable: any row of the organization that names the
\* address, whatever its status (a removal replaces the address).
account_email_unavailable(e) == \E s \in Slots : users[s].email = e

\* Mutant: only a verified request reserves its address.
VerifiedRequests(rows, e) ==
    {r \in Requests : rows[r].email = e /\ rows[r].status = "pending"}

\* The open requests of an address in a table of requests.
OpenRequests(rows, e) ==
    {r \in Requests : rows[r].email = e
                      /\ rows[r].status \in {"unverified", "pending"}}

Invited(e) == invs[e].status = "pending"

CreateUser(e, role, path, r, t) ==
    LET made == Cardinality({s \in Slots : users[s].state # "none"}) IN
    /\ made < intake.accounts
    /\ users' = [users EXCEPT ![made + 1] =
           [state |-> "live", email |-> e, role |-> role, path |-> path,
            request |-> r, link |-> t, moving |-> NoEmail]]

Withdraw(e) == IF Invited(e) THEN {invs[e].token} ELSE {}

-----------------------------------------------------------------------------
(* E-mail invitations.                                                     *)

\* AddUserDrawer: a new address forgets what the server said of the old one.
TypeEmail(a, e) ==
    /\ form' = [form EXCEPT ![a] = [Blank EXCEPT !.email = e]]
    /\ UNCHANGED <<server, review>>

\* The new invitation supersedes a pending one of the same address; its link
\* is mailed only when no account uses the address.
InviteUser(a, role) ==
    LET e == form[a].email IN
    /\ orgOpen /\ e # NoEmail /\ lastToken < intake.tokens
    /\ lastToken' = lastToken + 1
    /\ retired' = retired \cup Withdraw(e)
    /\ invs' = [invs EXCEPT ![e] = [status |-> "pending", role |-> role,
                                    token |-> lastToken', expired |-> FALSE]]
    /\ links' = IF account_email_unavailable(e) THEN links
                ELSE [links EXCEPT ![e] = @ \cup {lastToken'}]
    /\ form' = [form EXCEPT ![a] = Blank]
    /\ UNCHANGED <<orgOpen, users, signup, reqs, review, intake>>

\* Renewing rotates the token and starts a new term.
ResendInvitation(e) ==
    /\ orgOpen /\ Invited(e) /\ lastToken < intake.tokens
    /\ lastToken' = lastToken + 1
    /\ retired' = retired \cup {invs[e].token}
    /\ invs' = [invs EXCEPT ![e].token = lastToken', ![e].expired = FALSE]
    /\ links' = IF account_email_unavailable(e) THEN links
                ELSE [links EXCEPT ![e] = @ \cup {lastToken'}]
    /\ UNCHANGED <<orgOpen, users, signup, reqs, form, review, intake>>

\* A system operator renews a pending Admin invitation and mails the link
\* without asking whether an account uses the address by now.
OperatorResend(e) ==
    /\ orgOpen /\ Invited(e) /\ invs[e].role = AdminRole
    /\ lastToken < intake.tokens
    /\ lastToken' = lastToken + 1
    /\ retired' = retired \cup {invs[e].token}
    /\ invs' = [invs EXCEPT ![e].token = lastToken', ![e].expired = FALSE]
    /\ links' = [links EXCEPT ![e] = @ \cup {lastToken'}]
    /\ UNCHANGED <<orgOpen, users, signup, reqs, form, review, intake>>

RevokeInvitation(e) ==
    /\ orgOpen /\ Invited(e)
    /\ invs' = [invs EXCEPT ![e].status = "revoked"]
    /\ retired' = retired \cup {invs[e].token}
    /\ UNCHANGED <<orgOpen, users, links, lastToken, signup, reqs, form, review, intake>>

\* Seven days pass (the row stays pending and can be renewed).
InvitationLapses(e) ==
    /\ Invited(e) /\ ~invs[e].expired
    /\ invs' = [invs EXCEPT ![e].expired = TRUE]
    /\ retired' = retired \cup {invs[e].token}
    /\ UNCHANGED <<orgOpen, users, links, lastToken, signup, reqs, form, review, intake>>

\* Mutant: the term of the invitation is not looked at.
TokenMatches(e, t) == Invited(e) /\ invs[e].token = t

\* Mutant: a link is good while its address has a pending invitation.
AnyLinkOfInvited(e, t) == Invited(e) /\ ~invs[e].expired

\* Mutant: the status of the invitation the link names is not looked at.
AnyStatus(e, t) == invs[e].token = t /\ ~invs[e].expired

\* The lookup InvitationAcceptView makes for the link presented to it.
Acceptable(e, t) == Invited(e) /\ invs[e].token = t /\ ~invs[e].expired

AcceptInvitation(e, t) ==
    /\ orgOpen /\ t \in links[e] /\ Acceptable(e, t)
    /\ ~account_email_unavailable(e)
    /\ CreateUser(e, invs[e].role, "invitation", NoRequest, t)
    /\ invs' = [invs EXCEPT ![e].status = "accepted"]
    /\ UNCHANGED <<orgOpen, links, retired, lastToken, signup, reqs, form, review, intake>>

-----------------------------------------------------------------------------
(* Users with a temporary password.                                        *)

\* Mutant: the pending invitation stays beside the new user.
KeepsInvitation(e) == invs

\* Every pending invitation of the address is revoked with the creation.
RevokesPending(e) ==
    IF Invited(e) THEN [invs EXCEPT ![e].status = "revoked"] ELSE invs

\* TickReplace is offered only after the server reported the invitation.
TickReplace(a) ==
    /\ form[a].told /\ ~form[a].replace
    /\ form' = [form EXCEPT ![a].replace = TRUE]
    /\ UNCHANGED <<server, review>>

Provision(a, role) ==
    LET e == form[a].email IN
    /\ e # NoEmail
    /\ form[a].told => form[a].replace
    /\ IF \/ ~orgOpen
          \/ account_email_unavailable(e) \/ OpenRequests(reqs, e) # {}
       THEN /\ form' = [form EXCEPT ![a].told = FALSE, ![a].replace = FALSE]
            /\ UNCHANGED server
       ELSE IF Invited(e) /\ ~invs[e].expired /\ ~form[a].replace
       THEN /\ form' = [form EXCEPT ![a].told = TRUE, ![a].replace = FALSE]
            /\ UNCHANGED server
       ELSE /\ CreateUser(e, role, "temporary", NoRequest, 0)
            /\ invs' = RevokesPending(e)
            /\ retired' = retired \cup Withdraw(e)
            /\ form' = [form EXCEPT ![a] = Blank]
            /\ UNCHANGED <<orgOpen, links, lastToken, signup, reqs, intake>>
    /\ UNCHANGED review

-----------------------------------------------------------------------------
(* Sign-up links and join requests.                                        *)

\* A new link revokes the one before it.
CreateLink ==
    /\ orgOpen /\ signup.id < intake.links
    /\ signup' = [id |-> signup.id + 1, live |-> TRUE]
    /\ UNCHANGED <<orgOpen, users, invs, links, retired, lastToken, reqs, form, review, intake>>

\* Revoked by an Admin or past its last day: in both cases it is not active.
LinkEnds ==
    /\ signup.live
    /\ signup' = [signup EXCEPT !.live = FALSE]
    /\ UNCHANGED <<orgOpen, users, invs, links, retired, lastToken, reqs, form, review, intake>>

LinkActive(n) == signup.live /\ signup.id = n

\* An unverified request whose time or link has ended no longer reserves the
\* address; a request that is still open absorbs the retry.
SubmitJoin(e) ==
    LET Stale(r) == /\ reqs[r].email = e /\ reqs[r].status = "unverified"
                    /\ reqs[r].late \/ ~LinkActive(reqs[r].link)
        filed == Cardinality({r \in Requests : reqs[r].status # "none"})
        swept == [r \in Requests |->
                     IF Stale(r) THEN [reqs[r] EXCEPT !.status = "expired"]
                     ELSE reqs[r]]
    IN
    /\ orgOpen /\ signup.live /\ ~account_email_unavailable(e)
    /\ IF OpenRequests(swept, e) # {} THEN reqs' = swept
       ELSE /\ filed < intake.requests
            /\ reqs' = [swept EXCEPT ![filed + 1] =
                   [status |-> "unverified", email |-> e, link |-> signup.id,
                    late |-> FALSE, role |-> NoRole]]
    /\ UNCHANGED <<orgOpen, users, invs, links, retired, lastToken, signup, form, review, intake>>

VerificationLapses(r) ==
    /\ reqs[r].status = "unverified" /\ ~reqs[r].late
    /\ reqs' = [reqs EXCEPT ![r].late = TRUE]
    /\ UNCHANGED <<orgOpen, users, invs, links, retired, lastToken, signup, form, review, intake>>

\* The owner of the address opens the mailed link and chooses a password.
VerifyJoin(r) ==
    /\ orgOpen /\ reqs[r].status = "unverified"
    /\ LinkActive(reqs[r].link) /\ ~reqs[r].late
    /\ reqs' = [reqs EXCEPT ![r].status = "pending"]
    /\ UNCHANGED <<orgOpen, users, invs, links, retired, lastToken, signup, form, review, intake>>

\* Selecting a listed request opens its drawer, which then shows that row
\* whatever becomes of the request.
OpenReview(a, r) ==
    /\ reqs[r].status = "pending"
    /\ review' = [review EXCEPT ![a] = r]
    /\ UNCHANGED <<server, form>>

\* Mutant: a request that was approved can be approved again.
NotRejected(r) == reqs[r].status \in {"pending", "approved"}

Reviewable(r) == reqs[r].status = "pending"

\* The drawer closes when the answer arrives; a lost answer, or a refusal,
\* leaves it open and the Admin may try again.
CloseOrKeep(a) == review' \in {review, [review EXCEPT ![a] = NoRequest]}

ApproveJoin(a, role) ==
    LET r == review[a] IN
    /\ orgOpen /\ r # NoRequest /\ Reviewable(r)
    /\ ~account_email_unavailable(reqs[r].email)
    /\ CreateUser(reqs[r].email, role, "join", r, 0)
    /\ reqs' = [reqs EXCEPT ![r].status = "approved", ![r].role = role]
    /\ CloseOrKeep(a)
    /\ UNCHANGED <<orgOpen, invs, links, retired, lastToken, signup, form, intake>>

RejectJoin(a) ==
    LET r == review[a] IN
    /\ orgOpen /\ r # NoRequest /\ Reviewable(r)
    /\ reqs' = [reqs EXCEPT ![r].status = "rejected"]
    /\ CloseOrKeep(a)
    /\ UNCHANGED <<orgOpen, users, invs, links, retired, lastToken, signup, form, intake>>

\* The decision already taken, approved with the same role, is confirmed
\* without effect and the drawer closes. Any other decision on a reviewed
\* request is refused and the drawer stays.
RepeatReview(a, decision, role) ==
    /\ orgOpen /\ review[a] # NoRequest
    /\ reqs[review[a]].status = decision
    /\ decision = "approved" => reqs[review[a]].role = role
    /\ review' = [review EXCEPT ![a] = NoRequest]
    /\ UNCHANGED <<server, form>>

-----------------------------------------------------------------------------
(* The life of the accounts and of the organization.                       *)

\* A removal gives the address back; an unused verification link of the
\* account stays.
RemoveMember(s) ==
    /\ orgOpen /\ users[s].state = "live"
    /\ users' = [users EXCEPT ![s].state = "removed", ![s].email = NoEmail]
    /\ UNCHANGED <<orgOpen, invs, links, retired, lastToken, signup, reqs, form, review, intake>>

\* ProfileView: the member keeps the old address until the link mailed to
\* the new one is opened. Invitations of either address are not looked at.
RequestEmailChange(s, e) ==
    /\ orgOpen /\ users[s].state = "live"
    /\ e # users[s].email /\ ~account_email_unavailable(e)
    /\ users' = [users EXCEPT ![s].moving = e]
    /\ UNCHANGED <<orgOpen, invs, links, retired, lastToken, signup, reqs, form, review, intake>>

\* Mutant: the address is taken at its word of the day it was asked for.
StillWanted(s) == users[s].moving # NoEmail

\* The check VerifyEmailView repeats when the link is opened.
MayMove(s) == users[s].moving # NoEmail /\ ~account_email_unavailable(users[s].moving)

\* VerifyEmailView does not look at the status of the account.
VerifyEmailChange(s) ==
    /\ orgOpen /\ MayMove(s)
    /\ users' = [users EXCEPT ![s].email = users[s].moving, ![s].moving = NoEmail]
    /\ UNCHANGED <<orgOpen, invs, links, retired, lastToken, signup, reqs, form, review, intake>>

\* A suspension revokes every pending invitation and deletes the unused
\* verification links; sign-up links and join requests stay, unusable until
\* the organization is active again.
SuspensionWithdraws ==
    /\ orgOpen
    /\ orgOpen' = FALSE
    /\ retired' = retired \cup UNION {Withdraw(e) : e \in Emails}
    /\ invs' = [e \in Emails |-> IF Invited(e)
                   THEN [invs[e] EXCEPT !.status = "revoked"] ELSE invs[e]]
    /\ users' = [s \in Slots |-> [users[s] EXCEPT !.moving = NoEmail]]
    /\ UNCHANGED <<links, lastToken, signup, reqs, form, review, intake>>

OrganizationReturns ==
    /\ ~orgOpen
    /\ orgOpen' = TRUE
    /\ UNCHANGED <<users, invs, links, retired, lastToken, signup, reqs, form, review, intake>>

AdmissionNext ==
    \/ \E a \in intake.admins, e \in intake.emails : TypeEmail(a, e)
    \/ \E a \in intake.admins, role \in intake.roles :
          \/ InviteUser(a, role) \/ Provision(a, role) \/ ApproveJoin(a, role)
          \/ \E decision \in {"approved", "rejected"} : RepeatReview(a, decision, role)
    \/ \E a \in intake.admins : TickReplace(a) \/ RejectJoin(a)
    \/ \E e \in intake.emails :
          \/ ResendInvitation(e) \/ OperatorResend(e) \/ RevokeInvitation(e)
          \/ InvitationLapses(e) \/ SubmitJoin(e)
          \/ \E t \in links[e] : AcceptInvitation(e, t)
          \/ \E s \in Slots : RequestEmailChange(s, e)
    \/ CreateLink \/ LinkEnds \/ SuspensionWithdraws \/ OrganizationReturns
    \/ \E r \in Requests : VerificationLapses(r) \/ VerifyJoin(r)
                           \/ \E a \in intake.admins : OpenReview(a, r)
    \/ \E s \in Slots : RemoveMember(s) \/ VerifyEmailChange(s)

AdmissionSpec == AdmissionInit /\ [][AdmissionNext]_admissionVars

-----------------------------------------------------------------------------
(* Every variable keeps its type, and there is at most one open request    *)
(* for an address (the partial unique constraint of the table).            *)
AdmissionTypeOK ==
    /\ intake \in AdmissionScope
    /\ orgOpen \in BOOLEAN
    /\ users \in [Slots -> User]
    /\ invs \in [Emails -> Invitation]
    /\ links \in [Emails -> SUBSET (1..MaxTokens)]
    /\ retired \subseteq 0..MaxTokens
    /\ lastToken \in 0..MaxTokens
    /\ signup \in [id : 0..MaxLinks, live : BOOLEAN]
    /\ reqs \in [Requests -> JoinRequest]
    /\ \A r, q \in Requests :
          /\ reqs[r].email = reqs[q].email
          /\ {reqs[r].status, reqs[q].status} \subseteq {"unverified", "pending"}
          => r = q
    /\ form \in [Admins -> Form]
    /\ review \in [Admins -> Requests \cup {NoRequest}]

(* No account was made by presenting an invitation link that had been      *)
(* superseded by a later invitation, renewed by an Admin or an operator,   *)
(* revoked, replaced by a temporary user, withdrawn by a suspension or     *)
(* left to expire, even once the organization is active again or the       *)
(* address is free again; and no link made two (InvitationAcceptView).     *)
DeadLinksGrantNothing ==
    \A s \in Slots : users[s].link # 0 =>
       /\ users[s].link \notin retired
       /\ \A t \in Slots : users[t].link = users[s].link => s = t

(* The ways into an organization lead to one account of an address, in     *)
(* whatever order they are walked: an address names one account at most    *)
(* (accounts/account_scopes.py), however invitations, temporary users,     *)
(* approvals, changes of address and removals cross. A join request makes  *)
(* an account only by its approval, of the role it was approved with, and  *)
(* once in its life: two Admins with the same request open, lost answers   *)
(* and repetitions change nothing, even after that account was removed.    *)
OneWayIn ==
    /\ \A s, t \in Slots :
          users[s].email # NoEmail /\ users[s].email = users[t].email => s = t
    /\ \A r \in Requests :
          LET made == {s \in Slots : users[s].request = r} IN
          /\ Cardinality(made) = IF reqs[r].status = "approved" THEN 1 ELSE 0
          /\ \A s \in made : users[s].role = reqs[r].role
=============================================================================

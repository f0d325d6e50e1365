---------------------------- MODULE AccountAccess ----------------------------
(***************************************************************************)
(* What an account may do after it exists: signing in (password, temporary *)
(* password, authenticator), recovering and changing the password, and the *)
(* Admins' decisions about other people's role, status, credentials and    *)
(* authenticator, taken from rows that may be stale.  A system operator    *)
(* suspends and reactivates the organization.  Every server transaction    *)
(* that grants or withdraws access holds the organization's row lock, so   *)
(* it is one step; a sign-in reads the password once before that lock.     *)
(*                                                                         *)
(*   acct    the accounts (cred counts the passwords an account has had;   *)
(*           proven: its e-mail address is verified; link: its unused      *)
(*           verification link)                                            *)
(*   era     ghost: number of suspensions so far                           *)
(*   sess    the session each device's cookie names                        *)
(*   proof   the password a device's sign-in has proven, not yet locked    *)
(*   chal    the live authenticator or first-password challenge            *)
(*   issued  first-password tokens handed to browsers                      *)
(*   token   the live password-reset link                                  *)
(*   row     the row of the user list each Admin's dialog was opened on    *)
(*   reachable  the bounds of this exploration, chosen once                *)
(***************************************************************************)
EXTENDS Naturals, FiniteSets

CONSTANTS Users, Devices,
          Founder,          \* the Admin the organization starts with
          MaxCred, MaxEra,  \* largest bounds of a scope
          AccessScopes,     \* the bounds of each exploration
          Nobody

\* The devices in use, the accounts that still hold a temporary password or
\* whose owner sets up an authenticator, and two bounds: passwords an account
\* has had, and suspensions.
AccessScope == [devices : SUBSET Devices, pending : SUBSET (Users \ {Founder}),
                enrolling : SUBSET Users, creds : 1..MaxCred, eras : 0..MaxEra]

ASSUME AccessAssumption ==
    /\ Founder \in Users /\ IsFiniteSet(Users) /\ MaxCred \in Nat \ {0} /\ MaxEra \in Nat
    /\ AccessScopes \subseteq AccessScope
    /\ Nobody \notin Users \cup Devices

VARIABLES orgActive, era, acct, sess, proof, chal, issued, token, row, reachable

accessVars == <<orgActive, era, acct, sess, proof, chal, issued, token, row, reachable>>
browser == <<proof, row>>

AccessRoles == {"Admin", "Operations"}
Account == [status : {"active", "suspended", "removed"}, role : AccessRoles,
            temp : BOOLEAN, cred : 1..MaxCred, mfa : BOOLEAN,
            via : 0..MaxCred, last : 0..MaxCred,
            proven : BOOLEAN, link : 0..MaxEra \cup {Nobody}]
Session == [user : Users, role : AccessRoles, cred : 1..MaxCred, mfa : BOOLEAN,
            era : 0..MaxEra]
\* An authenticator challenge is not bound to a password: its cred is 1.
Challenge == [kind : {"mfa", "temporary"}, cred : 1..MaxCred, era : 0..MaxEra]
Row == [user : Users, status : {"active", "suspended", "removed"},
        temp : BOOLEAN]

\* Members who were invited or who joined have proven their address; those
\* an Admin created with a temporary password have not.
AccessInit ==
    /\ reachable \in AccessScopes
    /\ orgActive = TRUE /\ era = 0
    /\ acct = [u \in Users |->
          [status |-> "active", temp |-> u \in reachable.pending, cred |-> 1, mfa |-> FALSE,
           role |-> IF u = Founder THEN "Admin" ELSE "Operations",
           via |-> 0, last |-> IF u \in reachable.pending THEN 1 ELSE 0,
           proven |-> u \notin reachable.pending, link |-> Nobody]]
    /\ sess = [d \in Devices |-> Nobody]
    /\ proof = [d \in Devices |-> Nobody]
    /\ chal = [u \in Users |-> Nobody]
    /\ issued = [u \in Users |-> {}]
    /\ token = [u \in Users |-> Nobody]
    /\ row = [d \in Devices |-> Nobody]

-----------------------------------------------------------------------------
(* Sessions.                                                               *)

\* User.is_active: active, past the first password, in an active organization.
IsActive(u) == orgActive /\ acct[u].status = "active" /\ ~acct[u].temp

SessionFor(u) == [user |-> u, role |-> acct[u].role, cred |-> acct[u].cred,
                  mfa |-> acct[u].mfa, era |-> era]

\* revoke_sessions: every session of the user, except on the devices kept.
Revoke(u, kept) ==
    [d \in Devices |-> IF sess[d] # Nobody /\ d \notin kept
                          /\ sess[d].user = u THEN Nobody ELSE sess[d]]

-----------------------------------------------------------------------------
(* Signing in.                                                             *)

\* password_proven_accounts compares the password before any lock is taken,
\* whoever the device is signed in as.
ProvePassword(d, u) ==
    /\ orgActive /\ acct[u].status = "active"
    /\ proof[d] = Nobody
    /\ proof' = [proof EXCEPT ![d] =
           [user |-> u, cred |-> acct[u].cred, temp |-> acct[u].temp]]
    /\ UNCHANGED <<orgActive, era, acct, sess, chal, issued, token, row, reachable>>

\* lock_active_account and the second comparison of the same password.
ProofHolds(p) == /\ IsActive(p.user) /\ ~p.temp
                 /\ acct[p.user].cred = p.cred

\* LoginView after the lock: a first-password challenge, a refusal, an
\* authenticator challenge or a session.
FinishLogin(d) ==
    LET p == proof[d]
        u == p.user
        temporary == /\ orgActive /\ acct[u].status = "active" /\ acct[u].temp
                     /\ acct[u].cred = p.cred
    IN
    /\ p # Nobody
    /\ proof' = [proof EXCEPT ![d] = Nobody]
    /\ row' = [row EXCEPT ![d] = Nobody]
    /\ \/ /\ temporary
          /\ chal' = [chal EXCEPT ![u] = [kind |-> "temporary", cred |-> p.cred,
                                          era |-> era]]
          /\ issued' = [issued EXCEPT ![u] = @ \cup {p.cred}]
          /\ sess' = [sess EXCEPT ![d] = Nobody]
       \/ /\ ~temporary /\ ProofHolds(p) /\ acct[u].mfa
          /\ chal' = [chal EXCEPT ![u] = [kind |-> "mfa", cred |-> 1,
                                          era |-> era]]
          /\ UNCHANGED <<sess, issued>>
       \/ /\ ~temporary /\ ProofHolds(p) /\ ~acct[u].mfa
          /\ sess' = [sess EXCEPT ![d] = [SessionFor(u) EXCEPT !.cred = p.cred]]
          /\ UNCHANGED <<chal, issued>>
       \/ /\ ~temporary /\ ~ProofHolds(p)
          /\ UNCHANGED <<sess, chal, issued>>
    /\ UNCHANGED <<orgActive, era, acct, token, reachable>>

\* MFAVerifyView: a live challenge and a code of the current authenticator.
VerifyMfa(d, u) ==
    /\ chal[u] # Nobody /\ chal[u].kind = "mfa"
    /\ IsActive(u) /\ acct[u].mfa
    /\ chal' = [chal EXCEPT ![u] = Nobody]
    /\ sess' = [sess EXCEPT ![d] = SessionFor(u)]
    /\ row' = [row EXCEPT ![d] = Nobody]
    /\ UNCHANGED <<orgActive, era, acct, proof, issued, token, reachable>>

ChallengeLapses(u) ==
    /\ chal[u] # Nobody
    /\ chal' = [chal EXCEPT ![u] = Nobody]
    /\ UNCHANGED <<orgActive, era, acct, sess, issued, token, browser, reachable>>

\* Mutant: the token is taken at its word about the account it was issued for.
AwaitsPassword(u, c) == orgActive /\ acct[u].status = "active" /\ acct[u].temp

\* The token is unused, and bound to the password the account has now.
MayComplete(u, c) ==
    /\ orgActive /\ acct[u].status = "active" /\ acct[u].temp
    /\ chal[u] # Nobody /\ chal[u].kind = "temporary" /\ chal[u].cred = c
    /\ acct[u].cred = c

CompleteTemporaryPassword(d, u, c) ==
    /\ MayComplete(u, c) /\ acct[u].cred < reachable.creds
    /\ LET done == [acct[u] EXCEPT !.temp = FALSE, !.cred = @ + 1, !.via = c] IN
       /\ acct' = [acct EXCEPT ![u] = done]
       /\ IF acct[u].mfa
          THEN /\ chal' = [chal EXCEPT ![u] = [kind |-> "mfa", era |-> era,
                                               cred |-> 1]]
               /\ sess' = Revoke(u, {})
          ELSE /\ chal' = [chal EXCEPT ![u] = Nobody]
               /\ sess' = [Revoke(u, {}) EXCEPT ![d] =
                      [user |-> u, role |-> done.role, cred |-> done.cred,
                       mfa |-> FALSE, era |-> era]]
    /\ row' = [row EXCEPT ![d] = Nobody]
    /\ UNCHANGED <<orgActive, era, proof, issued, token, reachable>>

-----------------------------------------------------------------------------
(* The account holder's own security settings.                             *)

\* A request of a device is served only for the session its cookie names.
SignedIn(d) == sess[d] # Nobody /\ IsActive(sess[d].user)

IssueReset(u) ==
    /\ IsActive(u)
    /\ token' = [token EXCEPT ![u] = era]
    /\ UNCHANGED <<orgActive, era, acct, sess, chal, issued, browser, reachable>>

\* ForgotPassword answers alike whether or not a link was sent.
ForgotPassword(u) == IssueReset(u)

\* The link asks for an active organization and a permanent password only;
\* an MFA challenge issued for the old password stays.
ResetPassword(u) ==
    /\ orgActive /\ token[u] # Nobody /\ ~acct[u].temp /\ acct[u].cred < reachable.creds
    /\ token' = [token EXCEPT ![u] = Nobody]
    /\ acct' = [acct EXCEPT ![u].cred = @ + 1]
    /\ sess' = Revoke(u, {})
    /\ UNCHANGED <<orgActive, era, chal, issued, browser, reachable>>

\* ResendVerificationView looks at the address only: neither the status of the
\* account nor its password matters. A removed row has no address left.
ResendVerification(u) ==
    /\ orgActive /\ acct[u].status # "removed" /\ ~acct[u].proven
    /\ acct' = [acct EXCEPT ![u].link = era]
    /\ UNCHANGED <<orgActive, era, sess, chal, issued, token, browser, reachable>>

\* VerifyEmailView makes the account active, whatever its status was.
VerifyEmail(u) ==
    /\ orgActive /\ acct[u].link # Nobody
    /\ acct' = [acct EXCEPT ![u].status = "active", ![u].proven = TRUE,
                            ![u].link = Nobody]
    /\ UNCHANGED <<orgActive, era, sess, chal, issued, token, browser, reachable>>

\* Changing one's own settings keeps the device that did it signed in, under
\* a rotated session, and revokes the others.
OwnChange(d, after) ==
    LET u == sess[d].user IN
    /\ SignedIn(d)
    /\ acct' = [acct EXCEPT ![u] = after]
    /\ sess' = [Revoke(u, {d}) EXCEPT ![d].cred = after.cred,
                                      ![d].mfa = after.mfa]
    /\ UNCHANGED <<orgActive, era, chal, issued, token, browser, reachable>>

ChangePassword(d) ==
    /\ SignedIn(d) /\ acct[sess[d].user].cred < reachable.creds
    /\ OwnChange(d, [acct[sess[d].user] EXCEPT !.cred = @ + 1])

ConfirmMfa(d) ==
    /\ SignedIn(d) /\ ~acct[sess[d].user].mfa /\ sess[d].user \in reachable.enrolling
    /\ OwnChange(d, [acct[sess[d].user] EXCEPT !.mfa = TRUE])

DisableMfa(d) ==
    /\ SignedIn(d) /\ acct[sess[d].user].mfa
    /\ OwnChange(d, [acct[sess[d].user] EXCEPT !.mfa = FALSE])

SignOut(d) ==
    /\ sess[d] # Nobody
    /\ sess' = [sess EXCEPT ![d] = Nobody]
    /\ row' = [row EXCEPT ![d] = Nobody]
    /\ UNCHANGED <<orgActive, era, acct, proof, chal, issued, token, reachable>>

SignOutEverywhere(d) ==
    /\ SignedIn(d)
    /\ sess' = Revoke(sess[d].user, {})
    /\ row' = [row EXCEPT ![d] = Nobody]
    /\ UNCHANGED <<orgActive, era, acct, proof, chal, issued, token, reachable>>

RevokeSession(d, other) ==
    /\ SignedIn(d) /\ sess[other] # Nobody /\ sess[other].user = sess[d].user
    /\ sess' = [sess EXCEPT ![other] = Nobody]
    /\ UNCHANGED <<orgActive, era, acct, chal, issued, token, browser, reachable>>

-----------------------------------------------------------------------------
(* The Admin's user list: the dialog keeps the row it was opened on.       *)

\* Every request is authorized again under the lock with the actor reloaded.
IsAdmin(d) == SignedIn(d) /\ acct[sess[d].user].role = "Admin"

OpenRow(d, u) ==
    /\ IsAdmin(d)
    /\ row' = [row EXCEPT ![d] = [user |-> u, status |-> acct[u].status,
                                  temp |-> acct[u].temp]]
    /\ UNCHANGED <<orgActive, era, acct, sess, proof, chal, issued, token, reachable>>

Acting(d) == IsAdmin(d) /\ row[d] # Nobody /\ row[d].user # sess[d].user

Effective(u) == acct[u].role = "Admin" /\ acct[u].status = "active"
                /\ ~acct[u].temp
\* Mutant: nothing stops the only Admin from giving up the role, as long as
\* anybody with the role is left on the list, first password set or not.
SomeAdminListed(d, u, after) ==
    \/ after.role = "Admin" /\ after.status = "active"
    \/ Cardinality({v \in Users : acct[v].role = "Admin"}) > 1

\* UserDetailView: nobody changes their own access, and the last effective
\* Admin keeps it.
MayChange(d, u, after) ==
    /\ u = sess[d].user => after.role = acct[u].role /\ after.status = acct[u].status
    /\ Effective(u) /\ (after.role # "Admin" \/ after.status # "active")
       => Cardinality({v \in Users : Effective(v)}) > 1

\* Mutant: only a change of status signs the member out.
SignsOutOnStatus(u, after) ==
    IF after.status # acct[u].status THEN Revoke(u, {}) ELSE sess

\* A change of role or status signs the member out.
SignsOut(u, after) ==
    IF after.role # acct[u].role \/ after.status # acct[u].status
    THEN Revoke(u, {}) ELSE sess

Patch(d, u, after) ==
    /\ IsAdmin(d) /\ MayChange(d, u, after)
    /\ acct' = [acct EXCEPT ![u] = after]
    /\ sess' = SignsOut(u, after)
    /\ row' = [row EXCEPT ![d] = Nobody]
    /\ UNCHANGED <<orgActive, era, proof, chal, issued, token, reachable>>

\* UserDrawer sends the role with the name (the server is asked directly for
\* the Admin's own row, too, and refuses).
SaveDrawer(d, role) ==
    /\ IsAdmin(d) /\ row[d] # Nobody
    /\ Patch(d, row[d].user, [acct[row[d].user] EXCEPT !.role = role])

SuspendUser(d) ==
    /\ Acting(d) /\ row[d].status = "active"
    /\ Patch(d, row[d].user, [acct[row[d].user] EXCEPT !.status = "suspended"])

ActivateUser(d) ==
    /\ Acting(d) /\ row[d].status = "suspended"
    /\ Patch(d, row[d].user, [acct[row[d].user] EXCEPT !.status = "active"])

\* Mutant: the account is given a status of its own instead of being
\* soft-removed.
DeletesUser(d) ==
    /\ Acting(d) /\ row[d].status # "removed"
    /\ Patch(d, row[d].user, [acct[row[d].user] EXCEPT !.status = "deleted"])

RemoveUser(d) ==
    /\ Acting(d) /\ row[d].status # "removed"
    /\ Patch(d, row[d].user, [acct[row[d].user] EXCEPT !.status = "removed"])

\* Regeneration ends everything bound to the earlier temporary password.
RegenerateTemporaryPassword(d) ==
    /\ Acting(d) /\ row[d].status = "active" /\ row[d].temp
    /\ LET u == row[d].user IN
       /\ acct[u].status = "active" /\ acct[u].temp /\ acct[u].cred < reachable.creds
       /\ acct' = [acct EXCEPT ![u].cred = @ + 1, ![u].last = acct[u].cred + 1,
                               ![u].link = Nobody]
       /\ chal' = [chal EXCEPT ![u] = Nobody]
       /\ token' = [token EXCEPT ![u] = Nobody]
       /\ sess' = Revoke(u, {})
    /\ UNCHANGED <<orgActive, era, issued, browser, reachable>>

SendPasswordReset(d) ==
    /\ Acting(d) /\ ~row[d].temp
    /\ IssueReset(row[d].user)

ResetUserMfa(d) ==
    /\ Acting(d)
    /\ LET u == row[d].user IN
       /\ acct[u].mfa
       /\ acct' = [acct EXCEPT ![u].mfa = FALSE]
       /\ sess' = Revoke(u, {})
    /\ UNCHANGED <<orgActive, era, chal, issued, token, browser, reachable>>

-----------------------------------------------------------------------------
(* The system operator.                                                    *)

\* The operator's reset of an Admin's authenticator also ends a sign-in that
\* waits for its code; a first-password challenge stays.
OperatorResetMfa(u) ==
    /\ orgActive /\ acct[u].role = "Admin" /\ acct[u].status = "active"
    /\ acct' = [acct EXCEPT ![u].mfa = FALSE]
    /\ chal' = IF chal[u] # Nobody /\ chal[u].kind = "mfa"
               THEN [chal EXCEPT ![u] = Nobody] ELSE chal
    /\ sess' = Revoke(u, {})
    /\ UNCHANGED <<orgActive, era, issued, token, browser, reachable>>

\* Mutant: challenges outlive the suspension.
KeepsChallenges == chal

EndedChallenges == [u \in Users |-> Nobody]

\* Sessions, action tokens and challenges end with the access.
SuspendOrganization ==
    /\ orgActive /\ era < reachable.eras
    /\ orgActive' = FALSE /\ era' = era + 1
    /\ sess' = [d \in Devices |-> Nobody]
    /\ chal' = EndedChallenges
    /\ token' = [u \in Users |-> Nobody]
    /\ acct' = [u \in Users |-> [acct[u] EXCEPT !.link = Nobody]]
    /\ UNCHANGED <<issued, browser, reachable>>

ReactivateOrganization ==
    /\ ~orgActive
    /\ orgActive' = TRUE
    /\ UNCHANGED <<era, acct, sess, chal, issued, token, browser, reachable>>

AccessNext ==
    \/ \E d \in reachable.devices :
          \/ FinishLogin(d) \/ ChangePassword(d) \/ ConfirmMfa(d) \/ DisableMfa(d)
          \/ SignOut(d) \/ SignOutEverywhere(d)
          \/ \E o \in reachable.devices : RevokeSession(d, o)
          \/ SuspendUser(d) \/ ActivateUser(d) \/ RemoveUser(d)
          \/ RegenerateTemporaryPassword(d) \/ SendPasswordReset(d) \/ ResetUserMfa(d)
          \/ \E role \in AccessRoles : SaveDrawer(d, role)
          \/ \E u \in Users :
                \/ ProvePassword(d, u) \/ VerifyMfa(d, u) \/ OpenRow(d, u)
                \/ \E c \in issued[u] : CompleteTemporaryPassword(d, u, c)
    \/ \E u \in Users :
          \/ ChallengeLapses(u) \/ ForgotPassword(u) \/ ResetPassword(u)
          \/ ResendVerification(u) \/ VerifyEmail(u) \/ OperatorResetMfa(u)
    \/ SuspendOrganization \/ ReactivateOrganization

AccessSpec == AccessInit /\ [][AccessNext]_accessVars

-----------------------------------------------------------------------------
(* Every variable keeps its type.                                          *)
AccessTypeOK ==
    /\ reachable \in AccessScope
    /\ orgActive \in BOOLEAN /\ era \in 0..MaxEra
    /\ acct \in [Users -> Account]
    /\ sess \in [Devices -> Session \cup {Nobody}]
    /\ proof \in [Devices -> [user : Users, cred : 1..MaxCred, temp : BOOLEAN]
                             \cup {Nobody}]
    /\ chal \in [Users -> Challenge \cup {Nobody}]
    /\ issued \in [Users -> SUBSET (1..MaxCred)]
    /\ token \in [Users -> 0..MaxEra \cup {Nobody}]
    /\ row \in [Devices -> Row \cup {Nobody}]

(* Nothing outlives the access it rests on. Whoever is signed in is an     *)
(* active member of an active organization, past the first password, and   *)
(* was signed in after the last change of their role, password,            *)
(* authenticator or the organization's last suspension, on the device that *)
(* made that change if not later (revoke_sessions in every such view). No  *)
(* challenge, reset link or verification link exists while the             *)
(* organization is suspended, and none from before works after the         *)
(* reactivation. And a browser that holds a temporary password an Admin    *)
(* has replaced since gets nowhere with it.                                *)
NothingOutlived ==
    /\ \A d \in Devices : sess[d] # Nobody =>
          IsActive(sess[d].user) /\ sess[d] = SessionFor(sess[d].user)
    /\ \A u \in Users :
          /\ chal[u] # Nobody => orgActive /\ chal[u].era = era
          /\ token[u] # Nobody => orgActive /\ token[u] = era
          /\ acct[u].link # Nobody => orgActive /\ acct[u].link = era
          /\ acct[u].via # 0 => acct[u].via = acct[u].last

(* An organization always keeps an Admin who can sign in, whatever its     *)
(* Admins do to each other from stale rows ("The organization must keep at *)
(* least one active Admin", user_views.py).                                *)
AdminRemains == \E u \in Users : Effective(u)

=============================================================================

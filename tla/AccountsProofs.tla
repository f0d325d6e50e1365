--------------------------- MODULE AccountsProofs ----------------------------
(***************************************************************************)
(* Accounts for every number of members, devices, passwords, invitations,   *)
(* requests, operators and retries: nobody keeps an access that was         *)
(* withdrawn and an Admin remains (AccountAccess), the three ways into an   *)
(* organization lead to one account (AccountAdmission), and a confirmed     *)
(* change of the console acts once (SystemConsole).                         *)
(***************************************************************************)
EXTENDS MCAccounts, FiniteSetTheorems, TLAPS

-----------------------------------------------------------------------------
(* Access: the inductive invariant                                          *)

Proven == [user : Users, cred : 1..MaxCred, temp : BOOLEAN]

\* An account that awaits its first password holds the temporary password it was given
\* last, and nothing was completed with one.
FirstPasswordSound(a) == a.temp => a.via = 0 /\ a.last = a.cred
CompletedSound(a) == a.via # 0 => a.via = a.last

AccessInv ==
  /\ AccessTypeOK
  /\ NothingOutlived
  /\ \A u \in Users : FirstPasswordSound(acct[u])
  /\ AdminRemains

\* Whoever may sign in with account a, and the session that gives.
MaySignIn(a) == orgActive /\ a.status = "active" /\ ~a.temp
SessionOf(u, a) == [user |-> u, role |-> a.role, cred |-> a.cred, mfa |-> a.mfa, era |-> era]

\* An account's session is one.
LEMMA SessionOfType ==
  ASSUME AccessInv, NEW u \in Users, NEW a \in Account
  PROVE  SessionOf(u, a) \in Session /\ SessionOf(u, a).user = u
BY DEF AccessInv, AccessTypeOK, SessionOf, Session, Account

\* Revoking the sessions of an account ends them, except on the devices kept.
LEMMA RevokeOutcome ==
  ASSUME AccessInv, NEW u \in Users, NEW kept \in SUBSET Devices
  PROVE  /\ Revoke(u, kept) \in [Devices -> Session \cup {Nobody}]
         /\ \A d \in Devices : \/ Revoke(u, kept)[d] = Nobody
                               \/ /\ Revoke(u, kept)[d] = sess[d]
                                  /\ d \in kept \/ sess[d].user # u
BY DEF AccessInv, AccessTypeOK, Revoke

\* Steps that change no account: sessions end, or begin for an account that may sign in;
\* challenges and reset links end, or begin in the present era.
LEMMA QuietKeeps ==
  ASSUME AccessInv, UNCHANGED <<orgActive, era, acct, reachable>>,
         sess' \in [Devices -> Session \cup {Nobody}],
         \A d \in Devices : \/ sess'[d] = sess[d] \/ sess'[d] = Nobody
                            \/ \E u \in Users : IsActive(u) /\ sess'[d] = SessionFor(u),
         proof' \in [Devices -> Proven \cup {Nobody}],
         chal' \in [Users -> Challenge \cup {Nobody}],
         \A u \in Users : \/ chal'[u] = chal[u] \/ chal'[u] = Nobody
                          \/ orgActive /\ chal'[u].era = era,
         issued' \in [Users -> SUBSET (1..MaxCred)],
         token' \in [Users -> 0..MaxEra \cup {Nobody}],
         \A u \in Users : token'[u] = token[u] \/ token'[u] = Nobody \/ (orgActive /\ token'[u] = era),
         row' \in [Devices -> Row \cup {Nobody}]
  PROVE  AccessInv'
<1>1. AccessTypeOK'
  BY DEF AccessInv, AccessTypeOK, Proven
<1>2. ASSUME NEW d \in Devices, sess'[d] # Nobody
      PROVE  (IsActive(sess[d].user) /\ sess[d] = SessionFor(sess[d].user))'
  <2>1. CASE sess'[d] = sess[d]
    BY <1>2, <2>1 DEF AccessInv, NothingOutlived, IsActive, SessionFor
  <2>2. ASSUME NEW u \in Users, IsActive(u), sess'[d] = SessionFor(u)
        PROVE  (IsActive(sess[d].user) /\ sess[d] = SessionFor(sess[d].user))'
    <3>1. sess'[d].user = u
      BY <2>2 DEF SessionFor
    <3>. QED
      BY <2>2, <3>1 DEF IsActive, SessionFor
  <2>. QED
    BY <1>2, <2>1, <2>2
<1>3. ASSUME NEW u \in Users
      PROVE  /\ chal'[u] # Nobody => orgActive' /\ chal'[u].era = era'
             /\ token'[u] # Nobody => orgActive' /\ token'[u] = era'
             /\ acct'[u].link # Nobody => orgActive' /\ acct'[u].link = era'
             /\ acct'[u].via # 0 => acct'[u].via = acct'[u].last
  BY DEF AccessInv, NothingOutlived
<1>4. NothingOutlived'
  BY <1>2, <1>3 DEF NothingOutlived
<1>5. AdminRemains' /\ \A u \in Users : FirstPasswordSound(acct[u])'
  BY DEF AccessInv, AdminRemains, Effective, FirstPasswordSound
<1>. QED
  BY <1>1, <1>4, <1>5 DEF AccessInv

\* Steps that change one account: its sessions end, but for one of the account as it is
\* after the step.
LEMMA AccountKeeps ==
  ASSUME AccessInv, UNCHANGED <<orgActive, era, reachable, proof, issued>>,
         NEW u \in Users, NEW a \in Account, acct' = [acct EXCEPT ![u] = a],
         FirstPasswordSound(a), CompletedSound(a),
         a.link = acct[u].link \/ a.link = Nobody \/ (orgActive /\ a.link = era),
         sess' \in [Devices -> Session \cup {Nobody}],
         \A d \in Devices : \/ sess'[d] = Nobody
                            \/ sess'[d] = sess[d] /\ sess[d].user # u
                            \/ MaySignIn(a) /\ sess'[d] = SessionOf(u, a),
         chal' \in [Users -> Challenge \cup {Nobody}],
         \A v \in Users : \/ chal'[v] = chal[v] \/ chal'[v] = Nobody
                          \/ orgActive /\ chal'[v].era = era,
         token' \in [Users -> 0..MaxEra \cup {Nobody}],
         \A v \in Users : token'[v] = token[v] \/ token'[v] = Nobody,
         row' \in [Devices -> Row \cup {Nobody}],
         \/ Effective(u) => a.role = "Admin" /\ a.status = "active" /\ ~a.temp
         \/ \E v \in Users \ {u} : Effective(v)
  PROVE  AccessInv'
<1>0. /\ acct \in [Users -> Account] /\ acct'[u] = a
      /\ \A v \in Users \ {u} : acct'[v] = acct[v]
  BY DEF AccessInv, AccessTypeOK
<1>1. AccessTypeOK'
  BY <1>0 DEF AccessInv, AccessTypeOK
<1>2. ASSUME NEW d \in Devices, sess'[d] # Nobody
      PROVE  (IsActive(sess[d].user) /\ sess[d] = SessionFor(sess[d].user))'
  <2>1. CASE sess'[d] = sess[d] /\ sess[d].user # u
    <3>1. sess[d].user \in Users \ {u}
      BY <1>2, <2>1 DEF AccessInv, AccessTypeOK, Session
    <3>2. acct'[sess[d].user] = acct[sess[d].user]
      BY <1>0, <3>1
    <3>. QED
      BY <1>2, <2>1, <3>2 DEF AccessInv, NothingOutlived, IsActive, SessionFor
  <2>2. CASE MaySignIn(a) /\ sess'[d] = SessionOf(u, a)
    <3>1. sess'[d].user = u
      BY <2>2 DEF SessionOf
    <3>. QED
      BY <1>0, <2>2, <3>1 DEF IsActive, SessionFor, SessionOf, MaySignIn
  <2>. QED
    BY <1>2, <2>1, <2>2
<1>3. ASSUME NEW v \in Users
      PROVE  /\ chal'[v] # Nobody => orgActive' /\ chal'[v].era = era'
             /\ token'[v] # Nobody => orgActive' /\ token'[v] = era'
             /\ acct'[v].link # Nobody => orgActive' /\ acct'[v].link = era'
             /\ acct'[v].via # 0 => acct'[v].via = acct'[v].last
  BY <1>0 DEF AccessInv, NothingOutlived, CompletedSound
<1>4. NothingOutlived'
  BY <1>2, <1>3 DEF NothingOutlived
<1>5. \A v \in Users : FirstPasswordSound(acct[v])'
  BY <1>0 DEF AccessInv, FirstPasswordSound
<1>6. AdminRemains'
  <2>1. CASE \E v \in Users \ {u} : Effective(v)
    BY <1>0, <2>1 DEF AdminRemains, Effective
  <2>2. CASE ~\E v \in Users \ {u} : Effective(v)
    <3>1. Effective(u)
      BY <2>2 DEF AccessInv, AdminRemains
    <3>. QED
      BY <1>0, <2>2, <3>1 DEF AdminRemains, Effective
  <2>. QED
    BY <2>1, <2>2
<1>. QED
  BY <1>1, <1>4, <1>5, <1>6 DEF AccessInv

-----------------------------------------------------------------------------
(* Access: signing in and out                                               *)

\* The account's own session, by either name.
LEMMA SessionForIs ==
  ASSUME AccessInv, NEW u \in Users
  PROVE  SessionFor(u) = SessionOf(u, acct[u]) /\ SessionFor(u) \in Session
BY SessionOfType DEF SessionFor, SessionOf, AccessInv, AccessTypeOK

\* The password is compared before any lock is taken.
LEMMA ProveKeeps ==
  ASSUME AccessInv, NEW d \in Devices, NEW u \in Users, ProvePassword(d, u)
  PROVE  AccessInv'
<1>1. proof' \in [Devices -> Proven \cup {Nobody}]
  <2>1. [user |-> u, cred |-> acct[u].cred, temp |-> acct[u].temp] \in Proven
    BY DEF AccessInv, AccessTypeOK, Account, Proven
  <2>. QED
    BY <2>1 DEF ProvePassword, AccessInv, AccessTypeOK, Proven
<1>. QED
  BY <1>1, QuietKeeps DEF ProvePassword, AccessInv, AccessTypeOK

\* A sign-in ends in a session of the account as it is under the lock, a challenge or a
\* refusal.
LEMMA FinishKeeps ==
  ASSUME AccessInv, NEW d \in Devices, FinishLogin(d)
  PROVE  AccessInv'
<1>. DEFINE p == proof[d]
            u == p.user
<1>0. /\ p \in Proven /\ u \in Users /\ p.cred \in 1..MaxCred
      /\ acct[u] \in Account /\ era \in 0..MaxEra /\ 1 \in 1..MaxCred
  BY AccessAssumption DEF AccessInv, AccessTypeOK, FinishLogin, Proven
<1>1. /\ UNCHANGED <<orgActive, era, acct, reachable, token>>
      /\ proof' \in [Devices -> Proven \cup {Nobody}]
      /\ row' \in [Devices -> Row \cup {Nobody}]
      /\ token \in [Users -> 0..MaxEra \cup {Nobody}]
  BY DEF FinishLogin, AccessInv, AccessTypeOK, Proven
<1>2. CASE /\ orgActive /\ chal' = [chal EXCEPT ![u] = [kind |-> "temporary", cred |-> p.cred,
                                                        era |-> era]]
           /\ issued' = [issued EXCEPT ![u] = @ \cup {p.cred}]
           /\ sess' = [sess EXCEPT ![d] = Nobody]
  <2>1. chal' \in [Users -> Challenge \cup {Nobody}]
    BY <1>0, <1>2 DEF AccessInv, AccessTypeOK, Challenge
  <2>2. issued' \in [Users -> SUBSET (1..MaxCred)]
    BY <1>0, <1>2 DEF AccessInv, AccessTypeOK
  <2>3. \A v \in Users : chal'[v] = chal[v] \/ (orgActive /\ chal'[v].era = era)
    <3>1. chal \in [Users -> Challenge \cup {Nobody}]
      BY DEF AccessInv, AccessTypeOK
    <3>2. /\ chal'[u].era = era
          /\ \A v \in Users : v # u => chal'[v] = chal[v]
      BY <1>0, <1>2, <3>1
    <3>. QED
      BY <1>2, <3>2
  <2>4. /\ sess' \in [Devices -> Session \cup {Nobody}]
        /\ \A e \in Devices : sess'[e] = sess[e] \/ sess'[e] = Nobody
    BY <1>2 DEF AccessInv, AccessTypeOK
  <2>. QED
    BY <1>1, <2>1, <2>2, <2>3, <2>4, QuietKeeps
<1>3. CASE /\ orgActive /\ chal' = [chal EXCEPT ![u] = [kind |-> "mfa", cred |-> 1, era |-> era]]
           /\ UNCHANGED <<sess, issued>>
  <2>1. chal' \in [Users -> Challenge \cup {Nobody}]
    BY <1>0, <1>3 DEF AccessInv, AccessTypeOK, Challenge
  <2>2. \A v \in Users : chal'[v] = chal[v] \/ (orgActive /\ chal'[v].era = era)
    <3>1. chal \in [Users -> Challenge \cup {Nobody}]
      BY DEF AccessInv, AccessTypeOK
    <3>2. /\ chal'[u].era = era
          /\ \A v \in Users : v # u => chal'[v] = chal[v]
      BY <1>0, <1>3, <3>1
    <3>. QED
      BY <1>3, <3>2
  <2>. QED
    BY <1>1, <1>3, <2>1, <2>2, QuietKeeps DEF AccessInv, AccessTypeOK
<1>4. CASE /\ ProofHolds(p) /\ sess' = [sess EXCEPT ![d] = [SessionFor(u) EXCEPT !.cred = p.cred]]
           /\ UNCHANGED <<chal, issued>>
  <2>1. IsActive(u) /\ acct[u].cred = p.cred
    BY <1>4 DEF ProofHolds
  <2>2. [SessionFor(u) EXCEPT !.cred = p.cred] = SessionFor(u)
    BY <2>1 DEF SessionFor
  <2>3. SessionFor(u) \in Session
    BY <1>0, SessionForIs
  <2>4. /\ sess' \in [Devices -> Session \cup {Nobody}]
        /\ \A e \in Devices : sess'[e] = sess[e] \/ sess'[e] = SessionFor(u)
    BY <1>4, <2>2, <2>3 DEF AccessInv, AccessTypeOK
  <2>5. \A e \in Devices : sess'[e] = sess[e] \/ \E v \in Users : IsActive(v) /\ sess'[e] = SessionFor(v)
    BY <1>0, <2>1, <2>4
  <2>. QED
    BY <1>1, <1>4, <2>4, <2>5, QuietKeeps DEF AccessInv, AccessTypeOK
<1>5. CASE UNCHANGED <<sess, chal, issued>>
  BY <1>1, <1>5, QuietKeeps DEF AccessInv, AccessTypeOK
<1>. QED
  BY <1>2, <1>3, <1>4, <1>5 DEF FinishLogin, ProofHolds, IsActive

\* A code of the authenticator begins a session.
LEMMA VerifyKeeps ==
  ASSUME AccessInv, NEW d \in Devices, NEW u \in Users, VerifyMfa(d, u)
  PROVE  AccessInv'
<1>1. SessionFor(u) \in Session /\ IsActive(u)
  BY SessionForIs DEF VerifyMfa
<1>2. /\ sess' \in [Devices -> Session \cup {Nobody}]
      /\ \A e \in Devices : sess'[e] = sess[e] \/ sess'[e] = SessionFor(u)
  BY <1>1 DEF VerifyMfa, AccessInv, AccessTypeOK
<1>3. \A e \in Devices : sess'[e] = sess[e] \/ \E v \in Users : IsActive(v) /\ sess'[e] = SessionFor(v)
  BY <1>1, <1>2
<1>4. /\ chal' \in [Users -> Challenge \cup {Nobody}]
      /\ \A v \in Users : chal'[v] = chal[v] \/ chal'[v] = Nobody
      /\ row' \in [Devices -> Row \cup {Nobody}]
      /\ proof \in [Devices -> Proven \cup {Nobody}]
  BY DEF VerifyMfa, AccessInv, AccessTypeOK, Proven
<1>. QED
  BY <1>2, <1>3, <1>4, QuietKeeps DEF VerifyMfa, AccessInv, AccessTypeOK

\* A challenge ends, or a reset link is mailed.
LEMMA LinkStepsKeep ==
  ASSUME AccessInv, NEW u \in Users, ChallengeLapses(u) \/ IssueReset(u)
  PROVE  AccessInv'
<1>0. /\ proof \in [Devices -> Proven \cup {Nobody}] /\ row \in [Devices -> Row \cup {Nobody}]
      /\ chal \in [Users -> Challenge \cup {Nobody}] /\ issued \in [Users -> SUBSET (1..MaxCred)]
      /\ token \in [Users -> 0..MaxEra \cup {Nobody}] /\ sess \in [Devices -> Session \cup {Nobody}]
      /\ acct \in [Users -> Account] /\ era \in 0..MaxEra
  BY DEF AccessInv, AccessTypeOK, Proven
<1>1. CASE ChallengeLapses(u)
  <2>1. /\ chal' \in [Users -> Challenge \cup {Nobody}]
        /\ \A v \in Users : chal'[v] = chal[v] \/ chal'[v] = Nobody
    BY <1>0, <1>1 DEF ChallengeLapses
  <2>. QED
    BY <1>0, <1>1, <2>1, QuietKeeps DEF ChallengeLapses, browser
<1>2. CASE IssueReset(u)
  <2>1. /\ token' \in [Users -> 0..MaxEra \cup {Nobody}]
        /\ \A v \in Users : token'[v] = token[v] \/ (orgActive /\ token'[v] = era)
    BY <1>0, <1>2 DEF IssueReset, IsActive
  <2>. QED
    BY <1>0, <1>2, <2>1, QuietKeeps DEF IssueReset, browser
<1>. QED
  BY <1>1, <1>2

\* A session ends, or a row is opened.
LEMMA SmallStepsKeep ==
  ASSUME AccessInv, NEW d \in Devices, NEW o \in Devices, NEW u \in Users,
         SignOut(d) \/ SignOutEverywhere(d) \/ RevokeSession(d, o) \/ OpenRow(d, u)
  PROVE  AccessInv'
<1>0. /\ proof \in [Devices -> Proven \cup {Nobody}] /\ row \in [Devices -> Row \cup {Nobody}]
      /\ chal \in [Users -> Challenge \cup {Nobody}] /\ issued \in [Users -> SUBSET (1..MaxCred)]
      /\ token \in [Users -> 0..MaxEra \cup {Nobody}] /\ sess \in [Devices -> Session \cup {Nobody}]
      /\ acct \in [Users -> Account] /\ era \in 0..MaxEra
  BY DEF AccessInv, AccessTypeOK, Proven
<1>3. CASE SignOut(d)
  <2>1. /\ sess' \in [Devices -> Session \cup {Nobody}]
        /\ \A e \in Devices : sess'[e] = sess[e] \/ sess'[e] = Nobody
        /\ row' \in [Devices -> Row \cup {Nobody}]
    BY <1>0, <1>3 DEF SignOut
  <2>. QED
    BY <1>0, <1>3, <2>1, QuietKeeps DEF SignOut
<1>4. CASE SignOutEverywhere(d)
  <2>1. sess[d].user \in Users
    BY <1>0, <1>4 DEF SignOutEverywhere, SignedIn, Session
  <2>2. /\ sess' \in [Devices -> Session \cup {Nobody}]
        /\ \A e \in Devices : sess'[e] = sess[e] \/ sess'[e] = Nobody
    BY <1>4, <2>1, RevokeOutcome DEF SignOutEverywhere
  <2>3. row' \in [Devices -> Row \cup {Nobody}]
    BY <1>0, <1>4 DEF SignOutEverywhere
  <2>. QED
    BY <1>0, <1>4, <2>2, <2>3, QuietKeeps DEF SignOutEverywhere
<1>5. CASE RevokeSession(d, o)
  <2>1. /\ sess' \in [Devices -> Session \cup {Nobody}]
        /\ \A e \in Devices : sess'[e] = sess[e] \/ sess'[e] = Nobody
    BY <1>0, <1>5 DEF RevokeSession
  <2>. QED
    BY <1>0, <1>5, <2>1, QuietKeeps DEF RevokeSession, browser
<1>6. CASE OpenRow(d, u)
  <2>1. [user |-> u, status |-> acct[u].status, temp |-> acct[u].temp] \in Row
    BY <1>0 DEF Account, Row
  <2>2. row' \in [Devices -> Row \cup {Nobody}]
    BY <1>0, <1>6, <2>1 DEF OpenRow
  <2>. QED
    BY <1>0, <1>6, <2>2, QuietKeeps DEF OpenRow
<1>. QED
  BY <1>3, <1>4, <1>5, <1>6

-----------------------------------------------------------------------------
(* Access: changes of an account                                            *)

\* A first password replaces the temporary one it was asked for with.
LEMMA CompleteKeeps ==
  ASSUME AccessInv, NEW d \in Devices, NEW u \in Users, NEW c \in issued[u],
         CompleteTemporaryPassword(d, u, c)
  PROVE  AccessInv'
<1>. DEFINE a == [acct[u] EXCEPT !.temp = FALSE, !.cred = @ + 1, !.via = c]
            s == [user |-> u, role |-> a.role, cred |-> a.cred, mfa |-> FALSE, era |-> era]
<1>0. /\ acct[u] \in Account /\ acct[u].cred \in 1..MaxCred /\ reachable.creds \in 1..MaxCred
      /\ era \in 0..MaxEra /\ MaxCred \in Nat /\ 1 \in 1..MaxCred
      /\ FirstPasswordSound(acct[u])
  BY AccessAssumption DEF AccessInv, AccessTypeOK, Account, AccessScope
<1>1. /\ acct[u].temp /\ acct[u].cred = c /\ orgActive /\ acct[u].status = "active"
      /\ acct[u].cred < reachable.creds /\ acct' = [acct EXCEPT ![u] = a]
  BY DEF CompleteTemporaryPassword, MayComplete
<1>2. /\ a \in Account /\ a.temp = FALSE /\ a.via = acct[u].cred /\ a.last = acct[u].last
      /\ a.status = acct[u].status /\ a.role = acct[u].role /\ a.mfa = acct[u].mfa
      /\ a.link = acct[u].link
  <2>1. c \in 0..MaxCred /\ acct[u].cred + 1 \in 1..MaxCred
    BY <1>0, <1>1
  <2>. QED
    BY <1>0, <1>1, <2>1 DEF Account
<1>3. FirstPasswordSound(a) /\ CompletedSound(a) /\ MaySignIn(a)
  BY <1>0, <1>1, <1>2 DEF FirstPasswordSound, CompletedSound, MaySignIn
<1>4. Effective(u) => a.role = "Admin" /\ a.status = "active" /\ ~a.temp
  BY <1>2 DEF Effective
<1>5. ~acct[u].mfa => s = SessionOf(u, a) /\ s \in Session
  BY <1>0, <1>2, SessionOfType DEF SessionOf, Account
<1>6. /\ Revoke(u, {}) \in [Devices -> Session \cup {Nobody}]
      /\ \A e \in Devices : \/ Revoke(u, {})[e] = Nobody
                            \/ Revoke(u, {})[e] = sess[e] /\ sess[e].user # u
  BY RevokeOutcome
<1>7. /\ acct[u].mfa => sess' = Revoke(u, {})
      /\ ~acct[u].mfa => sess' = [Revoke(u, {}) EXCEPT ![d] = s]
      /\ \/ chal' = [chal EXCEPT ![u] = [kind |-> "mfa", era |-> era, cred |-> 1]]
         \/ chal' = [chal EXCEPT ![u] = Nobody]
      /\ row' = [row EXCEPT ![d] = Nobody]
      /\ UNCHANGED <<orgActive, era, proof, issued, token, reachable>>
  BY DEF CompleteTemporaryPassword
<1>. HIDE DEF a, s
<1>8. /\ sess' \in [Devices -> Session \cup {Nobody}]
      /\ \A e \in Devices : \/ sess'[e] = Nobody
                            \/ sess'[e] = sess[e] /\ sess[e].user # u
                            \/ MaySignIn(a) /\ sess'[e] = SessionOf(u, a)
  <2>1. CASE acct[u].mfa
    BY <1>6, <1>7, <2>1
  <2>2. CASE ~acct[u].mfa
    <3>1. sess' = [Revoke(u, {}) EXCEPT ![d] = s] /\ s = SessionOf(u, a) /\ s \in Session
      BY <1>5, <1>7, <2>2
    <3>. QED
      BY <1>3, <1>6, <3>1
  <2>. QED
    BY <2>1, <2>2
<1>9. /\ chal' \in [Users -> Challenge \cup {Nobody}]
      /\ \A v \in Users : \/ chal'[v] = chal[v] \/ chal'[v] = Nobody
                          \/ orgActive /\ chal'[v].era = era
  <2>1. [kind |-> "mfa", era |-> era, cred |-> 1] \in Challenge
    BY <1>0 DEF Challenge
  <2>. QED
    BY <1>1, <1>7, <2>1 DEF AccessInv, AccessTypeOK
<1>10. row' \in [Devices -> Row \cup {Nobody}] /\ token \in [Users -> 0..MaxEra \cup {Nobody}]
  BY <1>7 DEF AccessInv, AccessTypeOK
<1>. QED
  BY <1>1, <1>2, <1>3, <1>4, <1>7, <1>8, <1>9, <1>10, AccountKeeps

\* A reset link gives a new password and signs everybody out.
LEMMA ResetKeeps ==
  ASSUME AccessInv, NEW u \in Users, ResetPassword(u)
  PROVE  AccessInv'
<1>. DEFINE a == [acct[u] EXCEPT !.cred = @ + 1]
<1>0. /\ acct[u] \in Account /\ acct[u].cred \in 1..MaxCred /\ reachable.creds \in 1..MaxCred
      /\ MaxCred \in Nat /\ CompletedSound(acct[u])
  BY AccessAssumption DEF AccessInv, AccessTypeOK, Account, AccessScope, NothingOutlived,
                          CompletedSound
<1>1. /\ ~acct[u].temp /\ acct[u].cred < reachable.creds /\ acct' = [acct EXCEPT ![u] = a]
      /\ token' = [token EXCEPT ![u] = Nobody] /\ sess' = Revoke(u, {})
      /\ UNCHANGED <<orgActive, era, chal, issued, proof, row, reachable>>
  BY DEF ResetPassword, browser
<1>2. /\ a \in Account /\ a.temp = acct[u].temp /\ a.via = acct[u].via /\ a.last = acct[u].last
      /\ a.status = acct[u].status /\ a.role = acct[u].role /\ a.link = acct[u].link
  BY <1>0, <1>1 DEF Account
<1>. HIDE DEF a
<1>3. FirstPasswordSound(a) /\ CompletedSound(a)
  BY <1>0, <1>1, <1>2 DEF FirstPasswordSound, CompletedSound
<1>4. Effective(u) => a.role = "Admin" /\ a.status = "active" /\ ~a.temp
  BY <1>2 DEF Effective
<1>5. /\ sess' \in [Devices -> Session \cup {Nobody}]
      /\ \A e \in Devices : sess'[e] = Nobody \/ (sess'[e] = sess[e] /\ sess[e].user # u)
  <2>1. /\ Revoke(u, {}) \in [Devices -> Session \cup {Nobody}]
        /\ \A e \in Devices : \/ Revoke(u, {})[e] = Nobody
                              \/ Revoke(u, {})[e] = sess[e] /\ sess[e].user # u
    BY RevokeOutcome
  <2>. QED
    BY <1>1, <2>1
<1>6. /\ token' \in [Users -> 0..MaxEra \cup {Nobody}]
      /\ \A v \in Users : token'[v] = token[v] \/ token'[v] = Nobody
      /\ chal \in [Users -> Challenge \cup {Nobody}] /\ row \in [Devices -> Row \cup {Nobody}]
  BY <1>1 DEF AccessInv, AccessTypeOK
<1>. QED
  BY <1>1, <1>2, <1>3, <1>4, <1>5, <1>6, AccountKeeps

\* A member changes their own password or authenticator: the device that did it goes on
\* with a session of the changed account.
LEMMA OwnChangeKeeps ==
  ASSUME AccessInv, NEW d \in Devices, NEW a \in Account, OwnChange(d, a),
         a.temp = acct[sess[d].user].temp, a.via = acct[sess[d].user].via,
         a.last = acct[sess[d].user].last, a.role = acct[sess[d].user].role,
         a.status = acct[sess[d].user].status, a.link = acct[sess[d].user].link
  PROVE  AccessInv'
<1>. DEFINE u == sess[d].user
            r == Revoke(u, {d})
<1>0. /\ sess[d] # Nobody /\ IsActive(u) /\ sess[d] \in Session /\ u \in Users
      /\ sess[d] = SessionFor(u) /\ acct[u] \in Account /\ CompletedSound(acct[u])
  <2>1. sess[d] # Nobody /\ IsActive(u)
    BY DEF OwnChange, SignedIn
  <2>2. sess[d] \in Session /\ u \in Users
    BY <2>1 DEF AccessInv, AccessTypeOK, Session
  <2>. QED
    BY <2>1, <2>2 DEF AccessInv, AccessTypeOK, NothingOutlived, CompletedSound
<1>1. /\ acct' = [acct EXCEPT ![u] = a]
      /\ sess' = [r EXCEPT ![d].cred = a.cred, ![d].mfa = a.mfa]
      /\ UNCHANGED <<orgActive, era, chal, issued, token, proof, row, reachable>>
  BY DEF OwnChange, browser
<1>2. /\ r \in [Devices -> Session \cup {Nobody}] /\ r[d] = sess[d]
      /\ \A e \in Devices \ {d} : r[e] = Nobody \/ (r[e] = sess[e] /\ sess[e].user # u)
  <2>1. r[d] = sess[d]
    BY DEF Revoke
  <2>2. /\ r \in [Devices -> Session \cup {Nobody}]
        /\ \A e \in Devices : \/ r[e] = Nobody
                              \/ /\ r[e] = sess[e]
                                 /\ e \in {d} \/ sess[e].user # u
    BY <1>0, RevokeOutcome
  <2>. QED
    BY <2>1, <2>2
<1>. DEFINE s == [[sess[d] EXCEPT !.cred = a.cred] EXCEPT !.mfa = a.mfa]
<1>. HIDE DEF r
<1>3. s = SessionOf(u, a) /\ s \in Session
  <2>1. sess[d] = [user |-> u, role |-> a.role, cred |-> acct[u].cred, mfa |-> acct[u].mfa,
                   era |-> era]
    BY <1>0 DEF SessionFor
  <2>2. s = [user |-> u, role |-> a.role, cred |-> a.cred, mfa |-> a.mfa, era |-> era]
    <3>. DEFINE t == [sess[d] EXCEPT !.cred = a.cred]
    <3>1. s = [t EXCEPT !.mfa = a.mfa]
      OBVIOUS
    <3>. HIDE DEF u, s
    <3>2. t = [user |-> u, role |-> a.role, cred |-> a.cred, mfa |-> acct[u].mfa, era |-> era]
      BY <2>1
    <3>. HIDE DEF t
    <3>. QED
      BY <3>1, <3>2
  <2>. QED
    BY <1>0, <2>2, SessionOfType DEF SessionOf
<1>4. sess' = [r EXCEPT ![d] = s]
  BY <1>1, <1>2
<1>. HIDE DEF s
<1>5. FirstPasswordSound(a) /\ CompletedSound(a) /\ MaySignIn(a)
  BY <1>0 DEF FirstPasswordSound, CompletedSound, MaySignIn, IsActive
<1>6. Effective(u) => a.role = "Admin" /\ a.status = "active" /\ ~a.temp
  BY DEF Effective
<1>7. /\ sess' \in [Devices -> Session \cup {Nobody}]
      /\ \A e \in Devices : \/ sess'[e] = Nobody
                            \/ sess'[e] = sess[e] /\ sess[e].user # u
                            \/ MaySignIn(a) /\ sess'[e] = SessionOf(u, a)
  BY <1>2, <1>3, <1>4, <1>5
<1>8. /\ chal \in [Users -> Challenge \cup {Nobody}] /\ row \in [Devices -> Row \cup {Nobody}]
      /\ token \in [Users -> 0..MaxEra \cup {Nobody}]
  BY DEF AccessInv, AccessTypeOK
<1>9. a.link = acct[u].link
  OBVIOUS
<1>. HIDE DEF u
<1>. QED
  BY <1>0, <1>1, <1>5, <1>6, <1>7, <1>8, <1>9, AccountKeeps

\* The three changes a member makes to their own account.
LEMMA OwnStepsKeep ==
  ASSUME AccessInv, NEW d \in Devices, ChangePassword(d) \/ ConfirmMfa(d) \/ DisableMfa(d)
  PROVE  AccessInv'
<1>. DEFINE b == acct[sess[d].user]
<1>0. b \in Account /\ b.cred \in 1..MaxCred /\ reachable.creds \in 1..MaxCred /\ MaxCred \in Nat
  <2>1. SignedIn(d)
    BY DEF ChangePassword, ConfirmMfa, DisableMfa
  <2>2. sess[d].user \in Users
    BY <2>1 DEF SignedIn, AccessInv, AccessTypeOK, Session
  <2>3. b \in Account
    BY <2>2 DEF AccessInv, AccessTypeOK
  <2>. QED
    BY <2>3, AccessAssumption DEF AccessInv, AccessTypeOK, Account, AccessScope
<1>1. CASE ChangePassword(d)
  <2>. DEFINE a == [b EXCEPT !.cred = @ + 1]
  <2>1. b.cred < reachable.creds /\ OwnChange(d, a)
    BY <1>1 DEF ChangePassword
  <2>2. b.cred + 1 \in 1..MaxCred
    BY <1>0, <2>1
  <2>. HIDE DEF b
  <2>3. /\ a \in Account /\ a.temp = b.temp /\ a.via = b.via /\ a.last = b.last
        /\ a.role = b.role /\ a.status = b.status /\ a.link = b.link
    BY <1>0, <2>2 DEF Account
  <2>. HIDE DEF a
  <2>. QED
    BY <2>1, <2>3, OwnChangeKeeps DEF b
<1>2. ASSUME NEW on \in BOOLEAN, OwnChange(d, [b EXCEPT !.mfa = on]) PROVE AccessInv'
  <2>. DEFINE a == [b EXCEPT !.mfa = on]
  <2>1. OwnChange(d, a)
    BY <1>2
  <2>. HIDE DEF b
  <2>2. /\ a \in Account /\ a.temp = b.temp /\ a.via = b.via /\ a.last = b.last
        /\ a.role = b.role /\ a.status = b.status /\ a.link = b.link
    BY <1>0 DEF Account
  <2>. HIDE DEF a
  <2>. QED
    BY <2>1, <2>2, OwnChangeKeeps DEF b
<1>. QED
  BY <1>1, <1>2 DEF ConfirmMfa, DisableMfa

\* More than one effective Admin is another one besides u.
LEMMA AnotherAdmin ==
  ASSUME NEW u \in Users, Cardinality({v \in Users : Effective(v)}) > 1
  PROVE  \E v \in Users \ {u} : Effective(v)
<1>. DEFINE S == {v \in Users : Effective(v)}
<1>1. SUFFICES ASSUME S \subseteq {u} PROVE FALSE
  OBVIOUS
<1>2. IsFiniteSet({u}) /\ Cardinality({u}) = 1
  BY FS_Singleton
<1>3. Cardinality(S) <= 1 /\ Cardinality(S) \in Nat
  BY <1>1, <1>2, FS_Subset, FS_CardinalityType
<1>. QED
  BY <1>3

\* An Admin changes a member's role or status, from a row that may be stale.
LEMMA PatchKeeps ==
  ASSUME AccessInv, NEW d \in Devices, NEW u \in Users, NEW a \in Account, Patch(d, u, a),
         a.temp = acct[u].temp, a.via = acct[u].via, a.last = acct[u].last,
         a.cred = acct[u].cred, a.mfa = acct[u].mfa, a.link = acct[u].link
  PROVE  AccessInv'
<1>0. /\ acct[u] \in Account /\ FirstPasswordSound(acct[u]) /\ CompletedSound(acct[u])
      /\ chal \in [Users -> Challenge \cup {Nobody}]
      /\ token \in [Users -> 0..MaxEra \cup {Nobody}]
  BY DEF AccessInv, AccessTypeOK, NothingOutlived, CompletedSound
<1>1. /\ MayChange(d, u, a) /\ acct' = [acct EXCEPT ![u] = a] /\ sess' = SignsOut(u, a)
      /\ row' = [row EXCEPT ![d] = Nobody]
      /\ UNCHANGED <<orgActive, era, proof, chal, issued, token, reachable>>
  BY DEF Patch
<1>2. FirstPasswordSound(a) /\ CompletedSound(a)
  BY <1>0 DEF FirstPasswordSound, CompletedSound
<1>3. \/ Effective(u) => a.role = "Admin" /\ a.status = "active" /\ ~a.temp
      \/ \E v \in Users \ {u} : Effective(v)
  <2>1. CASE Effective(u) /\ (a.role # "Admin" \/ a.status # "active")
    BY <1>1, <2>1, AnotherAdmin DEF MayChange
  <2>. QED
    BY <2>1 DEF Effective
<1>4. /\ sess' \in [Devices -> Session \cup {Nobody}]
      /\ \A e \in Devices : \/ sess'[e] = Nobody
                            \/ sess'[e] = sess[e] /\ sess[e].user # u
                            \/ MaySignIn(a) /\ sess'[e] = SessionOf(u, a)
  <2>1. CASE a.role # acct[u].role \/ a.status # acct[u].status
    <3>1. sess' = Revoke(u, {})
      BY <1>1, <2>1 DEF SignsOut
    <3>2. /\ Revoke(u, {}) \in [Devices -> Session \cup {Nobody}]
          /\ \A e \in Devices : \/ Revoke(u, {})[e] = Nobody
                                \/ Revoke(u, {})[e] = sess[e] /\ sess[e].user # u
      BY RevokeOutcome
    <3>. QED
      BY <3>1, <3>2
  <2>2. CASE a.role = acct[u].role /\ a.status = acct[u].status
    <3>1. sess' = sess /\ sess \in [Devices -> Session \cup {Nobody}]
      BY <1>1, <2>2 DEF SignsOut, AccessInv, AccessTypeOK
    <3>2. ASSUME NEW e \in Devices, sess[e] # Nobody, sess[e].user = u
          PROVE  MaySignIn(a) /\ sess[e] = SessionOf(u, a)
      BY <2>2, <3>2 DEF AccessInv, NothingOutlived, IsActive, SessionFor, MaySignIn, SessionOf
    <3>. QED
      BY <3>1, <3>2
  <2>. QED
    BY <2>1, <2>2
<1>5. row' \in [Devices -> Row \cup {Nobody}]
  BY <1>1 DEF AccessInv, AccessTypeOK
<1>. QED
  BY <1>0, <1>1, <1>2, <1>3, <1>4, <1>5, AccountKeeps

\* The four changes of a member by an Admin.
LEMMA PatchStepsKeep ==
  ASSUME AccessInv, NEW d \in Devices, NEW role \in AccessRoles,
         SaveDrawer(d, role) \/ SuspendUser(d) \/ ActivateUser(d) \/ RemoveUser(d)
  PROVE  AccessInv'
<1>. DEFINE u == row[d].user
            b == acct[u]
<1>0. u \in Users /\ b \in Account
  <2>1. row[d] # Nobody
    BY DEF SaveDrawer, SuspendUser, ActivateUser, RemoveUser, Acting
  <2>2. u \in Users
    BY <2>1 DEF AccessInv, AccessTypeOK, Row
  <2>. QED
    BY <2>2 DEF AccessInv, AccessTypeOK
<1>1. ASSUME Patch(d, u, [b EXCEPT !.role = role]) PROVE AccessInv'
  <2>. DEFINE a == [b EXCEPT !.role = role]
  <2>1. Patch(d, u, a)
    BY <1>1
  <2>. HIDE DEF b
  <2>2. /\ a \in Account /\ a.temp = b.temp /\ a.via = b.via /\ a.last = b.last
        /\ a.cred = b.cred /\ a.mfa = b.mfa /\ a.link = b.link
    BY <1>0 DEF Account
  <2>. HIDE DEF a, u
  <2>. QED
    BY <1>0, <2>1, <2>2, PatchKeeps DEF b
<1>2. ASSUME NEW st \in {"active", "suspended", "removed"}, Patch(d, u, [b EXCEPT !.status = st])
      PROVE  AccessInv'
  <2>. DEFINE a == [b EXCEPT !.status = st]
  <2>1. Patch(d, u, a)
    BY <1>2
  <2>. HIDE DEF b
  <2>2. /\ a \in Account /\ a.temp = b.temp /\ a.via = b.via /\ a.last = b.last
        /\ a.cred = b.cred /\ a.mfa = b.mfa /\ a.link = b.link
    BY <1>0 DEF Account
  <2>. HIDE DEF a, u
  <2>. QED
    BY <1>0, <2>1, <2>2, PatchKeeps DEF b
<1>. QED
  BY <1>1, <1>2 DEF SaveDrawer, SuspendUser, ActivateUser, RemoveUser

\* An Admin gives a new temporary password, or removes an authenticator.
LEMMA CredentialStepsKeep ==
  ASSUME AccessInv, NEW d \in Devices, RegenerateTemporaryPassword(d) \/ ResetUserMfa(d)
  PROVE  AccessInv'
<1>. DEFINE u == row[d].user
<1>0. /\ u \in Users /\ acct[u] \in Account /\ FirstPasswordSound(acct[u])
      /\ CompletedSound(acct[u]) /\ acct[u].cred \in 1..MaxCred
      /\ reachable.creds \in 1..MaxCred /\ MaxCred \in Nat
      /\ row \in [Devices -> Row \cup {Nobody}]
      /\ chal \in [Users -> Challenge \cup {Nobody}]
      /\ token \in [Users -> 0..MaxEra \cup {Nobody}]
  <2>1. row[d] # Nobody
    BY DEF RegenerateTemporaryPassword, ResetUserMfa, Acting
  <2>2. u \in Users
    BY <2>1 DEF AccessInv, AccessTypeOK, Row
  <2>. QED
    BY <2>2, AccessAssumption
    DEF AccessInv, AccessTypeOK, NothingOutlived, CompletedSound, Account, AccessScope
<1>1. sess' = Revoke(u, {}) /\ UNCHANGED <<orgActive, era, issued, proof, row, reachable>>
  BY DEF RegenerateTemporaryPassword, ResetUserMfa, browser
<1>2. /\ sess' \in [Devices -> Session \cup {Nobody}]
      /\ \A e \in Devices : \/ sess'[e] = Nobody
                            \/ sess'[e] = sess[e] /\ sess[e].user # u
  <2>1. /\ Revoke(u, {}) \in [Devices -> Session \cup {Nobody}]
        /\ \A e \in Devices : \/ Revoke(u, {})[e] = Nobody
                              \/ Revoke(u, {})[e] = sess[e] /\ sess[e].user # u
    BY <1>0, RevokeOutcome
  <2>. QED
    BY <1>1, <2>1
<1>. DEFINE b == acct[u]
<1>3. CASE RegenerateTemporaryPassword(d)
  <2>. DEFINE n == b.cred + 1
              a == [b EXCEPT !.cred = n, !.last = n, !.link = Nobody]
  <2>1. /\ b.temp /\ b.cred < reachable.creds
        /\ acct' = [acct EXCEPT ![u].cred = @ + 1, ![u].last = b.cred + 1, ![u].link = Nobody]
        /\ chal' = [chal EXCEPT ![u] = Nobody] /\ token' = [token EXCEPT ![u] = Nobody]
    BY <1>3 DEF RegenerateTemporaryPassword
  <2>2. n \in 1..MaxCred /\ n \in 0..MaxCred
    BY <1>0, <2>1
  <2>3. acct' = [acct EXCEPT ![u] = a]
    BY <1>0, <2>1 DEF AccessInv, AccessTypeOK
  <2>. HIDE DEF b, n
  <2>4. /\ a \in Account /\ a.temp = b.temp /\ a.via = b.via /\ a.last = a.cred
        /\ a.role = b.role /\ a.status = b.status /\ a.link = Nobody
    BY <1>0, <2>2 DEF Account, b
  <2>. HIDE DEF a
  <2>5. FirstPasswordSound(a) /\ CompletedSound(a)
    BY <1>0, <2>1, <2>4 DEF FirstPasswordSound, CompletedSound, b
  <2>6. Effective(u) => a.role = "Admin" /\ a.status = "active" /\ ~a.temp
    BY <2>4 DEF Effective, b
  <2>7. /\ chal' \in [Users -> Challenge \cup {Nobody}]
        /\ \A v \in Users : chal'[v] = chal[v] \/ chal'[v] = Nobody
        /\ token' \in [Users -> 0..MaxEra \cup {Nobody}]
        /\ \A v \in Users : token'[v] = token[v] \/ token'[v] = Nobody
    BY <1>0, <2>1
  <2>. HIDE DEF u
  <2>. QED
    BY <1>0, <1>1, <1>2, <2>3, <2>4, <2>5, <2>6, <2>7, AccountKeeps
<1>4. CASE ResetUserMfa(d)
  <2>. DEFINE a == [b EXCEPT !.mfa = FALSE]
  <2>1. acct' = [acct EXCEPT ![u].mfa = FALSE] /\ UNCHANGED <<chal, token>>
    BY <1>4 DEF ResetUserMfa
  <2>2. acct' = [acct EXCEPT ![u] = a]
    BY <1>0, <2>1 DEF AccessInv, AccessTypeOK
  <2>. HIDE DEF b
  <2>3. /\ a \in Account /\ a.temp = b.temp /\ a.via = b.via /\ a.last = b.last
        /\ a.cred = b.cred /\ a.role = b.role /\ a.status = b.status /\ a.link = b.link
    BY <1>0 DEF Account, b
  <2>. HIDE DEF a
  <2>4. FirstPasswordSound(a) /\ CompletedSound(a)
    BY <1>0, <2>3 DEF FirstPasswordSound, CompletedSound, b
  <2>5. Effective(u) => a.role = "Admin" /\ a.status = "active" /\ ~a.temp
    <3>1. Effective(u) => b.role = "Admin" /\ b.status = "active" /\ ~b.temp
      BY DEF Effective, b
    <3>. QED
      BY <2>3, <3>1
  <2>6. /\ chal' \in [Users -> Challenge \cup {Nobody}]
        /\ \A v \in Users : chal'[v] = chal[v] \/ chal'[v] = Nobody
        /\ token' \in [Users -> 0..MaxEra \cup {Nobody}]
        /\ \A v \in Users : token'[v] = token[v] \/ token'[v] = Nobody
    BY <1>0, <2>1
  <2>. HIDE DEF u
  <2>. QED
    BY <1>0, <1>1, <1>2, <2>2, <2>3, <2>4, <2>5, <2>6, AccountKeeps DEF b
<1>. QED
  BY <1>3, <1>4

\* A verification link is sent or opened, and an operator removes an Admin's authenticator.
LEMMA AddressStepsKeep ==
  ASSUME AccessInv, NEW u \in Users,
         ResendVerification(u) \/ VerifyEmail(u) \/ OperatorResetMfa(u)
  PROVE  AccessInv'
<1>. DEFINE b == acct[u]
<1>0. /\ b \in Account /\ FirstPasswordSound(b) /\ CompletedSound(b)
      /\ row \in [Devices -> Row \cup {Nobody}] /\ sess \in [Devices -> Session \cup {Nobody}]
      /\ chal \in [Users -> Challenge \cup {Nobody}]
      /\ token \in [Users -> 0..MaxEra \cup {Nobody}] /\ era \in 0..MaxEra
  BY DEF AccessInv, AccessTypeOK, NothingOutlived, CompletedSound
<1>1. ASSUME NEW a \in Account, acct' = [acct EXCEPT ![u] = a], FirstPasswordSound(a),
             CompletedSound(a), a.role = b.role, a.cred = b.cred, a.mfa = b.mfa, a.temp = b.temp,
             a.status = b.status \/ a.status = "active",
             a.link = Nobody \/ (orgActive /\ a.link = era),
             UNCHANGED <<orgActive, era, sess, proof, chal, issued, token, row, reachable>>
      PROVE  AccessInv'
  <2>1. \A e \in Devices : \/ sess[e] = Nobody
                           \/ sess'[e] = sess[e] /\ sess[e].user # u
                           \/ MaySignIn(a) /\ sess[e] = SessionOf(u, a)
    <3>1. ASSUME NEW e \in Devices, sess[e] # Nobody, sess[e].user = u
          PROVE  MaySignIn(a) /\ sess[e] = SessionOf(u, a)
      <4>1. IsActive(u) /\ sess[e] = SessionFor(u)
        BY <3>1 DEF AccessInv, NothingOutlived
      <4>2. MaySignIn(a)
        BY <1>1, <4>1 DEF IsActive, MaySignIn
      <4>3. sess[e] = SessionOf(u, a)
        BY <1>1, <4>1 DEF SessionFor, SessionOf
      <4>. QED
        BY <4>2, <4>3
    <3>. QED
      BY <1>1, <3>1
  <2>2. Effective(u) => a.role = "Admin" /\ a.status = "active" /\ ~a.temp
    BY <1>1 DEF Effective
  <2>3. /\ sess' \in [Devices -> Session \cup {Nobody}]
        /\ \A e \in Devices : \/ sess'[e] = Nobody
                              \/ sess'[e] = sess[e] /\ sess[e].user # u
                              \/ MaySignIn(a) /\ sess'[e] = SessionOf(u, a)
    BY <1>0, <1>1, <2>1
  <2>4. /\ chal' \in [Users -> Challenge \cup {Nobody}] /\ \A v \in Users : chal'[v] = chal[v]
        /\ token' \in [Users -> 0..MaxEra \cup {Nobody}] /\ \A v \in Users : token'[v] = token[v]
        /\ row' \in [Devices -> Row \cup {Nobody}]
        /\ UNCHANGED <<orgActive, era, reachable, proof, issued>>
    BY <1>0, <1>1
  <2>. HIDE DEF b
  <2>. QED
    BY <1>1, <2>2, <2>3, <2>4, AccountKeeps
<1>2. CASE ResendVerification(u)
  <2>. DEFINE a == [b EXCEPT !.link = era]
  <2>1. /\ orgActive /\ acct' = [acct EXCEPT ![u] = a]
        /\ UNCHANGED <<orgActive, era, sess, proof, chal, issued, token, row, reachable>>
    BY <1>2 DEF ResendVerification, browser
  <2>. HIDE DEF b
  <2>2. /\ a \in Account /\ a.temp = b.temp /\ a.via = b.via /\ a.last = b.last /\ a.mfa = b.mfa
        /\ a.cred = b.cred /\ a.role = b.role /\ a.status = b.status /\ a.link = era
    BY <1>0 DEF Account
  <2>. HIDE DEF a
  <2>3. FirstPasswordSound(a) /\ CompletedSound(a)
    BY <1>0, <2>2 DEF FirstPasswordSound, CompletedSound
  <2>. QED
    BY <1>1, <2>1, <2>2, <2>3
<1>3. CASE VerifyEmail(u)
  <2>. DEFINE a == [b EXCEPT !.status = "active", !.proven = TRUE, !.link = Nobody]
  <2>1. acct' = [acct EXCEPT ![u].status = "active", ![u].proven = TRUE, ![u].link = Nobody]
    BY <1>3 DEF VerifyEmail
  <2>2. /\ acct' = [acct EXCEPT ![u] = a]
        /\ UNCHANGED <<orgActive, era, sess, proof, chal, issued, token, row, reachable>>
    BY <1>3, <2>1 DEF VerifyEmail, browser, AccessInv, AccessTypeOK
  <2>. HIDE DEF b
  <2>3. /\ a \in Account /\ a.temp = b.temp /\ a.via = b.via /\ a.last = b.last /\ a.mfa = b.mfa
        /\ a.cred = b.cred /\ a.role = b.role /\ a.status = "active" /\ a.link = Nobody
    BY <1>0 DEF Account
  <2>. HIDE DEF a
  <2>4. FirstPasswordSound(a) /\ CompletedSound(a)
    BY <1>0, <2>3 DEF FirstPasswordSound, CompletedSound
  <2>. QED
    BY <1>1, <2>2, <2>3, <2>4
<1>4. CASE OperatorResetMfa(u)
  <2>. DEFINE a == [b EXCEPT !.mfa = FALSE]
  <2>1. /\ acct' = [acct EXCEPT ![u] = a] /\ sess' = Revoke(u, {})
        /\ chal' = [chal EXCEPT ![u] = Nobody] \/ chal' = chal
        /\ UNCHANGED <<orgActive, era, issued, token, proof, row, reachable>>
    BY <1>4 DEF OperatorResetMfa, browser
  <2>. HIDE DEF b
  <2>2. /\ a \in Account /\ a.temp = b.temp /\ a.via = b.via /\ a.last = b.last
        /\ a.cred = b.cred /\ a.role = b.role /\ a.status = b.status /\ a.link = b.link
    BY <1>0 DEF Account
  <2>. HIDE DEF a
  <2>3. FirstPasswordSound(a) /\ CompletedSound(a)
    BY <1>0, <2>2 DEF FirstPasswordSound, CompletedSound
  <2>4. Effective(u) => a.role = "Admin" /\ a.status = "active" /\ ~a.temp
    BY <2>2 DEF Effective, b
  <2>5. /\ sess' \in [Devices -> Session \cup {Nobody}]
        /\ \A e \in Devices : sess'[e] = Nobody \/ (sess'[e] = sess[e] /\ sess[e].user # u)
    <3>1. /\ Revoke(u, {}) \in [Devices -> Session \cup {Nobody}]
          /\ \A e \in Devices : \/ Revoke(u, {})[e] = Nobody
                                \/ Revoke(u, {})[e] = sess[e] /\ sess[e].user # u
      BY RevokeOutcome
    <3>. QED
      BY <2>1, <3>1
  <2>6. /\ chal' \in [Users -> Challenge \cup {Nobody}]
        /\ \A v \in Users : chal'[v] = chal[v] \/ chal'[v] = Nobody
    BY <1>0, <2>1
  <2>. QED
    BY <1>0, <2>1, <2>2, <2>3, <2>4, <2>5, <2>6, AccountKeeps DEF b
<1>. QED
  BY <1>2, <1>3, <1>4

\* A suspension ends everything; a reactivation finds nothing left.
LEMMA OrganizationStepsKeep ==
  ASSUME AccessInv, SuspendOrganization \/ ReactivateOrganization
  PROVE  AccessInv'
<1>0. acct \in [Users -> Account]
  BY DEF AccessInv, AccessTypeOK
<1>2. CASE SuspendOrganization
  <2>0. /\ acct' \in [Users -> Account]
        /\ \A u \in Users : /\ acct'[u].link = Nobody /\ acct'[u].status = acct[u].status
                            /\ acct'[u].role = acct[u].role /\ acct'[u].temp = acct[u].temp
                            /\ acct'[u].via = acct[u].via /\ acct'[u].last = acct[u].last
                            /\ acct'[u].cred = acct[u].cred
    <3>1. acct' = [u \in Users |-> [acct[u] EXCEPT !.link = Nobody]]
      BY <1>2 DEF SuspendOrganization
    <3>2. ASSUME NEW u \in Users
          PROVE  /\ acct'[u] \in Account
                 /\ acct'[u].link = Nobody /\ acct'[u].status = acct[u].status
                 /\ acct'[u].role = acct[u].role /\ acct'[u].temp = acct[u].temp
                 /\ acct'[u].via = acct[u].via /\ acct'[u].last = acct[u].last
                 /\ acct'[u].cred = acct[u].cred
      <4>1. acct'[u] = [acct[u] EXCEPT !.link = Nobody] /\ acct[u] \in Account
        BY <1>0, <3>1
      <4>. QED
        BY <4>1 DEF Account
    <3>. QED
      BY <3>1, <3>2
  <2>1. /\ orgActive' = FALSE /\ era' = era + 1 /\ era < reachable.eras
        /\ \A d \in Devices : sess'[d] = Nobody
        /\ \A u \in Users : chal'[u] = Nobody /\ token'[u] = Nobody
        /\ sess' \in [Devices -> Session \cup {Nobody}]
        /\ chal' \in [Users -> Challenge \cup {Nobody}]
        /\ token' \in [Users -> 0..MaxEra \cup {Nobody}]
        /\ UNCHANGED <<issued, proof, row, reachable>>
    BY <1>2 DEF SuspendOrganization, EndedChallenges, browser
  <2>2. era' \in 0..MaxEra
    BY <2>1, AccessAssumption DEF AccessInv, AccessTypeOK, AccessScope
  <2>3. AccessTypeOK'
    BY <2>0, <2>1, <2>2 DEF AccessInv, AccessTypeOK
  <2>4. NothingOutlived'
    BY <2>0, <2>1 DEF AccessInv, NothingOutlived
  <2>5. \A u \in Users : FirstPasswordSound(acct[u])'
    BY <2>0 DEF AccessInv, FirstPasswordSound
  <2>6. AdminRemains'
    BY <2>0 DEF AccessInv, AdminRemains, Effective
  <2>. QED
    BY <2>3, <2>4, <2>5, <2>6 DEF AccessInv
<1>3. CASE ReactivateOrganization
  <2>1. /\ ~orgActive /\ orgActive' = TRUE
        /\ UNCHANGED <<era, acct, sess, chal, issued, token, proof, row, reachable>>
    BY <1>3 DEF ReactivateOrganization, browser
  <2>2. AccessTypeOK'
    BY <2>1 DEF AccessInv, AccessTypeOK
  <2>3. /\ \A d \in Devices : sess[d] = Nobody
        /\ \A u \in Users : chal[u] = Nobody /\ token[u] = Nobody /\ acct[u].link = Nobody
    BY <2>1 DEF AccessInv, NothingOutlived, IsActive
  <2>4. NothingOutlived'
    BY <2>1, <2>3 DEF AccessInv, NothingOutlived
  <2>5. AdminRemains' /\ \A u \in Users : FirstPasswordSound(acct[u])'
    BY <2>1 DEF AccessInv, AdminRemains, Effective, FirstPasswordSound
  <2>. QED
    BY <2>2, <2>4, <2>5 DEF AccessInv
<1>. QED
  BY <1>2, <1>3

\* The organization starts with one Admin.
LEMMA InitAccess == AccessInit => AccessInv
<1>. SUFFICES ASSUME AccessInit PROVE AccessInv
  OBVIOUS
<1>1. reachable \in AccessScope /\ reachable.pending \subseteq Users \ {Founder}
  BY AccessAssumption DEF AccessInit, AccessScope
<1>2. ASSUME NEW u \in Users
      PROVE  /\ acct[u] \in Account /\ acct[u].via = 0 /\ acct[u].status = "active"
             /\ acct[u].link = Nobody
             /\ acct[u].temp = (u \in reachable.pending)
             /\ acct[u].temp => acct[u].last = acct[u].cred
             /\ u = Founder => acct[u].role = "Admin"
  <2>. DEFINE role == IF u = Founder THEN "Admin" ELSE "Operations"
              last == IF u \in reachable.pending THEN 1 ELSE 0
              waits == u \in reachable.pending
              proven == u \notin reachable.pending
  <2>1. acct[u] = [status |-> "active", temp |-> waits, cred |-> 1,
                   mfa |-> FALSE, role |-> role, via |-> 0, last |-> last,
                   proven |-> proven, link |-> Nobody]
    BY DEF AccessInit
  <2>2. /\ role \in AccessRoles /\ last \in 0..MaxCred /\ 1 \in 1..MaxCred /\ 0 \in 0..MaxCred
        /\ waits => last = 1
        /\ u = Founder => role = "Admin"
    BY AccessAssumption DEF AccessRoles
  <2>3. waits \in BOOLEAN /\ proven \in BOOLEAN
    OBVIOUS
  <2>. HIDE DEF role, last, waits, proven
  <2>4. acct[u] \in Account
    BY <2>1, <2>2, <2>3 DEF Account
  <2>5. acct[u].temp = waits /\ acct[u].via = 0 /\ acct[u].status = "active" /\ acct[u].link = Nobody
    BY <2>1
  <2>6. /\ acct[u].temp => acct[u].last = acct[u].cred
        /\ u = Founder => acct[u].role = "Admin"
    BY <2>1, <2>2, <2>5
  <2>. QED
    BY <2>4, <2>5, <2>6 DEF waits
<1>3. acct \in [Users -> Account]
  BY <1>2 DEF AccessInit
<1>4. AccessTypeOK
  BY <1>1, <1>3, AccessAssumption DEF AccessInit, AccessTypeOK
<1>5. NothingOutlived
  BY <1>2 DEF AccessInit, NothingOutlived
<1>6. AdminRemains
  BY <1>1, <1>2, AccessAssumption DEF AdminRemains, Effective
<1>. QED
  BY <1>2, <1>4, <1>5, <1>6 DEF AccessInv, FirstPasswordSound

\* Every step keeps the invariant.
LEMMA NextAccess == AccessInv /\ [AccessNext]_accessVars => AccessInv'
<1>. SUFFICES ASSUME AccessInv, [AccessNext]_accessVars PROVE AccessInv'
  OBVIOUS
<1>0. reachable.devices \subseteq Devices
  BY DEF AccessInv, AccessTypeOK, AccessScope
<1>1. CASE UNCHANGED accessVars
  BY <1>1 DEF accessVars, AccessInv, AccessTypeOK, NothingOutlived, AdminRemains, Effective,
              IsActive, SessionFor, FirstPasswordSound
<1>2. ASSUME NEW d \in Devices,
             \/ FinishLogin(d) \/ ChangePassword(d) \/ ConfirmMfa(d) \/ DisableMfa(d)
             \/ SuspendUser(d) \/ ActivateUser(d) \/ RemoveUser(d)
             \/ RegenerateTemporaryPassword(d) \/ ResetUserMfa(d)
             \/ \E role \in AccessRoles : SaveDrawer(d, role)
      PROVE  AccessInv'
  <2>1. "Admin" \in AccessRoles
    BY DEF AccessRoles
  <2>. QED
    BY <1>2, <2>1, FinishKeeps, OwnStepsKeep, PatchStepsKeep, CredentialStepsKeep
<1>3. ASSUME NEW d \in Devices, NEW o \in Devices, SignOut(d) \/ SignOutEverywhere(d) \/ RevokeSession(d, o)
      PROVE  AccessInv'
  BY <1>3, SmallStepsKeep, AccessAssumption
<1>4. ASSUME NEW d \in Devices, SendPasswordReset(d) PROVE AccessInv'
  <2>1. row[d].user \in Users
    BY <1>4 DEF SendPasswordReset, Acting, AccessInv, AccessTypeOK, Row
  <2>2. IssueReset(row[d].user)
    BY <1>4 DEF SendPasswordReset
  <2>. QED
    BY <2>1, <2>2, LinkStepsKeep
<1>5. ASSUME NEW d \in Devices, NEW u \in Users,
             \/ ProvePassword(d, u) \/ VerifyMfa(d, u) \/ OpenRow(d, u)
             \/ \E c \in issued[u] : CompleteTemporaryPassword(d, u, c)
      PROVE  AccessInv'
  BY <1>5, ProveKeeps, VerifyKeeps, SmallStepsKeep, CompleteKeeps
<1>6. ASSUME NEW u \in Users,
             \/ ChallengeLapses(u) \/ ForgotPassword(u) \/ ResetPassword(u)
             \/ ResendVerification(u) \/ VerifyEmail(u) \/ OperatorResetMfa(u)
      PROVE  AccessInv'
  BY <1>6, LinkStepsKeep, ResetKeeps, AddressStepsKeep DEF ForgotPassword
<1>7. CASE AccessNext
  <2>1. CASE \E d \in reachable.devices :
                \/ FinishLogin(d) \/ ChangePassword(d) \/ ConfirmMfa(d) \/ DisableMfa(d)
                \/ SignOut(d) \/ SignOutEverywhere(d)
                \/ \E o \in reachable.devices : RevokeSession(d, o)
                \/ SuspendUser(d) \/ ActivateUser(d) \/ RemoveUser(d)
                \/ RegenerateTemporaryPassword(d) \/ SendPasswordReset(d) \/ ResetUserMfa(d)
                \/ \E role \in AccessRoles : SaveDrawer(d, role)
                \/ \E u \in Users :
                      \/ ProvePassword(d, u) \/ VerifyMfa(d, u) \/ OpenRow(d, u)
                      \/ \E c \in issued[u] : CompleteTemporaryPassword(d, u, c)
    BY <1>0, <1>2, <1>3, <1>4, <1>5, <2>1
  <2>. QED
    BY <1>6, <1>7, <2>1, OrganizationStepsKeep DEF AccessNext
<1>. QED
  BY <1>1, <1>7

\* Every variable of the accounts keeps its type.
THEOREM AccessTypeCorrect == AccessSpec => []AccessTypeOK
<1>1. AccessInv => AccessTypeOK
  BY DEF AccessInv
<1>. QED
  BY <1>1, InitAccess, NextAccess, PTL DEF AccessSpec

\* Nothing outlives the access it rests on: a session, challenge, reset link or temporary
\* password that was withdrawn is of no use, on whatever device and however many
\* suspensions, resets and changes of role lie between.
THEOREM NothingOutlivedAlways == AccessSpec => []NothingOutlived
<1>1. AccessInv => NothingOutlived
  BY DEF AccessInv
<1>. QED
  BY <1>1, InitAccess, NextAccess, PTL DEF AccessSpec

\* An organization keeps an Admin who can sign in, whatever its Admins do to each other
\* from stale rows.
THEOREM AdminRemainsAlways == AccessSpec => []AdminRemains
<1>1. AccessInv => AdminRemains
  BY DEF AccessInv
<1>. QED
  BY <1>1, InitAccess, NextAccess, PTL DEF AccessSpec

-----------------------------------------------------------------------------
(* Admission: the inductive invariant                                       *)

\* Accounts are numbered in the order they are made, and an address names one account at
\* most.
UsersSound ==
  /\ \E n \in 0..MaxAccounts : \A s \in Slots : users[s].state # "none" <=> s <= n
  /\ \A s \in Slots : users[s].state = "none" =>
       /\ users[s].email = NoEmail /\ users[s].moving = NoEmail
       /\ users[s].request = NoRequest /\ users[s].link = 0
  /\ \A s, t \in Slots : users[s].email # NoEmail /\ users[s].email = users[t].email => s = t

\* A pending invitation has a token of its own, which is withdrawn when its term ends.
TokensSound ==
  /\ retired \subseteq 1..lastToken
  /\ \A e \in Emails :
       /\ links[e] \subseteq 1..lastToken
       /\ Invited(e) => invs[e].token \in 1..lastToken
       /\ Invited(e) /\ ~invs[e].expired => invs[e].token \notin retired
       /\ \A f \in Emails : Invited(e) /\ Invited(f) /\ invs[e].token = invs[f].token => e = f

\* The link an account was made with is no other account's, was not withdrawn, and is not
\* the link of an invitation that is still pending.
LinksSound ==
  /\ \A s \in Slots : users[s].link \in 0..lastToken
  /\ \A s \in Slots : users[s].link # 0 =>
       /\ users[s].link \notin retired
       /\ \A t \in Slots : users[t].link = users[s].link => s = t
  /\ \A e \in Emails, s \in Slots : Invited(e) => invs[e].token # users[s].link

\* Join requests are numbered in the order they are filed, each for an address.
RequestsSound ==
  /\ \E n \in 0..MaxRequests : \A r \in Requests : reqs[r].status # "none" <=> r <= n
  /\ \A r \in Requests : reqs[r].status # "none" => reqs[r].email \in Emails

\* An approved request has made one account, any other none.
JoinSound(r) ==
  LET made == {s \in Slots : users[s].request = r} IN
  IF reqs[r].status = "approved"
  THEN \E s \in Slots : made = {s} /\ users[s].role = reqs[r].role
  ELSE made = {}

AdmissionInv ==
  /\ AdmissionTypeOK
  /\ UsersSound /\ TokensSound /\ LinksSound /\ RequestsSound
  /\ \A r \in Requests : JoinSound(r)

\* The invariant gives the property.
LEMMA AdmissionInvImplies == AdmissionInv => OneWayIn /\ DeadLinksGrantNothing
<1>. SUFFICES ASSUME AdmissionInv PROVE OneWayIn /\ DeadLinksGrantNothing
  OBVIOUS
<1>0. DeadLinksGrantNothing
  BY DEF AdmissionInv, LinksSound, DeadLinksGrantNothing
<1>1. \A s, t \in Slots : users[s].email # NoEmail /\ users[s].email = users[t].email => s = t
  BY DEF AdmissionInv, UsersSound
<1>2. ASSUME NEW r \in Requests
      PROVE  LET made == {s \in Slots : users[s].request = r} IN
             /\ Cardinality(made) = IF reqs[r].status = "approved" THEN 1 ELSE 0
             /\ \A s \in made : users[s].role = reqs[r].role
  <2>. DEFINE made == {s \in Slots : users[s].request = r}
  <2>1. JoinSound(r)
    BY DEF AdmissionInv
  <2>2. CASE reqs[r].status = "approved"
    <3>1. PICK s \in Slots : made = {s} /\ users[s].role = reqs[r].role
      BY <2>1, <2>2 DEF JoinSound
    <3>2. Cardinality({s}) = 1
      BY FS_Singleton
    <3>. QED
      BY <2>2, <3>1, <3>2
  <2>3. CASE reqs[r].status # "approved"
    <3>1. made = {}
      BY <2>1, <2>3 DEF JoinSound
    <3>2. Cardinality({}) = 0
      BY FS_EmptySet
    <3>. QED
      BY <2>3, <3>1, <3>2
  <2>. QED
    BY <2>2, <2>3
<1>. QED
  BY <1>0, <1>1, <1>2 DEF OneWayIn

\* Counting what is numbered from 1 to n.
LEMMA CountNumbered ==
  ASSUME NEW m \in Nat, NEW n \in 0..m, NEW S, S = {s \in 1..m : s <= n}
  PROVE  Cardinality(S) = n
<1>1. S = 1..n
  OBVIOUS
<1>2. Cardinality(1..n) = IF 1 > n THEN 0 ELSE n - 1 + 1
  <2>1. n \in Int /\ 1 \in Int
    OBVIOUS
  <2>. QED
    BY <2>1, FS_Interval
<1>3. (IF 1 > n THEN 0 ELSE n - 1 + 1) = n
  OBVIOUS
<1>. QED
  BY <1>1, <1>2, <1>3

\* The account a path makes.
NewUser(e, role, path, r, t) ==
  [state |-> "live", email |-> e, role |-> role, path |-> path, request |-> r, link |-> t,
   moving |-> NoEmail]

Made(e, role, path, r, t) ==
  \E k \in Slots :
    /\ users[k].state = "none"
    /\ users' = [users EXCEPT ![k] = NewUser(e, role, path, r, t)]
    /\ users' \in [Slots -> User]
    /\ \E n \in 0..MaxAccounts : \A s \in Slots : users'[s].state # "none" <=> s <= n

\* The new account takes the place after the last one.
LEMMA CreateOutcome ==
  ASSUME AdmissionInv, NEW e \in Emails, NEW role \in Roles \cup {NoRole},
         NEW path \in {"invitation", "temporary", "join"},
         NEW r \in Requests \cup {NoRequest}, NEW t \in 0..MaxTokens,
         CreateUser(e, role, path, r, t)
  PROVE  Made(e, role, path, r, t)
<1>. DEFINE S == {s \in Slots : users[s].state # "none"}
            made == Cardinality(S)
            u == NewUser(e, role, path, r, t)
<1>0. users \in [Slots -> User] /\ MaxAccounts \in Nat /\ intake.accounts \in 0..MaxAccounts
  BY AdmissionAssumption DEF AdmissionInv, AdmissionTypeOK, AdmissionScope
<1>1. PICK n \in 0..MaxAccounts : \A s \in Slots : users[s].state # "none" <=> s <= n
  BY DEF AdmissionInv, UsersSound
<1>2. made = n
  <2>1. S = {s \in 1..MaxAccounts : s <= n}
    BY <1>1 DEF Slots
  <2>. QED
    BY <1>0, <2>1, CountNumbered
<1>3. made < intake.accounts /\ users' = [users EXCEPT ![made + 1] = u]
  BY DEF CreateUser, NewUser
<1>. HIDE DEF made, S
<1>4. n + 1 \in Slots /\ n + 1 \in 0..MaxAccounts
  BY <1>0, <1>2, <1>3 DEF Slots
<1>5. users[n + 1].state = "none"
  BY <1>1, <1>4
<1>7. u \in User /\ u.state # "none"
  BY DEF User, NewUser
<1>8. users' \in [Slots -> User] /\ users'[n + 1] = u
      /\ \A s \in Slots \ {n + 1} : users'[s] = users[s]
  BY <1>0, <1>2, <1>3, <1>4, <1>7
<1>. HIDE DEF u
<1>9. \A s \in Slots : users'[s].state # "none" <=> s <= n + 1
  <2>. SUFFICES ASSUME NEW s \in Slots PROVE users'[s].state # "none" <=> s <= n + 1
    OBVIOUS
  <2>1. s \in Nat
    BY DEF Slots
  <2>2. CASE s = n + 1
    BY <1>7, <1>8, <2>2
  <2>3. CASE s # n + 1
    BY <1>1, <1>8, <2>1, <2>3
  <2>. QED
    BY <2>2, <2>3
<1>. QED
  BY <1>2, <1>3, <1>4, <1>5, <1>8, <1>9 DEF u, Made

-----------------------------------------------------------------------------
(* Admission: steps                                                         *)

\* Nothing of an account changes but the address it is about to move to.
SameAccounts ==
  /\ users' \in [Slots -> User]
  /\ \A s \in Slots : /\ users'[s].state = users[s].state /\ users'[s].email = users[s].email
                      /\ users'[s].role = users[s].role /\ users'[s].link = users[s].link
                      /\ users'[s].request = users[s].request
                      /\ users[s].state = "none" => users'[s].moving = NoEmail

LEMMA SameKeeps ==
  ASSUME AdmissionInv, SameAccounts, UNCHANGED reqs
  PROVE  UsersSound' /\ \A r \in Requests : JoinSound(r)'
<1>1. UsersSound'
  <2>1. \E n \in 0..MaxAccounts : \A s \in Slots : users'[s].state # "none" <=> s <= n
    BY DEF AdmissionInv, UsersSound, SameAccounts
  <2>2. \A s \in Slots : users'[s].state = "none" =>
          /\ users'[s].email = NoEmail /\ users'[s].moving = NoEmail
          /\ users'[s].request = NoRequest /\ users'[s].link = 0
    BY DEF AdmissionInv, UsersSound, SameAccounts
  <2>3. \A s, t \in Slots : users'[s].email # NoEmail /\ users'[s].email = users'[t].email => s = t
    BY DEF AdmissionInv, UsersSound, SameAccounts
  <2>. QED
    BY <2>1, <2>2, <2>3 DEF UsersSound
<1>2. ASSUME NEW r \in Requests PROVE JoinSound(r)'
  <2>0. JoinSound(r)
    BY DEF AdmissionInv
  <2>1. {s \in Slots : users'[s].request = r} = {s \in Slots : users[s].request = r}
    BY DEF SameAccounts
  <2>. QED
    BY <2>0, <2>1 DEF JoinSound, SameAccounts
<1>. QED
  BY <1>1, <1>2

LEMMA StillSame ==
  ASSUME AdmissionInv, UNCHANGED users
  PROVE  SameAccounts
  BY DEF SameAccounts, AdmissionInv, AdmissionTypeOK, UsersSound

\* Steps that touch no invitation or request.
LEMMA FormsKeep ==
  ASSUME AdmissionInv, SameAccounts, UNCHANGED <<invs, links, retired, lastToken, reqs, intake>>,
         orgOpen' \in BOOLEAN, signup' \in [id : 0..MaxLinks, live : BOOLEAN],
         form' \in [Admins -> Form], review' \in [Admins -> Requests \cup {NoRequest}]
  PROVE  AdmissionInv'
<1>1. AdmissionTypeOK'
  BY DEF AdmissionInv, AdmissionTypeOK, SameAccounts
<1>2. TokensSound' /\ RequestsSound'
  BY DEF AdmissionInv, TokensSound, RequestsSound, Invited
<1>3. LinksSound'
  BY DEF AdmissionInv, LinksSound, SameAccounts, Invited
<1>4. UsersSound' /\ \A r \in Requests : JoinSound(r)'
  BY SameKeeps
<1>. QED
  BY <1>1, <1>2, <1>3, <1>4 DEF AdmissionInv

\* Steps on invitations: a pending one keeps its link or has a new one, and what is
\* withdrawn was the link of a pending one.
LEMMA InvitationsKeep ==
  ASSUME AdmissionInv, SameAccounts, UNCHANGED <<reqs, signup, review, intake>>,
         orgOpen' \in BOOLEAN, form' \in [Admins -> Form],
         invs' \in [Emails -> Invitation], links' \in [Emails -> SUBSET (1..MaxTokens)],
         lastToken' \in 0..MaxTokens, lastToken' >= lastToken, TokensSound',
         \A e \in Emails : Invited(e)' => \/ Invited(e) /\ invs'[e].token = invs[e].token
                                         \/ invs'[e].token > lastToken,
         \A t \in retired' : t \in retired \/ \E f \in Emails : Invited(f) /\ t = invs[f].token
  PROVE  AdmissionInv'
<1>0. retired' \subseteq 0..MaxTokens
  BY AdmissionAssumption DEF TokensSound
<1>1. AdmissionTypeOK'
  BY <1>0 DEF AdmissionInv, AdmissionTypeOK, SameAccounts
<1>2. RequestsSound'
  BY DEF AdmissionInv, RequestsSound
<1>3. UsersSound' /\ \A r \in Requests : JoinSound(r)'
  BY SameKeeps
<1>4. LinksSound'
  <2>0. LinksSound /\ lastToken \in Nat /\ lastToken' \in Nat /\ MaxTokens \in Nat
    BY AdmissionAssumption DEF AdmissionInv, AdmissionTypeOK
  <2>1. ASSUME NEW s \in Slots PROVE users'[s].link = users[s].link
    BY DEF SameAccounts
  <2>2. ASSUME NEW s \in Slots PROVE users'[s].link \in 0..lastToken'
    BY <2>0, <2>1 DEF LinksSound
  <2>3. ASSUME NEW s \in Slots, users'[s].link # 0
        PROVE  /\ users'[s].link \notin retired'
               /\ \A t \in Slots : users'[t].link = users'[s].link => s = t
    BY <2>0, <2>1, <2>3 DEF LinksSound
  <2>4. ASSUME NEW e \in Emails, NEW s \in Slots, Invited(e)' PROVE invs'[e].token # users'[s].link
    <3>1. CASE Invited(e) /\ invs'[e].token = invs[e].token
      BY <2>0, <2>1, <3>1 DEF LinksSound
    <3>2. CASE invs'[e].token > lastToken
      <4>1. users[s].link \in 0..lastToken
        BY <2>0 DEF LinksSound
      <4>2. invs'[e].token \in Nat
        BY <2>0 DEF Invitation
      <4>. QED
        BY <2>0, <2>1, <3>2, <4>1, <4>2
    <3>. QED
      BY <2>4, <3>1, <3>2
  <2>. QED
    BY <2>2, <2>3, <2>4 DEF LinksSound
<1>. QED
  BY <1>1, <1>2, <1>3, <1>4 DEF AdmissionInv

\* Steps on requests that approve none.
LEMMA RequestsKeep ==
  ASSUME AdmissionInv, UNCHANGED <<orgOpen, users, invs, links, retired, lastToken, signup, form,
                                   intake>>,
         review' \in [Admins -> Requests \cup {NoRequest}],
         reqs' \in [Requests -> JoinRequest], RequestsSound',
         \A r, q \in Requests :
           /\ reqs'[r].email = reqs'[q].email
           /\ {reqs'[r].status, reqs'[q].status} \subseteq {"unverified", "pending"}
           => r = q,
         \A r \in Requests : \/ reqs'[r] = reqs[r]
                             \/ reqs[r].status # "approved" /\ reqs'[r].status # "approved"
  PROVE  AdmissionInv'
<1>1. AdmissionTypeOK'
  BY DEF AdmissionInv, AdmissionTypeOK
<1>2. UsersSound' /\ TokensSound' /\ LinksSound'
  BY DEF AdmissionInv, UsersSound, TokensSound, LinksSound, Invited
<1>3. \A r \in Requests : JoinSound(r)'
  BY DEF AdmissionInv, JoinSound
<1>. QED
  BY <1>1, <1>2, <1>3 DEF AdmissionInv

\* Steps that make an account, of an address that has none.
LEMMA CreateKeeps ==
  ASSUME AdmissionInv, UNCHANGED <<orgOpen, links, lastToken, signup, intake>>,
         NEW e \in Emails, NEW role \in Roles \cup {NoRole},
         NEW path \in {"invitation", "temporary", "join"},
         NEW r \in Requests \cup {NoRequest}, NEW t \in 0..lastToken,
         CreateUser(e, role, path, r, t), ~account_email_unavailable(e),
         form' \in [Admins -> Form], review' \in [Admins -> Requests \cup {NoRequest}],
         invs' \in [Emails -> Invitation], TokensSound',
         \A f \in Emails : Invited(f)' => /\ Invited(f) /\ invs'[f].token = invs[f].token
                                           /\ invs[f].token # t,
         \A t2 \in retired' : t2 \in retired \/ \E f \in Emails : Invited(f) /\ t2 = invs[f].token,
         t # 0 => t \notin retired' /\ \A s \in Slots : users[s].link # t,
         reqs' \in [Requests -> JoinRequest], RequestsSound',
         \A p, q \in Requests :
           /\ reqs'[p].email = reqs'[q].email
           /\ {reqs'[p].status, reqs'[q].status} \subseteq {"unverified", "pending"}
           => p = q,
         \A q \in Requests \ {r} : reqs'[q] = reqs[q],
         r \in Requests => /\ reqs[r].status # "approved"
                           /\ reqs'[r].status = "approved" /\ reqs'[r].role = role
  PROVE  AdmissionInv'
<1>. DEFINE u == NewUser(e, role, path, r, t)
<1>0. Made(e, role, path, r, t)
  <2>1. t \in 0..MaxTokens
    BY AdmissionAssumption DEF AdmissionInv, AdmissionTypeOK
  <2>. QED
    BY <2>1, CreateOutcome
<1>1. PICK k \in Slots :
        /\ users[k].state = "none" /\ users' = [users EXCEPT ![k] = u]
        /\ users' \in [Slots -> User]
        /\ \E n \in 0..MaxAccounts : \A s \in Slots : users'[s].state # "none" <=> s <= n
  BY <1>0 DEF Made
<1>2. users'[k] = u /\ \A s \in Slots \ {k} : users'[s] = users[s]
  BY <1>1 DEF AdmissionInv, AdmissionTypeOK
<1>3. /\ u.state = "live" /\ u.email = e /\ u.role = role /\ u.request = r /\ u.link = t
      /\ users[k].request = NoRequest
  BY <1>1 DEF NewUser, AdmissionInv, UsersSound
<1>. HIDE DEF u
<1>4. AdmissionTypeOK'
  <2>1. retired' \subseteq 0..MaxTokens
    BY AdmissionAssumption DEF TokensSound, AdmissionInv, AdmissionTypeOK
  <2>. QED
    BY <1>1, <2>1 DEF AdmissionInv, AdmissionTypeOK
<1>5. (\A s \in Slots : users[s].email # e) /\ e # NoEmail
  BY AdmissionAssumption DEF account_email_unavailable
<1>6. UsersSound'
  <2>0. UsersSound
    BY DEF AdmissionInv
  <2>1. ASSUME NEW s \in Slots, users'[s].state = "none"
        PROVE  /\ users'[s].email = NoEmail /\ users'[s].moving = NoEmail
               /\ users'[s].request = NoRequest /\ users'[s].link = 0
    BY <1>2, <1>3, <2>0, <2>1 DEF UsersSound
  <2>2. ASSUME NEW s \in Slots, NEW t2 \in Slots, users'[s].email # NoEmail,
               users'[s].email = users'[t2].email
        PROVE  s = t2
    BY <1>2, <1>3, <1>5, <2>0, <2>2 DEF UsersSound
  <2>. QED
    BY <1>1, <2>1, <2>2 DEF UsersSound
<1>7. LinksSound'
  <2>0. LinksSound /\ lastToken' = lastToken /\ lastToken \in Nat
    BY DEF AdmissionInv, AdmissionTypeOK
  <2>1. \A s \in Slots : users'[s].link = IF s = k THEN t ELSE users[s].link
    BY <1>2, <1>3
  <2>2. \A s \in Slots : users'[s].link \in 0..lastToken'
    BY <2>0, <2>1 DEF LinksSound
  <2>3. ASSUME NEW s \in Slots, users'[s].link # 0 PROVE users'[s].link \notin retired'
    <3>1. CASE s = k
      BY <2>1, <2>3, <3>1
    <3>2. CASE s # k
      <4>1. users[s].link # 0 /\ users'[s].link = users[s].link
        BY <2>1, <2>3, <3>2
      <4>. QED
        BY <2>0, <4>1 DEF LinksSound
    <3>. QED
      BY <3>1, <3>2
  <2>4. ASSUME NEW s \in Slots, NEW t2 \in Slots, users'[s].link # 0,
               users'[t2].link = users'[s].link
        PROVE  s = t2
    BY <2>0, <2>1, <2>4 DEF LinksSound
  <2>5. ASSUME NEW f \in Emails, NEW s \in Slots, Invited(f)' PROVE invs'[f].token # users'[s].link
    BY <2>0, <2>1, <2>5 DEF LinksSound
  <2>. QED
    BY <2>2, <2>3, <2>4, <2>5 DEF LinksSound
<1>8. ASSUME NEW q \in Requests PROVE JoinSound(q)'
  <2>0. JoinSound(q) /\ NoRequest \notin Requests
    BY AdmissionAssumption DEF AdmissionInv
  <2>. DEFINE M == {s \in Slots : users[s].request = q}
              N == {s \in Slots : users'[s].request = q}
  <2>1. CASE q = r
    <3>1. M = {}
      BY <2>0, <2>1 DEF JoinSound
    <3>2. N = {k}
      BY <1>2, <1>3, <2>1, <3>1
    <3>. QED
      BY <1>2, <1>3, <2>1, <3>2 DEF JoinSound
  <2>2. CASE q # r
    <3>1. reqs'[q] = reqs[q]
      BY <2>2
    <3>2. users[k].request # q /\ users'[k].request # q
      BY <1>1, <1>2, <1>3, <2>0, <2>2
    <3>3. N = M
      BY <1>2, <3>2
    <3>4. \A s \in M : users'[s] = users[s]
      BY <1>2, <3>2
    <3>5. CASE reqs[q].status = "approved"
      <4>1. PICK s \in Slots : M = {s} /\ users[s].role = reqs[q].role
        BY <2>0, <3>5 DEF JoinSound
      <4>2. N = {s} /\ users'[s].role = reqs'[q].role
        BY <3>1, <3>3, <3>4, <4>1
      <4>. QED
        BY <3>1, <3>5, <4>2 DEF JoinSound
    <3>6. CASE reqs[q].status # "approved"
      <4>1. N = {}
        BY <2>0, <3>3, <3>6 DEF JoinSound
      <4>. QED
        BY <3>1, <3>6, <4>1 DEF JoinSound
    <3>. QED
      BY <3>5, <3>6
  <2>. QED
    BY <2>1, <2>2
<1>. QED
  BY <1>4, <1>6, <1>7, <1>8 DEF AdmissionInv

\* A new token replaces the one of an address, which is withdrawn.
LEMMA NewTokenKeeps ==
  ASSUME AdmissionInv, UNCHANGED <<orgOpen, users, signup, reqs, review, intake>>,
         NEW e \in Emails, NEW inv \in Invitation, inv.status = "pending",
         inv.token = lastToken + 1, ~inv.expired, invs' = [invs EXCEPT ![e] = inv],
         lastToken < intake.tokens, lastToken' = lastToken + 1,
         retired' = retired \cup Withdraw(e),
         links' \in {links, [links EXCEPT ![e] = @ \cup {lastToken'}]},
         form' \in [Admins -> Form]
  PROVE  AdmissionInv'
<1>0. /\ invs \in [Emails -> Invitation] /\ links \in [Emails -> SUBSET (1..MaxTokens)]
      /\ lastToken \in Nat /\ lastToken + 1 \in 1..MaxTokens /\ MaxTokens \in Nat /\ TokensSound
      /\ orgOpen \in BOOLEAN /\ lastToken + 1 \in 0..MaxTokens
  BY AdmissionAssumption DEF AdmissionInv, AdmissionTypeOK, AdmissionScope
<1>1. /\ invs' \in [Emails -> Invitation] /\ invs'[e] = inv
      /\ \A f \in Emails \ {e} : invs'[f] = invs[f]
  BY <1>0
<1>2. /\ links' \in [Emails -> SUBSET (1..MaxTokens)]
      /\ \A f \in Emails \ {e} : links'[f] = links[f]
      /\ links'[e] \subseteq links[e] \cup {lastToken + 1}
  BY <1>0
<1>3. \A t \in retired' : t \in retired \/ (Invited(e) /\ t = invs[e].token)
  BY DEF Withdraw
<1>4. TokensSound'
  <2>1. retired' \subseteq 1..lastToken'
    <3>1. \A t \in retired' : t \in 1..lastToken
      BY <1>0, <1>3 DEF TokensSound
    <3>. QED
      BY <1>0, <3>1
  <2>2. ASSUME NEW f \in Emails PROVE links'[f] \subseteq 1..lastToken'
    <3>1. links'[f] \subseteq links[f] \cup {lastToken + 1} /\ links[f] \subseteq 1..lastToken
      BY <1>0, <1>2 DEF TokensSound
    <3>. QED
      BY <1>0, <3>1
  <2>3. ASSUME NEW f \in Emails, Invited(f)'
        PROVE  /\ invs'[f].token \in 1..lastToken'
               /\ f # e => Invited(f) /\ invs[f].token \in 1..lastToken
                           /\ invs'[f] = invs[f]
    <3>1. CASE f = e
      BY <1>0, <1>1, <3>1
    <3>2. CASE f # e
      <4>1. Invited(f) /\ invs'[f] = invs[f] /\ invs[f].token \in 1..lastToken
        BY <1>0, <1>1, <2>3, <3>2 DEF Invited, TokensSound
      <4>. QED
        BY <1>0, <4>1
    <3>. QED
      BY <3>1, <3>2
  <2>4. ASSUME NEW f \in Emails, Invited(f)', ~invs'[f].expired
        PROVE  invs'[f].token \notin retired'
    <3>1. CASE f = e
      <4>1. \A t \in retired' : t \in 1..lastToken
        BY <1>0, <1>3 DEF TokensSound
      <4>. QED
        BY <1>0, <1>1, <3>1, <4>1
    <3>2. CASE f # e
      BY <1>0, <1>3, <2>3, <2>4, <3>2 DEF TokensSound
    <3>. QED
      BY <3>1, <3>2
  <2>5. ASSUME NEW f \in Emails, NEW g \in Emails, Invited(f)', Invited(g)',
               invs'[f].token = invs'[g].token
        PROVE  f = g
    <3>1. CASE f # e /\ g # e
      BY <1>0, <2>3, <2>5, <3>1 DEF TokensSound
    <3>2. CASE f = e /\ g # e
      <4>1. invs'[f].token = lastToken + 1 /\ invs'[g].token \in 1..lastToken
        BY <1>1, <2>3, <2>5, <3>2
      <4>. QED
        BY <1>0, <2>5, <4>1
    <3>3. CASE f # e /\ g = e
      <4>1. invs'[g].token = lastToken + 1 /\ invs'[f].token \in 1..lastToken
        BY <1>1, <2>3, <2>5, <3>3
      <4>. QED
        BY <1>0, <2>5, <4>1
    <3>. QED
      BY <3>1, <3>2, <3>3
  <2>. QED
    BY <2>1, <2>2, <2>3, <2>4, <2>5 DEF TokensSound
<1>5. ASSUME NEW f \in Emails, Invited(f)'
      PROVE  \/ Invited(f) /\ invs'[f].token = invs[f].token
             \/ invs'[f].token > lastToken
  <2>1. CASE f # e
    BY <1>1, <1>5, <2>1 DEF Invited
  <2>2. CASE f = e
    BY <1>0, <1>1, <2>2
  <2>. QED
    BY <2>1, <2>2
<1>6. SameAccounts /\ lastToken' \in 0..MaxTokens /\ lastToken' >= lastToken
  BY <1>0, StillSame
<1>7. \A t \in retired' : t \in retired \/ \E f \in Emails : Invited(f) /\ t = invs[f].token
  BY <1>3
<1>. QED
  BY <1>0, <1>1, <1>2, <1>4, <1>5, <1>6, <1>7, InvitationsKeep

\* Invitations end or lapse, and their tokens are withdrawn.
LEMMA WithdrawnTokens ==
  ASSUME AdmissionInv, UNCHANGED <<links, lastToken>>, NEW E \in SUBSET Emails,
         \A f \in E : Invited(f)' => /\ Invited(f) /\ invs'[f].token = invs[f].token
                                     /\ invs'[f].expired,
         \A f \in Emails \ E : invs'[f] = invs[f],
         \A t \in retired' : t \in retired \/ \E f \in E : Invited(f) /\ t = invs[f].token
  PROVE  /\ TokensSound'
         /\ \A f \in Emails : Invited(f)' => Invited(f) /\ invs'[f].token = invs[f].token
<1>0. TokensSound
  BY DEF AdmissionInv
<1>1. ASSUME NEW f \in Emails, Invited(f)'
      PROVE  /\ Invited(f) /\ invs'[f].token = invs[f].token
             /\ invs'[f].expired \/ (f \notin E /\ invs'[f] = invs[f])
  BY <1>1 DEF Invited
<1>2. retired' \subseteq 1..lastToken
  <2>1. retired \subseteq 1..lastToken /\ \A f \in E : Invited(f) => invs[f].token \in 1..lastToken
    BY <1>0 DEF TokensSound
  <2>. QED
    BY <2>1
<1>3. ASSUME NEW f \in Emails, Invited(f)', ~invs'[f].expired PROVE invs'[f].token \notin retired'
  <2>1. f \notin E /\ invs'[f] = invs[f] /\ Invited(f) /\ invs[f].token \notin retired
    BY <1>0, <1>1, <1>3 DEF TokensSound
  <2>2. \A g \in E : Invited(g) => invs[g].token # invs[f].token
    BY <1>0, <2>1 DEF TokensSound
  <2>. QED
    BY <2>1, <2>2
<1>4. TokensSound'
  <2>1. ASSUME NEW f \in Emails, Invited(f)' PROVE invs'[f].token \in 1..lastToken
    BY <1>0, <1>1, <2>1 DEF TokensSound
  <2>2. ASSUME NEW f \in Emails, NEW g \in Emails, Invited(f)', Invited(g)',
               invs'[f].token = invs'[g].token
        PROVE  f = g
    BY <1>0, <1>1, <2>2 DEF TokensSound
  <2>3. \A f \in Emails : links'[f] \subseteq 1..lastToken
    BY <1>0 DEF TokensSound
  <2>. QED
    BY <1>2, <1>3, <2>1, <2>2, <2>3 DEF TokensSound
<1>. QED
  BY <1>1, <1>4

\* The drawer, the review and the sign-up link change nothing else.
LEMMA FormStepsKeep ==
  ASSUME AdmissionInv,
         \/ \E a \in Admins, e \in intake.emails : TypeEmail(a, e)
         \/ \E a \in Admins : TickReplace(a)
         \/ \E a \in Admins, role \in intake.roles, decision \in {"approved", "rejected"} :
               RepeatReview(a, decision, role)
         \/ \E s \in Slots, e \in intake.emails : RequestEmailChange(s, e)
         \/ \E a \in Admins, r \in Requests : OpenReview(a, r)
         \/ CreateLink \/ LinkEnds \/ OrganizationReturns
  PROVE  AdmissionInv'
<1>0. /\ form \in [Admins -> Form] /\ review \in [Admins -> Requests \cup {NoRequest}]
      /\ signup \in [id : 0..MaxLinks, live : BOOLEAN] /\ orgOpen \in BOOLEAN
      /\ intake.emails \subseteq Emails /\ users \in [Slots -> User]
  BY DEF AdmissionInv, AdmissionTypeOK, AdmissionScope
<1>1. ASSUME NEW a \in Admins, NEW e \in intake.emails, TypeEmail(a, e) PROVE AdmissionInv'
  <2>1. [Blank EXCEPT !.email = e] \in Form
    BY <1>0 DEF Blank, Form
  <2>2. form' \in [Admins -> Form]
    BY <1>0, <1>1, <2>1 DEF TypeEmail
  <2>. QED
    BY <1>0, <1>1, <2>2, FormsKeep, StillSame DEF TypeEmail, server
<1>2. ASSUME NEW a \in Admins, TickReplace(a) PROVE AdmissionInv'
  <2>1. form' \in [Admins -> Form]
    BY <1>0, <1>2 DEF TickReplace, Form
  <2>. QED
    BY <1>0, <1>2, <2>1, FormsKeep, StillSame DEF TickReplace, server
<1>3. ASSUME NEW a \in Admins, NEW role \in intake.roles,
             NEW decision \in {"approved", "rejected"}, RepeatReview(a, decision, role)
      PROVE  AdmissionInv'
  <2>1. review' \in [Admins -> Requests \cup {NoRequest}]
    BY <1>0, <1>3 DEF RepeatReview
  <2>. QED
    BY <1>0, <1>3, <2>1, FormsKeep, StillSame DEF RepeatReview, server
<1>4. ASSUME NEW a \in Admins, NEW r \in Requests, OpenReview(a, r) PROVE AdmissionInv'
  <2>1. review' \in [Admins -> Requests \cup {NoRequest}]
    BY <1>0, <1>4 DEF OpenReview
  <2>. QED
    BY <1>0, <1>4, <2>1, FormsKeep, StillSame DEF OpenReview, server
<1>5. CASE CreateLink
  <2>1. signup.id + 1 \in 0..MaxLinks
    BY <1>0, <1>5, AdmissionAssumption
    DEF CreateLink, AdmissionInv, AdmissionTypeOK, AdmissionScope
  <2>2. signup' \in [id : 0..MaxLinks, live : BOOLEAN]
    BY <1>5, <2>1 DEF CreateLink
  <2>. QED
    BY <1>0, <1>5, <2>2, FormsKeep, StillSame DEF CreateLink
<1>6. CASE LinkEnds
  <2>1. signup' \in [id : 0..MaxLinks, live : BOOLEAN]
    BY <1>0, <1>6 DEF LinkEnds
  <2>. QED
    BY <1>0, <1>6, <2>1, FormsKeep, StillSame DEF LinkEnds
<1>7. CASE OrganizationReturns
  BY <1>0, <1>7, FormsKeep, StillSame DEF OrganizationReturns
<1>8. ASSUME NEW k \in Slots, NEW e \in intake.emails, RequestEmailChange(k, e) PROVE AdmissionInv'
  <2>1. /\ users[k].state = "live" /\ users' = [users EXCEPT ![k].moving = e] /\ e \in Emails
        /\ UNCHANGED <<orgOpen, invs, links, retired, lastToken, signup, reqs, form, review, intake>>
    BY <1>0, <1>8 DEF RequestEmailChange
  <2>2. [users[k] EXCEPT !.moving = e] \in User
    BY <1>0, <2>1 DEF User
  <2>3. users' \in [Slots -> User]
    BY <1>0, <2>1, <2>2
  <2>4. ASSUME NEW s \in Slots
        PROVE  /\ users'[s].state = users[s].state /\ users'[s].email = users[s].email
               /\ users'[s].role = users[s].role /\ users'[s].link = users[s].link
               /\ users'[s].request = users[s].request
               /\ users[s].state = "none" => users'[s].moving = NoEmail
    <3>1. users[s] \in User /\ (users[s].state = "none" => users[s].moving = NoEmail)
      BY <1>0 DEF AdmissionInv, UsersSound
    <3>2. users'[s] = IF s = k THEN [users[k] EXCEPT !.moving = e] ELSE users[s]
      BY <1>0, <2>1
    <3>. QED
      BY <2>1, <3>1, <3>2 DEF User
  <2>. QED
    BY <1>0, <2>1, <2>3, <2>4, FormsKeep DEF SameAccounts
<1>. QED
  BY <1>1, <1>2, <1>3, <1>4, <1>5, <1>6, <1>7, <1>8

\* Invitations are made and renewed.
LEMMA InviteStepsKeep ==
  ASSUME AdmissionInv,
         \/ \E a \in Admins, role \in intake.roles : InviteUser(a, role)
         \/ \E e \in Emails : ResendInvitation(e) \/ OperatorResend(e)
  PROVE  AdmissionInv'
<1>0. /\ form \in [Admins -> Form] /\ invs \in [Emails -> Invitation]
      /\ intake.roles \subseteq Roles /\ Blank \in Form
      /\ lastToken < intake.tokens => lastToken + 1 \in 0..MaxTokens
  BY AdmissionAssumption DEF AdmissionInv, AdmissionTypeOK, AdmissionScope, Blank, Form
<1>1. ASSUME NEW a \in Admins, NEW role \in intake.roles, InviteUser(a, role)
      PROVE  AdmissionInv'
  <2>. DEFINE e == form[a].email
              inv == [status |-> "pending", role |-> role, token |-> lastToken + 1,
                      expired |-> FALSE]
  <2>1. e \in Emails /\ lastToken < intake.tokens
    BY <1>0, <1>1 DEF InviteUser, Form
  <2>2. inv \in Invitation /\ inv.status = "pending" /\ inv.token = lastToken + 1 /\ ~inv.expired
    BY <1>0, <2>1 DEF Invitation
  <2>3. /\ invs' = [invs EXCEPT ![e] = inv] /\ lastToken' = lastToken + 1
        /\ retired' = retired \cup Withdraw(e)
        /\ links' \in {links, [links EXCEPT ![e] = @ \cup {lastToken'}]}
        /\ form' = [form EXCEPT ![a] = Blank]
        /\ UNCHANGED <<orgOpen, users, signup, reqs, review, intake>>
    BY <1>1 DEF InviteUser
  <2>4. form' \in [Admins -> Form]
    BY <1>0, <2>3
  <2>. HIDE DEF inv, e
  <2>. QED
    BY <2>1, <2>2, <2>3, <2>4, NewTokenKeeps
<1>2. ASSUME NEW e \in Emails, ResendInvitation(e) \/ OperatorResend(e) PROVE AdmissionInv'
  <2>. DEFINE inv == [[invs[e] EXCEPT !.token = lastToken + 1] EXCEPT !.expired = FALSE]
  <2>1. /\ Invited(e) /\ lastToken < intake.tokens /\ lastToken' = lastToken + 1
        /\ retired' = retired \cup {invs[e].token}
        /\ invs' = [invs EXCEPT ![e].token = lastToken', ![e].expired = FALSE]
        /\ links' \in {links, [links EXCEPT ![e] = @ \cup {lastToken'}]}
        /\ UNCHANGED <<orgOpen, users, signup, reqs, form, review, intake>>
    BY <1>2 DEF ResendInvitation, OperatorResend
  <2>2. retired' = retired \cup Withdraw(e)
    BY <2>1 DEF Withdraw
  <2>3. invs' = [invs EXCEPT ![e] = inv]
    BY <1>0, <2>1
  <2>4. inv \in Invitation /\ inv.status = "pending" /\ inv.token = lastToken + 1 /\ ~inv.expired
    BY <1>0, <2>1 DEF Invitation, Invited
  <2>. HIDE DEF inv
  <2>. QED
    BY <1>0, <2>1, <2>2, <2>3, <2>4, NewTokenKeeps
<1>. QED
  BY <1>1, <1>2

\* Invitations are revoked, lapse, and end with a suspension.
LEMMA WithdrawStepsKeep ==
  ASSUME AdmissionInv,
         \/ \E e \in Emails : RevokeInvitation(e) \/ InvitationLapses(e)
         \/ SuspensionWithdraws
  PROVE  AdmissionInv'
<1>0. /\ invs \in [Emails -> Invitation] /\ links \in [Emails -> SUBSET (1..MaxTokens)]
      /\ lastToken \in 0..MaxTokens /\ form \in [Admins -> Form] /\ orgOpen \in BOOLEAN
  BY DEF AdmissionInv, AdmissionTypeOK
<1>1. ASSUME NEW e \in Emails, RevokeInvitation(e) PROVE AdmissionInv'
  <2>1. /\ Invited(e) /\ retired' = retired \cup {invs[e].token}
        /\ UNCHANGED <<orgOpen, users, links, lastToken, signup, reqs, form, review, intake>>
    BY <1>1 DEF RevokeInvitation
  <2>2. /\ invs' \in [Emails -> Invitation] /\ invs'[e].status = "revoked"
        /\ \A f \in Emails \ {e} : invs'[f] = invs[f]
    BY <1>0, <1>1 DEF RevokeInvitation, Invitation
  <2>3. \A f \in {e} : ~Invited(f)'
    BY <2>2 DEF Invited
  <2>4. \A t \in retired' : t \in retired \/ \E f \in {e} : Invited(f) /\ t = invs[f].token
    BY <2>1
  <2>5. /\ TokensSound'
        /\ \A f \in Emails : Invited(f)' => Invited(f) /\ invs'[f].token = invs[f].token
    BY <2>1, <2>2, <2>3, <2>4, WithdrawnTokens
  <2>6. SameAccounts /\ lastToken' >= lastToken
    BY <1>0, <2>1, StillSame
  <2>. QED
    BY <1>0, <2>1, <2>2, <2>4, <2>5, <2>6, InvitationsKeep
<1>2. ASSUME NEW e \in Emails, InvitationLapses(e) PROVE AdmissionInv'
  <2>1. /\ Invited(e) /\ retired' = retired \cup {invs[e].token}
        /\ UNCHANGED <<orgOpen, users, links, lastToken, signup, reqs, form, review, intake>>
    BY <1>2 DEF InvitationLapses
  <2>2. /\ invs' \in [Emails -> Invitation] /\ invs'[e].expired
        /\ invs'[e].token = invs[e].token
        /\ \A f \in Emails \ {e} : invs'[f] = invs[f]
    BY <1>0, <1>2 DEF InvitationLapses, Invitation
  <2>3. \A f \in {e} : Invited(f)' => /\ Invited(f) /\ invs'[f].token = invs[f].token
                                      /\ invs'[f].expired
    BY <2>1, <2>2
  <2>4. \A t \in retired' : t \in retired \/ \E f \in {e} : Invited(f) /\ t = invs[f].token
    BY <2>1
  <2>5. /\ TokensSound'
        /\ \A f \in Emails : Invited(f)' => Invited(f) /\ invs'[f].token = invs[f].token
    BY <2>1, <2>2, <2>3, <2>4, WithdrawnTokens
  <2>6. SameAccounts /\ lastToken' >= lastToken
    BY <1>0, <2>1, StillSame
  <2>. QED
    BY <1>0, <2>1, <2>2, <2>4, <2>5, <2>6, InvitationsKeep
<1>3. CASE SuspensionWithdraws
  <2>1. /\ orgOpen' = FALSE /\ retired' = retired \cup UNION {Withdraw(e) : e \in Emails}
        /\ invs' = [e \in Emails |-> IF Invited(e)
                      THEN [invs[e] EXCEPT !.status = "revoked"] ELSE invs[e]]
        /\ users' = [s \in Slots |-> [users[s] EXCEPT !.moving = NoEmail]]
        /\ UNCHANGED <<links, lastToken, signup, reqs, form, review, intake>>
    BY <1>3 DEF SuspensionWithdraws
  <2>2. /\ invs' \in [Emails -> Invitation]
        /\ \A f \in Emails : ~Invited(f)'
    <3>1. ASSUME NEW f \in Emails
          PROVE  invs'[f] \in Invitation /\ invs'[f].status # "pending"
      <4>1. CASE Invited(f)
        <5>1. invs'[f] = [invs[f] EXCEPT !.status = "revoked"]
          BY <2>1, <4>1
        <5>. QED
          BY <1>0, <5>1 DEF Invitation
      <4>2. CASE ~Invited(f)
        BY <1>0, <2>1, <4>2 DEF Invited
      <4>. QED
        BY <4>1, <4>2
    <3>. QED
      BY <2>1, <3>1 DEF Invited
  <2>3. \A t \in retired' : t \in retired \/ \E f \in Emails : Invited(f) /\ t = invs[f].token
    BY <2>1 DEF Withdraw
  <2>4. /\ TokensSound'
        /\ \A f \in Emails : Invited(f)' => Invited(f) /\ invs'[f].token = invs[f].token
    BY <2>1, <2>2, <2>3, WithdrawnTokens
  <2>5. SameAccounts
    <3>0. users \in [Slots -> User]
      BY DEF AdmissionInv, AdmissionTypeOK
    <3>1. ASSUME NEW s \in Slots
          PROVE  /\ users'[s] \in User
                 /\ users'[s].state = users[s].state /\ users'[s].email = users[s].email
                 /\ users'[s].role = users[s].role /\ users'[s].link = users[s].link
                 /\ users'[s].request = users[s].request /\ users'[s].moving = NoEmail
      <4>1. users'[s] = [users[s] EXCEPT !.moving = NoEmail] /\ users[s] \in User
        BY <2>1, <3>0
      <4>. QED
        BY <4>1 DEF User
    <3>2. users' \in [Slots -> User]
      BY <2>1, <3>1
    <3>. QED
      BY <3>1, <3>2 DEF SameAccounts
  <2>6. lastToken' >= lastToken /\ orgOpen' \in BOOLEAN
    <3>1. lastToken \in Nat /\ lastToken' = lastToken
      BY <1>0, <2>1, AdmissionAssumption
    <3>2. orgOpen' \in BOOLEAN
      BY <2>1
    <3>3. lastToken' >= lastToken
      BY <3>1
    <3>. QED
      BY <3>2, <3>3
  <2>. QED
    BY <1>0, <2>1, <2>2, <2>3, <2>4, <2>5, <2>6, InvitationsKeep
<1>. QED
  BY <1>1, <1>2, <1>3

\* A request is verified, late or rejected: one row changes, and not its address.
LEMMA OneRequestKeeps ==
  ASSUME AdmissionInv, UNCHANGED <<orgOpen, users, invs, links, retired, lastToken, signup, form,
                                   intake>>,
         review' \in [Admins -> Requests \cup {NoRequest}],
         NEW r \in Requests, NEW q \in JoinRequest, reqs' = [reqs EXCEPT ![r] = q],
         reqs[r].status \in {"unverified", "pending"}, q.status \notin {"none", "approved"},
         q.email = reqs[r].email
  PROVE  AdmissionInv'
<1>0. reqs \in [Requests -> JoinRequest]
  BY DEF AdmissionInv, AdmissionTypeOK
<1>1. /\ reqs' \in [Requests -> JoinRequest] /\ reqs'[r] = q
      /\ \A p \in Requests \ {r} : reqs'[p] = reqs[p]
  BY <1>0
<1>2. RequestsSound'
  <2>1. \A p \in Requests : /\ reqs'[p].status # "none" <=> reqs[p].status # "none"
                            /\ reqs'[p].email = reqs[p].email
    BY <1>1
  <2>. QED
    BY <2>1 DEF AdmissionInv, RequestsSound
<1>3. ASSUME NEW p1 \in Requests, NEW p2 \in Requests, reqs'[p1].email = reqs'[p2].email,
             {reqs'[p1].status, reqs'[p2].status} \subseteq {"unverified", "pending"}
      PROVE  p1 = p2
  <2>1. \A p \in {p1, p2} : /\ reqs'[p].email = reqs[p].email
                            /\ reqs[p].status \in {"unverified", "pending"}
    BY <1>1, <1>3
  <2>2. /\ reqs[p1].email = reqs[p2].email
        /\ {reqs[p1].status, reqs[p2].status} \subseteq {"unverified", "pending"}
    BY <1>3, <2>1
  <2>. QED
    BY <2>2 DEF AdmissionInv, AdmissionTypeOK
<1>4. \A p \in Requests : \/ reqs'[p] = reqs[p]
                          \/ reqs[p].status # "approved" /\ reqs'[p].status # "approved"
  BY <1>1
<1>. QED
  BY <1>1, <1>2, <1>3, <1>4, RequestsKeep

\* Requests are verified, late and rejected.
LEMMA RequestStepsKeep ==
  ASSUME AdmissionInv,
         \/ \E r \in Requests : VerificationLapses(r) \/ VerifyJoin(r)
         \/ \E a \in Admins : RejectJoin(a)
  PROVE  AdmissionInv'
<1>0. /\ reqs \in [Requests -> JoinRequest]
      /\ review \in [Admins -> Requests \cup {NoRequest}]
  BY DEF AdmissionInv, AdmissionTypeOK
<1>1. ASSUME NEW r \in Requests, VerificationLapses(r) PROVE AdmissionInv'
  <2>. DEFINE q == [reqs[r] EXCEPT !.late = TRUE]
  <2>1. reqs' = [reqs EXCEPT ![r] = q] /\ reqs[r].status = "unverified"
    BY <1>0, <1>1 DEF VerificationLapses
  <2>2. q \in JoinRequest /\ q.status = reqs[r].status /\ q.email = reqs[r].email
    BY <1>0 DEF JoinRequest
  <2>. HIDE DEF q
  <2>. QED
    BY <1>0, <1>1, <2>1, <2>2, OneRequestKeeps DEF VerificationLapses
<1>2. ASSUME NEW r \in Requests, VerifyJoin(r) PROVE AdmissionInv'
  <2>. DEFINE q == [reqs[r] EXCEPT !.status = "pending"]
  <2>1. reqs' = [reqs EXCEPT ![r] = q] /\ reqs[r].status = "unverified"
    BY <1>0, <1>2 DEF VerifyJoin
  <2>2. q \in JoinRequest /\ q.status = "pending" /\ q.email = reqs[r].email
    BY <1>0 DEF JoinRequest
  <2>. HIDE DEF q
  <2>. QED
    BY <1>0, <1>2, <2>1, <2>2, OneRequestKeeps DEF VerifyJoin
<1>3. ASSUME NEW a \in Admins, RejectJoin(a) PROVE AdmissionInv'
  <2>. DEFINE r == review[a]
              q == [reqs[r] EXCEPT !.status = "rejected"]
  <2>1. /\ r \in Requests /\ reqs' = [reqs EXCEPT ![r] = q] /\ reqs[r].status = "pending"
        /\ UNCHANGED <<orgOpen, users, invs, links, retired, lastToken, signup, form, intake>>
    BY <1>0, <1>3 DEF RejectJoin, Reviewable
  <2>2. review' \in [Admins -> Requests \cup {NoRequest}]
    BY <1>0, <1>3 DEF RejectJoin, CloseOrKeep
  <2>3. q \in JoinRequest /\ q.status = "rejected" /\ q.email = reqs[r].email
    BY <1>0, <2>1 DEF JoinRequest
  <2>. HIDE DEF q, r
  <2>. QED
    BY <2>1, <2>2, <2>3, OneRequestKeeps
<1>. QED
  BY <1>1, <1>2, <1>3

\* A request is filed, after those whose time or link has ended were swept.
LEMMA SubmitKeeps ==
  ASSUME AdmissionInv, NEW e \in Emails, SubmitJoin(e)
  PROVE  AdmissionInv'
<1>. DEFINE Stale(r) == /\ reqs[r].email = e /\ reqs[r].status = "unverified"
                        /\ reqs[r].late \/ ~LinkActive(reqs[r].link)
            F == {r \in Requests : reqs[r].status # "none"}
            filed == Cardinality(F)
            swept == [r \in Requests |->
                        IF Stale(r) THEN [reqs[r] EXCEPT !.status = "expired"] ELSE reqs[r]]
            fresh == [status |-> "unverified", email |-> e, link |-> signup.id,
                      late |-> FALSE, role |-> NoRole]
<1>0. /\ reqs \in [Requests -> JoinRequest] /\ signup.id \in 0..MaxLinks
      /\ review \in [Admins -> Requests \cup {NoRequest}]
      /\ MaxRequests \in Nat /\ intake.requests \in 0..MaxRequests
  BY AdmissionAssumption DEF AdmissionInv, AdmissionTypeOK, AdmissionScope
<1>1. /\ UNCHANGED <<orgOpen, users, invs, links, retired, lastToken, signup, form, review, intake>>
      /\ \/ reqs' = swept
         \/ /\ OpenRequests(swept, e) = {} /\ filed < intake.requests
            /\ reqs' = [swept EXCEPT ![filed + 1] = fresh]
  BY DEF SubmitJoin
<1>2. ASSUME NEW r \in Requests
      PROVE  /\ swept[r] \in JoinRequest /\ swept[r].email = reqs[r].email
             /\ swept[r].status # "none" <=> reqs[r].status # "none"
             /\ \/ swept[r] = reqs[r]
                \/ reqs[r].status = "unverified" /\ swept[r].status = "expired"
  <2>1. reqs[r] \in JoinRequest
    BY <1>0
  <2>2. CASE Stale(r)
    <3>1. swept[r] = [reqs[r] EXCEPT !.status = "expired"] /\ reqs[r].status = "unverified"
      BY <2>2
    <3>. HIDE DEF swept, Stale
    <3>. QED
      BY <2>1, <3>1 DEF JoinRequest
  <2>3. CASE ~Stale(r)
    <3>1. swept[r] = reqs[r]
      BY <2>3
    <3>. HIDE DEF swept, Stale
    <3>. QED
      BY <2>1, <3>1
  <2>. HIDE DEF Stale
  <2>. QED
    BY <2>2, <2>3
<1>3. swept \in [Requests -> JoinRequest]
  <2>1. \A r \in Requests : swept[r] \in JoinRequest
    BY <1>2
  <2>2. DOMAIN swept = Requests /\ swept = [r \in Requests |-> swept[r]]
    OBVIOUS
  <2>. HIDE DEF swept
  <2>. QED
    BY <2>1, <2>2
<1>4. PICK n \in 0..MaxRequests : \A r \in Requests : reqs[r].status # "none" <=> r <= n
  BY DEF AdmissionInv, RequestsSound
<1>5. filed = n
  <2>1. F = {r \in 1..MaxRequests : r <= n}
    BY <1>4 DEF Requests
  <2>. QED
    BY <1>0, <2>1, CountNumbered
<1>. HIDE DEF swept, filed, F, Stale
<1>6. \A r, q \in Requests :
        /\ swept[r].email = swept[q].email
        /\ {swept[r].status, swept[q].status} \subseteq {"unverified", "pending"}
        => r = q
  <2>. SUFFICES ASSUME NEW r \in Requests, NEW q \in Requests, swept[r].email = swept[q].email,
                       {swept[r].status, swept[q].status} \subseteq {"unverified", "pending"}
                PROVE  r = q
    OBVIOUS
  <2>1. /\ reqs[r].email = reqs[q].email
        /\ {reqs[r].status, reqs[q].status} \subseteq {"unverified", "pending"}
    BY <1>2
  <2>. QED
    BY <2>1 DEF AdmissionInv, AdmissionTypeOK
<1>7. \A r \in Requests : swept[r].status # "none" => swept[r].email \in Emails
  BY <1>2 DEF AdmissionInv, RequestsSound
<1>8. CASE reqs' = swept
  <2>1. RequestsSound'
    BY <1>2, <1>4, <1>7, <1>8 DEF RequestsSound
  <2>2. \A p \in Requests : \/ reqs'[p] = reqs[p]
                            \/ reqs[p].status # "approved" /\ reqs'[p].status # "approved"
    BY <1>2, <1>8
  <2>. QED
    BY <1>0, <1>1, <1>3, <1>6, <1>8, <2>1, <2>2, RequestsKeep
<1>9. CASE /\ OpenRequests(swept, e) = {} /\ filed < intake.requests
           /\ reqs' = [swept EXCEPT ![filed + 1] = fresh]
  <2>1. n + 1 \in Requests /\ n + 1 \in 0..MaxRequests
    BY <1>0, <1>5, <1>9 DEF Requests
  <2>2. fresh \in JoinRequest /\ fresh.status = "unverified" /\ fresh.email = e
    BY <1>0 DEF JoinRequest
  <2>. HIDE DEF fresh
  <2>3. /\ reqs' \in [Requests -> JoinRequest] /\ reqs'[n + 1] = fresh
        /\ \A r \in Requests \ {n + 1} : reqs'[r] = swept[r]
    BY <1>3, <1>5, <1>9, <2>1, <2>2
  <2>4. RequestsSound'
    <3>1. ASSUME NEW r \in Requests PROVE reqs'[r].status # "none" <=> r <= n + 1
      <4>1. r \in Nat
        BY DEF Requests
      <4>2. CASE r = n + 1
        BY <2>2, <2>3, <4>2
      <4>3. CASE r # n + 1
        BY <1>2, <1>4, <2>3, <4>1, <4>3
      <4>. QED
        BY <4>2, <4>3
    <3>2. ASSUME NEW r \in Requests, reqs'[r].status # "none" PROVE reqs'[r].email \in Emails
      BY <1>7, <2>2, <2>3, <3>2
    <3>. QED
      BY <2>1, <3>1, <3>2 DEF RequestsSound
  <2>5. ASSUME NEW r \in Requests, NEW q \in Requests, reqs'[r].email = reqs'[q].email,
               {reqs'[r].status, reqs'[q].status} \subseteq {"unverified", "pending"}
        PROVE  r = q
    <3>1. \A p \in Requests : swept[p].email = e => swept[p].status \notin {"unverified", "pending"}
      BY <1>9 DEF OpenRequests
    <3>2. CASE r = n + 1 /\ q # n + 1
      BY <2>2, <2>3, <2>5, <3>1, <3>2
    <3>3. CASE r # n + 1 /\ q = n + 1
      BY <2>2, <2>3, <2>5, <3>1, <3>3
    <3>4. CASE r # n + 1 /\ q # n + 1
      BY <1>6, <2>3, <2>5, <3>4
    <3>. QED
      BY <3>2, <3>3, <3>4
  <2>6. \A p \in Requests : \/ reqs'[p] = reqs[p]
                            \/ reqs[p].status # "approved" /\ reqs'[p].status # "approved"
    <3>1. reqs[n + 1].status = "none"
      BY <1>4, <2>1
    <3>. QED
      BY <1>2, <2>2, <2>3, <3>1
  <2>. QED
    BY <1>0, <1>1, <2>3, <2>4, <2>5, <2>6, RequestsKeep
<1>. QED
  BY <1>1, <1>8, <1>9

\* An account is made by an invitation, a temporary password or an approval.
LEMMA CreateStepsKeep ==
  ASSUME AdmissionInv,
         \/ \E e \in Emails : \E t \in links[e] : AcceptInvitation(e, t)
         \/ \E a \in Admins, role \in intake.roles : Provision(a, role) \/ ApproveJoin(a, role)
  PROVE  AdmissionInv'
<1>0. /\ form \in [Admins -> Form] /\ invs \in [Emails -> Invitation]
      /\ reqs \in [Requests -> JoinRequest] /\ intake.roles \subseteq Roles /\ Blank \in Form
      /\ review \in [Admins -> Requests \cup {NoRequest}] /\ orgOpen \in BOOLEAN
      /\ signup \in [id : 0..MaxLinks, live : BOOLEAN]
      /\ NoRequest \notin Requests /\ RequestsSound
      /\ \A p, q \in Requests :
           /\ reqs[p].email = reqs[q].email
           /\ {reqs[p].status, reqs[q].status} \subseteq {"unverified", "pending"}
           => p = q
  BY AdmissionAssumption DEF AdmissionInv, AdmissionTypeOK, AdmissionScope, Blank, Form
<1>1. ASSUME NEW e \in Emails, NEW t \in links[e], AcceptInvitation(e, t) PROVE AdmissionInv'
  <2>1. /\ Invited(e) /\ ~account_email_unavailable(e)
        /\ t = invs[e].token /\ ~invs[e].expired
        /\ CreateUser(e, invs[e].role, "invitation", NoRequest, t)
        /\ UNCHANGED <<orgOpen, links, retired, lastToken, signup, reqs, form, review, intake>>
    BY <1>1 DEF AcceptInvitation, Acceptable
  <2>2. /\ invs' \in [Emails -> Invitation] /\ invs'[e].status = "accepted"
        /\ \A f \in Emails \ {e} : invs'[f] = invs[f]
    BY <1>0, <1>1 DEF AcceptInvitation, Invitation
  <2>3. \A f \in {e} : ~Invited(f)'
    BY <2>2 DEF Invited
  <2>9. \A t2 \in retired' : t2 \in retired \/ \E f \in {e} : Invited(f) /\ t2 = invs[f].token
    BY <2>1
  <2>4. /\ TokensSound'
        /\ \A f \in Emails : Invited(f)' => Invited(f) /\ invs'[f].token = invs[f].token
    <3>1. UNCHANGED <<links, lastToken>> /\ {e} \in SUBSET Emails
      BY <2>1
    <3>2. /\ \A f \in {e} : Invited(f)' => /\ Invited(f) /\ invs'[f].token = invs[f].token
                                           /\ invs'[f].expired
          /\ \A f \in Emails \ {e} : invs'[f] = invs[f]
      BY <2>2, <2>3
    <3>. QED
      BY <2>9, <3>1, <3>2, WithdrawnTokens
  <2>8. /\ t \in 0..lastToken /\ t \notin retired' /\ \A s \in Slots : users[s].link # t
        /\ \A f \in Emails : Invited(f)' => invs[f].token # t
    <3>1. TokensSound /\ LinksSound /\ lastToken \in Nat
      BY DEF AdmissionInv, AdmissionTypeOK
    <3>2. t \in 0..lastToken /\ t \notin retired
      BY <2>1, <3>1 DEF TokensSound
    <3>3. \A s \in Slots : users[s].link # t
      BY <2>1, <3>1 DEF LinksSound
    <3>4. \A f \in Emails : Invited(f)' => f # e
      BY <2>3
    <3>5. \A f \in Emails : Invited(f)' => invs[f].token # t
      BY <2>1, <2>4, <3>1, <3>4 DEF TokensSound
    <3>. QED
      BY <2>1, <3>2, <3>3, <3>5
  <2>5. invs[e].role \in Roles \cup {NoRole}
    BY <1>0 DEF Invitation
  <2>6. RequestsSound'
    BY <1>0, <2>1 DEF RequestsSound
  <2>7. \A p, q \in Requests :
          /\ reqs'[p].email = reqs'[q].email
          /\ {reqs'[p].status, reqs'[q].status} \subseteq {"unverified", "pending"}
          => p = q
    BY <1>0, <2>1
  <2>. QED
    BY <1>0, <2>1, <2>2, <2>4, <2>5, <2>6, <2>7, <2>8, <2>9, CreateKeeps
<1>2. ASSUME NEW a \in Admins, NEW role \in intake.roles, Provision(a, role) PROVE AdmissionInv'
  <2>0. PICK e \in Emails : e = form[a].email
    BY <1>0, <1>2 DEF Provision, Form
  <2>1. CASE /\ UNCHANGED server
             /\ \/ form' = [form EXCEPT ![a].told = FALSE, ![a].replace = FALSE]
                \/ form' = [form EXCEPT ![a].told = TRUE, ![a].replace = FALSE]
    <3>1. PICK told \in BOOLEAN : form' = [form EXCEPT ![a].told = told, ![a].replace = FALSE]
      BY <2>1
    <3>. DEFINE f == [[form[a] EXCEPT !.told = told] EXCEPT !.replace = FALSE]
    <3>2. form' = [form EXCEPT ![a] = f]
      BY <1>0, <3>1
    <3>3. f \in Form
      BY <1>0 DEF Form
    <3>. HIDE DEF f
    <3>4. form' \in [Admins -> Form]
      BY <1>0, <3>2, <3>3
    <3>5. UNCHANGED review
      BY <1>2 DEF Provision
    <3>. QED
      BY <1>0, <2>1, <3>4, <3>5, FormsKeep, StillSame DEF server
  <2>2. CASE /\ ~account_email_unavailable(e) /\ CreateUser(e, role, "temporary", NoRequest, 0)
             /\ invs' = RevokesPending(e) /\ retired' = retired \cup Withdraw(e)
             /\ form' = [form EXCEPT ![a] = Blank]
             /\ UNCHANGED <<orgOpen, links, lastToken, signup, reqs, intake>>
    <3>1. /\ invs' \in [Emails -> Invitation] /\ invs'[e].status # "pending"
          /\ \A f \in Emails \ {e} : invs'[f] = invs[f]
      <4>1. CASE Invited(e)
        <5>1. invs' = [invs EXCEPT ![e].status = "revoked"]
          BY <2>2, <4>1 DEF RevokesPending
        <5>. QED
          BY <1>0, <2>0, <5>1 DEF Invitation
      <4>2. CASE ~Invited(e)
        BY <1>0, <2>2, <4>2 DEF RevokesPending, Invited
      <4>. QED
        BY <4>1, <4>2
    <3>2. \A f \in {e} : ~Invited(f)'
      BY <3>1 DEF Invited
    <3>3. \A t \in retired' : t \in retired \/ \E f \in {e} : Invited(f) /\ t = invs[f].token
      BY <2>2 DEF Withdraw
    <3>4. /\ TokensSound'
          /\ \A f \in Emails : Invited(f)' => Invited(f) /\ invs'[f].token = invs[f].token
      BY <2>2, <3>1, <3>2, <3>3, WithdrawnTokens
    <3>8. UNCHANGED review
      BY <1>2 DEF Provision
    <3>9. /\ 0 \in 0..lastToken
          /\ \A f \in Emails : Invited(f)' => invs[f].token # 0
      <4>1. TokensSound /\ lastToken \in Nat
        BY DEF AdmissionInv, AdmissionTypeOK
      <4>. QED
        BY <3>4, <4>1 DEF TokensSound
    <3>5. form' \in [Admins -> Form]
      BY <1>0, <2>2
    <3>6. RequestsSound'
      BY <1>0, <2>2 DEF RequestsSound
    <3>7. \A p, q \in Requests :
            /\ reqs'[p].email = reqs'[q].email
            /\ {reqs'[p].status, reqs'[q].status} \subseteq {"unverified", "pending"}
            => p = q
      BY <1>0, <2>2
    <3>. QED
      BY <1>0, <2>2, <3>1, <3>3, <3>4, <3>5, <3>6, <3>7, <3>8, <3>9, CreateKeeps
  <2>. QED
    BY <1>2, <2>0, <2>1, <2>2 DEF Provision
<1>3. ASSUME NEW a \in Admins, NEW role \in intake.roles, ApproveJoin(a, role) PROVE AdmissionInv'
  <2>. DEFINE r == review[a]
              e == reqs[r].email
  <2>1. /\ r \in Requests /\ reqs[r].status = "pending" /\ ~account_email_unavailable(e)
        /\ CreateUser(e, role, "join", r, 0)
        /\ reqs' = [reqs EXCEPT ![r].status = "approved", ![r].role = role]
        /\ UNCHANGED <<orgOpen, invs, links, retired, lastToken, signup, form, intake>>
    BY <1>0, <1>3 DEF ApproveJoin, Reviewable
  <2>2. e \in Emails
    BY <1>0, <2>1 DEF RequestsSound
  <2>3. review' \in [Admins -> Requests \cup {NoRequest}]
    BY <1>0, <1>3 DEF ApproveJoin, CloseOrKeep
  <2>4. /\ reqs' \in [Requests -> JoinRequest] /\ reqs'[r].status = "approved"
        /\ reqs'[r].role = role /\ reqs'[r].email = e
        /\ \A q \in Requests \ {r} : reqs'[q] = reqs[q]
    <3>. DEFINE q == [[reqs[r] EXCEPT !.status = "approved"] EXCEPT !.role = role]
    <3>1. reqs' = [reqs EXCEPT ![r] = q]
      BY <1>0, <2>1
    <3>2. q \in JoinRequest /\ q.status = "approved" /\ q.role = role /\ q.email = e
      <4>1. reqs[r] \in JoinRequest /\ role \in Roles \cup {NoRole}
        BY <1>0, <2>1
      <4>. QED
        BY <4>1 DEF JoinRequest
    <3>. HIDE DEF q
    <3>. QED
      BY <1>0, <2>1, <3>1, <3>2
  <2>. HIDE DEF r, e
  <2>5. RequestsSound'
    <3>1. \A q \in Requests : /\ reqs'[q].status # "none" <=> reqs[q].status # "none"
                              /\ reqs'[q].status # "none" => reqs'[q].email \in Emails
      BY <1>0, <2>1, <2>2, <2>4 DEF RequestsSound
    <3>. QED
      BY <1>0, <3>1 DEF RequestsSound
  <2>6. ASSUME NEW p \in Requests, NEW q \in Requests, reqs'[p].email = reqs'[q].email,
               {reqs'[p].status, reqs'[q].status} \subseteq {"unverified", "pending"}
        PROVE  p = q
    BY <1>0, <2>4, <2>6
  <2>7. /\ TokensSound' /\ 0 \in 0..lastToken
        /\ \A f \in Emails : Invited(f)' => /\ Invited(f) /\ invs'[f].token = invs[f].token
                                            /\ invs[f].token # 0
    <3>1. TokensSound /\ lastToken \in Nat
      BY DEF AdmissionInv, AdmissionTypeOK
    <3>. QED
      BY <2>1, <3>1 DEF TokensSound, Invited
  <2>8. invs' \in [Emails -> Invitation] /\ form' \in [Admins -> Form]
    BY <1>0, <2>1
  <2>9. \A p, q \in Requests :
          /\ reqs'[p].email = reqs'[q].email
          /\ {reqs'[p].status, reqs'[q].status} \subseteq {"unverified", "pending"}
          => p = q
    BY <2>6
  <2>10. \A t2 \in retired' : t2 \in retired \/ \E f \in Emails : Invited(f) /\ t2 = invs[f].token
    BY <2>1
  <2>11. /\ UNCHANGED <<orgOpen, links, lastToken, signup, intake>>
         /\ role \in Roles \cup {NoRole} /\ r \in Requests \cup {NoRequest}
         /\ "join" \in {"invitation", "temporary", "join"}
         /\ reqs[r].status # "approved"
    BY <1>0, <2>1
  <2>12. 0 # 0 => 0 \notin retired' /\ \A s \in Slots : users[s].link # 0
    OBVIOUS
  <2>. QED
    BY <2>1, <2>2, <2>3, <2>4, <2>5, <2>7, <2>8, <2>9, <2>10, <2>11, <2>12, CreateKeeps, ZenonT(60)
<1>. QED
  BY <1>1, <1>2, <1>3

\* An account gives up its address, or moves to one that nobody has.
LEMMA OneAccountKeeps ==
  ASSUME AdmissionInv, NEW k \in Slots, NEW u \in User, users' = [users EXCEPT ![k] = u],
         UNCHANGED <<orgOpen, invs, links, retired, lastToken, signup, reqs, form, review, intake>>,
         users[k].state # "none", u.state # "none", u.role = users[k].role,
         u.request = users[k].request, u.link = users[k].link,
         u.email = NoEmail \/ ~account_email_unavailable(u.email)
  PROVE  AdmissionInv'
<1>0. users \in [Slots -> User]
  BY DEF AdmissionInv, AdmissionTypeOK
<1>4. /\ users' \in [Slots -> User] /\ users'[k] = u
      /\ \A s \in Slots \ {k} : users'[s] = users[s]
  BY <1>0
<1>5. \A s \in Slots : /\ users'[s].state # "none" <=> users[s].state # "none"
                       /\ users'[s].role = users[s].role
                       /\ users'[s].request = users[s].request
                       /\ users'[s].link = users[s].link
                       /\ users'[s].state = "none" => users'[s] = users[s]
  BY <1>4
<1>6. AdmissionTypeOK'
  BY <1>4 DEF AdmissionInv, AdmissionTypeOK
<1>7. UsersSound'
  <2>0. UsersSound
    BY DEF AdmissionInv
  <2>1. \E n \in 0..MaxAccounts : \A s \in Slots : users'[s].state # "none" <=> s <= n
    BY <1>5, <2>0 DEF UsersSound
  <2>2. \A s \in Slots : users'[s].state = "none" =>
          /\ users'[s].email = NoEmail /\ users'[s].moving = NoEmail
          /\ users'[s].request = NoRequest /\ users'[s].link = 0
    BY <1>5, <2>0 DEF UsersSound
  <2>3. ASSUME NEW s \in Slots, NEW t \in Slots, users'[s].email # NoEmail,
               users'[s].email = users'[t].email
        PROVE  s = t
    BY <1>4, <2>0, <2>3 DEF UsersSound, account_email_unavailable
  <2>. QED
    BY <2>1, <2>2, <2>3 DEF UsersSound
<1>8. LinksSound'
  BY <1>5 DEF AdmissionInv, LinksSound, Invited
<1>9. TokensSound' /\ RequestsSound'
  BY DEF AdmissionInv, TokensSound, RequestsSound, Invited
<1>10. ASSUME NEW r \in Requests PROVE JoinSound(r)'
  <2>0. JoinSound(r)
    BY DEF AdmissionInv
  <2>1. {s \in Slots : users'[s].request = r} = {s \in Slots : users[s].request = r}
    BY <1>5
  <2>. QED
    BY <1>5, <2>0, <2>1 DEF JoinSound
<1>. QED
  BY <1>6, <1>7, <1>8, <1>9, <1>10 DEF AdmissionInv

\* A member is removed; a member's change of address is verified.
LEMMA AccountStepsKeep ==
  ASSUME AdmissionInv, NEW k \in Slots, RemoveMember(k) \/ VerifyEmailChange(k)
  PROVE  AdmissionInv'
<1>0. users \in [Slots -> User] /\ users[k] \in User
  BY DEF AdmissionInv, AdmissionTypeOK
<1>1. CASE RemoveMember(k)
  <2>. DEFINE u == [[users[k] EXCEPT !.state = "removed"] EXCEPT !.email = NoEmail]
  <2>1. /\ users[k].state = "live"
        /\ users' = [users EXCEPT ![k].state = "removed", ![k].email = NoEmail]
        /\ UNCHANGED <<orgOpen, invs, links, retired, lastToken, signup, reqs, form, review, intake>>
    BY <1>1 DEF RemoveMember
  <2>2. users' = [users EXCEPT ![k] = u]
    BY <1>0, <2>1
  <2>3. /\ u \in User /\ u.state = "removed" /\ u.email = NoEmail /\ u.role = users[k].role
        /\ u.request = users[k].request /\ u.link = users[k].link
    BY <1>0 DEF User
  <2>. HIDE DEF u
  <2>. QED
    BY <2>1, <2>2, <2>3, OneAccountKeeps
<1>2. CASE VerifyEmailChange(k)
  <2>. DEFINE u == [[users[k] EXCEPT !.email = users[k].moving] EXCEPT !.moving = NoEmail]
  <2>1. /\ users[k].moving # NoEmail /\ ~account_email_unavailable(users[k].moving)
        /\ users' = [users EXCEPT ![k].email = users[k].moving, ![k].moving = NoEmail]
        /\ UNCHANGED <<orgOpen, invs, links, retired, lastToken, signup, reqs, form, review, intake>>
    BY <1>2 DEF VerifyEmailChange, MayMove
  <2>2. users' = [users EXCEPT ![k] = u]
    BY <1>0, <2>1
  <2>3. /\ u \in User /\ u.state = users[k].state /\ u.email = users[k].moving
        /\ u.role = users[k].role /\ u.request = users[k].request /\ u.link = users[k].link
    BY <1>0 DEF User
  <2>4. users[k].state # "none"
    BY <2>1 DEF AdmissionInv, UsersSound
  <2>. HIDE DEF u
  <2>. QED
    BY <2>1, <2>2, <2>3, <2>4, OneAccountKeeps
<1>. QED
  BY <1>1, <1>2

\* An organization starts without accounts, invitations and requests.
LEMMA InitAdmission == AdmissionInit => AdmissionInv
<1>. SUFFICES ASSUME AdmissionInit PROVE AdmissionInv
  OBVIOUS
<1>0. /\ MaxAccounts \in Nat /\ MaxRequests \in Nat /\ MaxTokens \in Nat /\ MaxLinks \in Nat
      /\ NoRequest \notin Requests
  BY AdmissionAssumption
<1>1. /\ NoUser \in User /\ NoUser.state = "none" /\ NoUser.request = NoRequest
      /\ NoUser.email = NoEmail /\ NoUser.moving = NoEmail /\ NoUser.link = 0
      /\ NoInvitation \in Invitation /\ NoInvitation.status = "none"
      /\ Unused \in JoinRequest /\ Unused.status = "none" /\ Blank \in Form
  BY <1>0 DEF NoUser, User, NoInvitation, Invitation, Unused, JoinRequest, Blank, Form
<1>2. /\ \A s \in Slots : users[s] = NoUser
      /\ \A e \in Emails : invs[e] = NoInvitation /\ links[e] = {}
      /\ \A r \in Requests : reqs[r] = Unused
      /\ retired = {} /\ lastToken = 0 /\ signup = [id |-> 0, live |-> FALSE]
  BY DEF AdmissionInit
<1>3. AdmissionTypeOK
  <2>1. /\ users \in [Slots -> User] /\ invs \in [Emails -> Invitation]
        /\ links \in [Emails -> SUBSET (1..MaxTokens)]
        /\ reqs \in [Requests -> JoinRequest] /\ form \in [Admins -> Form]
        /\ review \in [Admins -> Requests \cup {NoRequest}]
    BY <1>1 DEF AdmissionInit
  <2>2. /\ intake \in AdmissionScope /\ orgOpen \in BOOLEAN /\ retired \subseteq 0..MaxTokens
        /\ lastToken \in 0..MaxTokens /\ signup \in [id : 0..MaxLinks, live : BOOLEAN]
    BY <1>0, <1>2, AdmissionAssumption DEF AdmissionInit
  <2>3. \A r \in Requests : reqs[r].status \notin {"unverified", "pending"}
    BY <1>1, <1>2
  <2>. QED
    BY <2>1, <2>2, <2>3 DEF AdmissionTypeOK
<1>4. UsersSound /\ RequestsSound
  <2>1. 0 \in 0..MaxAccounts /\ 0 \in 0..MaxRequests
    BY <1>0
  <2>2. /\ \A s \in Slots : ~(s <= 0)
        /\ \A r \in Requests : ~(r <= 0)
    BY DEF Slots, Requests
  <2>. QED
    BY <1>1, <1>2, <2>1, <2>2 DEF UsersSound, RequestsSound
<1>5. TokensSound /\ LinksSound
  BY <1>1, <1>2 DEF TokensSound, LinksSound, Invited
<1>6. \A r \in Requests : JoinSound(r)
  BY <1>0, <1>1, <1>2 DEF JoinSound
<1>. QED
  BY <1>3, <1>4, <1>5, <1>6 DEF AdmissionInv

\* Every step keeps the invariant.
LEMMA NextAdmission == AdmissionInv /\ [AdmissionNext]_admissionVars => AdmissionInv'
<1>. SUFFICES ASSUME AdmissionInv, [AdmissionNext]_admissionVars PROVE AdmissionInv'
  OBVIOUS
<1>1. CASE UNCHANGED admissionVars
  BY <1>1, FormsKeep, StillSame DEF admissionVars, AdmissionInv, AdmissionTypeOK
<1>2. CASE AdmissionNext
  <2>1. intake.emails \subseteq Emails /\ intake.admins \subseteq Admins
    BY DEF AdmissionInv, AdmissionTypeOK, AdmissionScope
  <2>. USE <1>2 DEF AdmissionNext
  <2>. QED
    BY <2>1, FormStepsKeep, InviteStepsKeep, WithdrawStepsKeep, RequestStepsKeep, SubmitKeeps,
       CreateStepsKeep, AccountStepsKeep
<1>. QED
  BY <1>1, <1>2

\* Every variable of the admission keeps its type, and an address has one open request.
THEOREM AdmissionTypeCorrect == AdmissionSpec => []AdmissionTypeOK
<1>1. AdmissionInv => AdmissionTypeOK
  BY DEF AdmissionInv
<1>. QED
  BY <1>1, InitAdmission, NextAdmission, PTL DEF AdmissionSpec

\* An address names one account at most, and an approved request made one account ever,
\* in whatever order Admins, operators, applicants and members act.
THEOREM OneWayInAlways == AdmissionSpec => []OneWayIn
<1>. QED
  BY AdmissionInvImplies, InitAdmission, NextAdmission, PTL DEF AdmissionSpec

\* No account was made by presenting a link that had been superseded, renewed, revoked,
\* replaced, withdrawn by a suspension or left to expire, and no link made two.
THEOREM DeadLinksAlways == AdmissionSpec => []DeadLinksGrantNothing
<1>. QED
  BY AdmissionInvImplies, InitAdmission, NextAdmission, PTL DEF AdmissionSpec

-----------------------------------------------------------------------------
(* The console: the inductive invariant                                     *)

\* A profile form is filled from a profile.
Dialog == {t \in Task : t.kind = "update" => t.form \in Profiles}
Request == {p \in Payload : p.kind = "update" => p.form \in Profiles}
Held == [key : 1..MaxKeys, payload : Request]
Sent == [op : Operators, key : 1..MaxKeys, copy : 1..MaxCopies, payload : Request,
         current : BOOLEAN]
Kept == [op : Operators, payload : Request, body : Organization]

ConsoleTypes ==
  /\ desk \in ConsoleScope
  /\ org \in Organization
  /\ view \in [Operators -> Organization]
  /\ task \in [Operators -> Dialog \cup {None}]
  /\ hook \in [Operators -> [Hooks -> Held \cup {None}]]
  /\ lastKey \in 0..MaxKeys
  /\ call \in [Operators -> Attempt \cup {None}]
  /\ net \subseteq Sent
  /\ store \in [1..MaxKeys -> Kept \cup {None}]
  /\ recent \in [Operators -> BOOLEAN]
  /\ acts \in [Operators -> 0..1]

\* No key is used before it is drawn.
KeysDrawn ==
  /\ \A r \in net : r.key <= lastKey
  /\ \A o \in Operators, h \in Hooks : hook[o][h] # None => hook[o][h].key <= lastKey
  /\ \A k \in 1..MaxKeys : store[k] # None => k <= lastKey

\* Key k stands for payload p of operator o: on its way, held by a dialog, or completed.
Carries(k, o, p) ==
  \/ \E r \in net : r.key = k /\ r.op = o /\ r.payload = p
  \/ \E h \in Hooks : hook[o][h] # None /\ hook[o][h].key = k /\ hook[o][h].payload = p
  \/ store[k] # None /\ store[k].op = o /\ store[k].payload = p

OneMeaning ==
  \A k \in 1..MaxKeys, o1, o2 \in Operators, p1, p2 \in Request :
    Carries(k, o1, p1) /\ Carries(k, o2, p2) => o1 = o2 /\ p1 = p2

\* The requests of an operator's current payload share one key, which is the one its open
\* dialog holds, and which has completed once the payload has acted.
ActsSound(o) ==
  /\ \A r, q \in net : r.op = o /\ q.op = o /\ r.current /\ q.current => r.key = q.key
  /\ \A r \in net : r.op = o /\ r.current /\ acts[o] = 1 => store[r.key] # None
  /\ task[o] # None =>
       LET held == hook[o][HookOf(task[o].kind)] IN
       held # None => /\ acts[o] = 1 => store[held.key] # None
                      /\ \A r \in net : r.op = o /\ r.current => r.key = held.key

ConsoleInv == ConsoleTypes /\ KeysDrawn /\ OneMeaning /\ \A o \in Operators : ActsSound(o)

\* The kind of a dialog has a hook.
LEMMA HookOfType == \A kind \in Tasks : HookOf(kind) \in Hooks
BY DEF Tasks, Hooks, HookOf, Lifecycle

\* The invariant gives the properties.
LEMMA ConsoleInvImplies == ConsoleInv => ActsOnce /\ ConsoleTypeOK
<1>. SUFFICES ASSUME ConsoleInv PROVE ActsOnce /\ ConsoleTypeOK
  OBVIOUS
<1>0. ConsoleTypes /\ KeysDrawn /\ OneMeaning
  BY DEF ConsoleInv
<1>1. \A o \in Operators : acts[o] <= 1 /\ acts[o] \in 0..2
  BY <1>0 DEF ConsoleTypes
<1>2. ASSUME NEW r \in net, store[r.key] # None
      PROVE  store[r.key].payload = r.payload /\ store[r.key].op = r.op
  <2>1. /\ r.key \in 1..MaxKeys /\ r.op \in Operators /\ r.payload \in Request
        /\ Carries(r.key, r.op, r.payload)
    BY <1>0 DEF ConsoleTypes, Sent, Carries
  <2>2. store[r.key] \in Kept
    BY <1>0, <1>2, <2>1 DEF ConsoleTypes
  <2>3. /\ store[r.key].op \in Operators /\ store[r.key].payload \in Request
        /\ Carries(r.key, store[r.key].op, store[r.key].payload)
    BY <1>2, <2>2 DEF Carries, Kept
  <2>. QED
    BY <1>0, <2>1, <2>3 DEF OneMeaning
<1>3. ConsoleTypeOK
  <2>1. task \in [Operators -> Task \cup {None}] /\ acts \in [Operators -> 0..2]
    BY <1>0, <1>1 DEF ConsoleTypes, Dialog
  <2>2. \A r \in net : r.op \in Operators /\ r.key \in 1..lastKey /\ r.payload \in Payload
                      /\ r.copy \in 1..MaxCopies
    BY <1>0 DEF ConsoleTypes, Sent, Request, KeysDrawn
  <2>3. \A k \in 1..MaxKeys : store[k] # None => k <= lastKey /\ store[k].body \in Organization
    BY <1>0 DEF ConsoleTypes, KeysDrawn, Kept
  <2>. QED
    BY <1>0, <2>1, <2>2, <2>3 DEF ConsoleTypes, ConsoleTypeOK
<1>. QED
  BY <1>1, <1>2, <1>3 DEF ActsOnce

\* Nothing new is said under any key.
LEMMA MeaningKept ==
  ASSUME OneMeaning,
         \A k \in 1..MaxKeys, o \in Operators, p \in Request : Carries(k, o, p)' => Carries(k, o, p)
  PROVE  OneMeaning'
BY DEF OneMeaning

\* Steps that draw no key and complete none: requests are lost or outdated, hooks dropped;
\* an operator's payload is given up for a new one, or the dialog stays or closes.
LEMMA ConsoleQuiet ==
  ASSUME ConsoleInv, UNCHANGED <<org, lastKey, store, desk>>,
         view' \in [Operators -> Organization],
         task' \in [Operators -> Dialog \cup {None}],
         hook' \in [Operators -> [Hooks -> Held \cup {None}]],
         call' \in [Operators -> Attempt \cup {None}],
         recent' \in [Operators -> BOOLEAN], acts' \in [Operators -> 0..1],
         net' \subseteq Sent,
         \A r \in net' : \E q \in net : /\ r.op = q.op /\ r.key = q.key /\ r.payload = q.payload
                                        /\ r.current => q.current,
         \A o \in Operators, h \in Hooks : hook'[o][h] = hook[o][h] \/ hook'[o][h] = None,
         \A o \in Operators :
           \/ acts'[o] = 0 /\ \A r \in net' : r.op = o => ~r.current
           \/ /\ acts'[o] = acts[o]
              /\ task'[o] = None \/ (task[o] # None /\ task'[o].kind = task[o].kind)
  PROVE  ConsoleInv'
<1>1. ConsoleTypes'
  BY DEF ConsoleInv, ConsoleTypes
<1>2. KeysDrawn'
  <2>1. ASSUME NEW r \in net' PROVE r.key <= lastKey
    <3>1. PICK q \in net : r.key = q.key
      OBVIOUS
    <3>2. q.key <= lastKey
      BY DEF ConsoleInv, KeysDrawn
    <3>. QED
      BY <3>1, <3>2
  <2>2. ASSUME NEW o \in Operators, NEW h \in Hooks, hook'[o][h] # None
        PROVE  hook'[o][h].key <= lastKey
    <3>1. hook'[o][h] = hook[o][h]
      BY <2>2
    <3>. QED
      BY <2>2, <3>1 DEF ConsoleInv, KeysDrawn
  <2>3. \A k \in 1..MaxKeys : store[k] # None => k <= lastKey
    BY DEF ConsoleInv, KeysDrawn
  <2>. QED
    BY <2>1, <2>2, <2>3 DEF KeysDrawn
<1>3. OneMeaning'
  <2>1. ASSUME NEW k \in 1..MaxKeys, NEW o \in Operators, NEW p \in Request, Carries(k, o, p)'
        PROVE  Carries(k, o, p)
    <3>1. CASE \E r \in net' : r.key = k /\ r.op = o /\ r.payload = p
      <4>1. PICK r \in net' : r.key = k /\ r.op = o /\ r.payload = p
        BY <3>1
      <4>2. PICK q \in net : r.op = q.op /\ r.key = q.key /\ r.payload = q.payload
        BY <4>1
      <4>. QED
        BY <4>1, <4>2 DEF Carries
    <3>2. CASE \E h \in Hooks : hook'[o][h] # None /\ hook'[o][h].key = k /\ hook'[o][h].payload = p
      BY <3>2 DEF Carries
    <3>3. CASE store[k] # None /\ store[k].op = o /\ store[k].payload = p
      BY <3>3 DEF Carries
    <3>. QED
      BY <2>1, <3>1, <3>2, <3>3 DEF Carries
  <2>. QED
    BY <2>1, MeaningKept DEF ConsoleInv
<1>4. ASSUME NEW o \in Operators PROVE ActsSound(o)'
  <2>0. ActsSound(o)
    BY DEF ConsoleInv
  <2>1. \A r, q \in net' : r.op = o /\ q.op = o /\ r.current /\ q.current => r.key = q.key
    BY <2>0 DEF ActsSound
  <2>2. \A r \in net' : r.op = o /\ r.current /\ acts'[o] = 1 => store[r.key] # None
    BY <2>0 DEF ActsSound
  <2>3. ASSUME task'[o] # None, hook'[o][HookOf(task'[o].kind)] # None
        PROVE  LET held == hook'[o][HookOf(task'[o].kind)] IN
               /\ acts'[o] = 1 => store[held.key] # None
               /\ \A r \in net' : r.op = o /\ r.current => r.key = held.key
    <3>1. task'[o].kind \in Tasks /\ HookOf(task'[o].kind) \in Hooks
      BY <2>3, HookOfType DEF Dialog, Task
    <3>2. CASE acts'[o] = 0 /\ \A r \in net' : r.op = o => ~r.current
      BY <3>2
    <3>3. CASE acts'[o] = acts[o] /\ task[o] # None /\ task'[o].kind = task[o].kind
      <4>1. hook[o][HookOf(task[o].kind)] # None
            /\ hook'[o][HookOf(task'[o].kind)] = hook[o][HookOf(task[o].kind)]
        BY <2>3, <3>1, <3>3
      <4>. DEFINE held == hook[o][HookOf(task[o].kind)]
      <4>2. /\ acts[o] = 1 => store[held.key] # None
            /\ \A r \in net : r.op = o /\ r.current => r.key = held.key
        BY <2>0, <3>3, <4>1 DEF ActsSound
      <4>. HIDE DEF held
      <4>3. \A r \in net' : r.op = o /\ r.current => r.key = held.key
        BY <4>2
      <4>. QED
        BY <3>3, <4>1, <4>2, <4>3 DEF held
    <3>. QED
      BY <2>3, <3>2, <3>3
  <2>. QED
    BY <2>1, <2>2, <2>3 DEF ActsSound
<1>. QED
  BY <1>1, <1>2, <1>3, <1>4 DEF ConsoleInv

\* What an operator had on its way is outdated.
LEMMA OutdateOutcome ==
  ASSUME ConsoleInv, NEW o \in Operators
  PROVE  /\ Outdate(o) \subseteq Sent
         /\ \A r \in Outdate(o) :
              /\ r.op = o => ~r.current
              /\ \E q \in net : /\ r.op = q.op /\ r.key = q.key /\ r.payload = q.payload
                                /\ r.current => q.current
<1>. SUFFICES ASSUME NEW q \in net
              PROVE  LET r == IF q.op = o THEN [q EXCEPT !.current = FALSE] ELSE q IN
                     /\ r \in Sent /\ (r.op = o => ~r.current)
                     /\ r.op = q.op /\ r.key = q.key /\ r.payload = q.payload
                     /\ r.current => q.current
  BY DEF Outdate
<1>1. q \in Sent
  BY DEF ConsoleInv, ConsoleTypes
<1>2. CASE q.op = o
  BY <1>1, <1>2 DEF Sent
<1>3. CASE q.op # o
  BY <1>1, <1>3
<1>. QED
  BY <1>2, <1>3

\* The same, for a step that starts a new payload of an operator.
LEMMA ConsoleRestart ==
  ASSUME ConsoleInv, NEW o \in Operators, NEW t \in Dialog,
         task' = [task EXCEPT ![o] = t], net' = Outdate(o), acts' = [acts EXCEPT ![o] = 0],
         UNCHANGED <<org, view, hook, lastKey, call, store, recent, desk>>
  PROVE  ConsoleInv'
<1>0. ConsoleTypes
  BY DEF ConsoleInv
<1>1. /\ task' \in [Operators -> Dialog \cup {None}] /\ acts' \in [Operators -> 0..1]
      /\ view' \in [Operators -> Organization]
      /\ hook' \in [Operators -> [Hooks -> Held \cup {None}]]
      /\ call' \in [Operators -> Attempt \cup {None}]
      /\ recent' \in [Operators -> BOOLEAN]
  BY <1>0 DEF ConsoleTypes
<1>2. /\ net' \subseteq Sent
      /\ \A r \in net' : r.op = o => ~r.current
      /\ \A r \in net' : \E q \in net : /\ r.op = q.op /\ r.key = q.key /\ r.payload = q.payload
                                        /\ r.current => q.current
  BY OutdateOutcome
<1>3. ASSUME NEW p \in Operators
      PROVE  \/ acts'[p] = 0 /\ \A r \in net' : r.op = p => ~r.current
             \/ /\ acts'[p] = acts[p]
                /\ task'[p] = None \/ (task[p] # None /\ task'[p].kind = task[p].kind)
  BY <1>0, <1>2 DEF ConsoleTypes
<1>. QED
  BY <1>1, <1>2, <1>3, ConsoleQuiet

\* A dialog opens with nothing typed yet but the reason.
LEMMA OpenDialogKeeps ==
  ASSUME ConsoleInv, NEW o \in Operators, NEW kind \in Tasks, NEW reason \in Reasons \cup {None},
         OpenDialog(o, kind, reason)
  PROVE  ConsoleInv'
<1>. DEFINE t == [kind |-> kind, reason |-> reason,
                  form |-> IF kind = "update" THEN view[o].profile ELSE None]
<1>1. view[o].profile \in Profiles
  BY DEF ConsoleInv, ConsoleTypes, Organization
<1>2. t \in Dialog
  BY <1>1 DEF Dialog, Task
<1>. QED
  BY <1>2, ConsoleRestart DEF OpenDialog

\* Another reason is a new payload.
LEMMA EditReasonKeeps ==
  ASSUME ConsoleInv, NEW o \in Operators, NEW reason \in Reasons, EditReason(o, reason)
  PROVE  ConsoleInv'
<1>1. task[o] \in Dialog /\ task \in [Operators -> Dialog \cup {None}]
  BY DEF ConsoleInv, ConsoleTypes, EditReason
<1>2. [task[o] EXCEPT !.reason = reason] \in Dialog
  BY <1>1 DEF Dialog, Task
<1>3. task' = [task EXCEPT ![o] = [task[o] EXCEPT !.reason = reason]]
  BY <1>1 DEF EditReason
<1>. QED
  BY <1>2, <1>3, ConsoleRestart DEF EditReason

\* So is another value of a field.
LEMMA EditFieldKeeps ==
  ASSUME ConsoleInv, NEW o \in Operators, NEW f \in Fields, EditField(o, f)
  PROVE  ConsoleInv'
<1>1. task[o] \in Dialog /\ task \in [Operators -> Dialog \cup {None}]
  BY DEF ConsoleInv, ConsoleTypes, EditField
<1>2. task[o].form \in Profiles
  BY <1>1 DEF EditField, Dialog
<1>3. [task[o].form EXCEPT ![f] = o] \in Profiles
  BY <1>2 DEF Profiles
<1>4. [task[o] EXCEPT !.form = [task[o].form EXCEPT ![f] = o]] \in Dialog
  BY <1>1, <1>3 DEF Dialog, Task
<1>5. task' = [task EXCEPT ![o] = [task[o] EXCEPT !.form = [task[o].form EXCEPT ![f] = o]]]
  BY <1>1 DEF EditField
<1>. QED
  BY <1>4, <1>5, ConsoleRestart DEF EditField

\* A hook is dropped: every hook is as it was or empty.
LEMMA HookDropped ==
  ASSUME ConsoleInv, NEW o \in Operators, NEW x \in Hooks, hook' = [hook EXCEPT ![o][x] = None]
  PROVE  /\ hook' \in [Operators -> [Hooks -> Held \cup {None}]]
         /\ \A p \in Operators, h \in Hooks : hook'[p][h] = hook[p][h] \/ hook'[p][h] = None
<1>1. hook \in [Operators -> [Hooks -> Held \cup {None}]]
  BY DEF ConsoleInv, ConsoleTypes
<1>. QED
  BY <1>1

\* A dialog closes, and drops its key or keeps it.
LEMMA CloseDialogKeeps ==
  ASSUME ConsoleInv, NEW o \in Operators, CloseDialog(o)
  PROVE  ConsoleInv'
<1>0. ConsoleTypes
  BY DEF ConsoleInv
<1>1. HookOf(task[o].kind) \in Hooks
  BY <1>0, HookOfType DEF ConsoleTypes, CloseDialog, Dialog, Task
<1>2. /\ hook' \in [Operators -> [Hooks -> Held \cup {None}]]
      /\ \A p \in Operators, h \in Hooks : hook'[p][h] = hook[p][h] \/ hook'[p][h] = None
  <2>1. CASE task[o].kind = "resend"
    BY <1>0, <2>1 DEF ConsoleTypes, CloseDialog
  <2>2. CASE task[o].kind # "resend"
    BY <1>1, <2>2, HookDropped DEF CloseDialog
  <2>. QED
    BY <2>1, <2>2
<1>3. /\ task' \in [Operators -> Dialog \cup {None}]
      /\ \A p \in Operators : task'[p] = task[p] \/ task'[p] = None
      /\ UNCHANGED <<org, view, lastKey, call, net, store, recent, acts, desk>>
  BY <1>0 DEF ConsoleTypes, CloseDialog
<1>. QED
  BY <1>0, <1>2, <1>3, ConsoleQuiet DEF ConsoleTypes

\* Steps that leave the dialogs, the keys and the effects alone, and lose no more than a
\* request.
LEMMA ConsoleAside ==
  ASSUME ConsoleInv, UNCHANGED <<org, task, hook, lastKey, store, acts, desk>>,
         view' \in [Operators -> Organization],
         call' \in [Operators -> Attempt \cup {None}],
         recent' \in [Operators -> BOOLEAN], net' \subseteq net
  PROVE  ConsoleInv'
<1>0. ConsoleTypes
  BY DEF ConsoleInv
<1>1. net' \subseteq Sent
  BY <1>0 DEF ConsoleTypes
<1>2. \A r \in net' : \E q \in net : /\ r.op = q.op /\ r.key = q.key /\ r.payload = q.payload
                                     /\ r.current => q.current
  OBVIOUS
<1>3. /\ \A o \in Operators, h \in Hooks : hook'[o][h] = hook[o][h]
      /\ \A o \in Operators : acts'[o] = acts[o] /\ task'[o] = task[o]
      /\ task' \in [Operators -> Dialog \cup {None}] /\ acts' \in [Operators -> 0..1]
      /\ hook' \in [Operators -> [Hooks -> Held \cup {None}]]
  BY <1>0 DEF ConsoleTypes
<1>. QED
  BY <1>1, <1>2, <1>3, ConsoleQuiet

\* Refetching, giving up, losing a request and the authenticator's step-up.
LEMMA AsideKeeps ==
  ASSUME ConsoleInv, NEW o \in Operators,
         Refetch(o) \/ GiveUp(o) \/ StepUp(o) \/ \E r \in net : LoseRequest(r)
  PROVE  ConsoleInv'
<1>0. ConsoleTypes
  BY DEF ConsoleInv
<1>1. CASE Refetch(o)
  BY <1>0, <1>1, ConsoleAside DEF ConsoleTypes, Refetch
<1>2. CASE GiveUp(o)
  BY <1>0, <1>2, ConsoleAside DEF ConsoleTypes, GiveUp
<1>3. CASE StepUp(o)
  BY <1>0, <1>3, ConsoleAside DEF ConsoleTypes, StepUp
<1>4. CASE \E r \in net : LoseRequest(r)
  BY <1>0, <1>4, ConsoleAside DEF ConsoleTypes, LoseRequest
<1>. QED
  BY <1>1, <1>2, <1>3, <1>4

\* What a dialog sends is a request.
LEMMA PayloadOfType ==
  ASSUME ConsoleInv, NEW o \in Operators, task[o] # None
  PROVE  PayloadOf(o) \in Request /\ PayloadOf(o).kind = task[o].kind
<1>1. task[o] \in Dialog /\ view[o].rev \in 0..MaxRev /\ 0 \in 0..MaxRev
  BY ConsoleAssumption DEF ConsoleInv, ConsoleTypes, Organization
<1>. QED
  BY <1>1 DEF PayloadOf, Request, Payload, Dialog, Task

\* An attempt is one of the copies.
LEMMA FreeCopy ==
  ASSUME ConsoleTypes, NEW k, Free(k) # {}
  PROVE  (CHOOSE c \in Free(k) : TRUE) \in 1..MaxCopies
<1>1. (CHOOSE c \in Free(k) : TRUE) \in Free(k)
  OBVIOUS
<1>2. desk.copies \in 0..MaxCopies
  BY DEF ConsoleTypes, ConsoleScope
<1>. QED
  BY <1>1, <1>2, ConsoleAssumption DEF Free

\* A retry of what the dialog already sent says nothing new.
LEMMA RetryKeeps ==
  ASSUME ConsoleInv, NEW o \in Operators, Send(o),
         hook[o][HookOf(task[o].kind)] # None,
         hook[o][HookOf(task[o].kind)].payload = PayloadOf(o)
  PROVE  ConsoleInv'
<1>0. ConsoleTypes /\ KeysDrawn /\ OneMeaning
  BY DEF ConsoleInv
<1>. DEFINE h0 == HookOf(task[o].kind)
            held == hook[o][h0]
            copy == CHOOSE c \in Free(held.key) : TRUE
            new == [op |-> o, key |-> held.key, copy |-> copy, payload |-> PayloadOf(o),
                    current |-> TRUE]
<1>1. h0 \in Hooks /\ held \in Held /\ held # None /\ held.payload = PayloadOf(o)
  BY <1>0, HookOfType DEF ConsoleTypes, Send, Dialog, Task
<1>2. held.key \in 1..MaxKeys /\ held.key <= lastKey /\ held = [key |-> held.key, payload |-> PayloadOf(o)]
  BY <1>0, <1>1 DEF KeysDrawn, Held
<1>3. keyFor(held, PayloadOf(o)) = held.key
  BY <1>1 DEF keyFor
<1>4. /\ hook' = hook /\ lastKey' = lastKey /\ acts' = acts
      /\ net' = net \cup {new} /\ call' = [call EXCEPT ![o] = [key |-> held.key, copy |-> copy]]
      /\ UNCHANGED <<org, view, task, store, recent, desk>>
  <2>1. /\ hook' = [hook EXCEPT ![o][h0] = [key |-> held.key, payload |-> PayloadOf(o)]]
        /\ lastKey' = IF held.key > lastKey THEN held.key ELSE lastKey
        /\ call' = [call EXCEPT ![o] = [key |-> held.key, copy |-> copy]]
        /\ net' = net \cup {new} /\ acts' = acts
        /\ UNCHANGED <<org, view, task, store, recent, desk>>
    BY <1>1, <1>3 DEF Send
  <2>2. hook' = hook
    BY <1>0, <1>1, <1>2, <2>1 DEF ConsoleTypes
  <2>3. lastKey' = lastKey
    BY <1>0, <1>2, <2>1 DEF ConsoleTypes
  <2>. QED
    BY <2>1, <2>2, <2>3
<1>5. /\ new \in Sent /\ new.op = o /\ new.key = held.key /\ new.payload = PayloadOf(o)
      /\ [key |-> held.key, copy |-> copy] \in Attempt
  <2>1. Free(held.key) # {}
    BY <1>3 DEF Send
  <2>2. copy \in 1..MaxCopies
    BY <1>0, <2>1, FreeCopy
  <2>3. PayloadOf(o) \in Request
    BY PayloadOfType DEF Send
  <2>. HIDE DEF copy, held
  <2>. QED
    BY <1>2, <2>2, <2>3 DEF Sent, Attempt
<1>. HIDE DEF h0, held, new, copy
<1>6. ConsoleTypes'
  BY <1>0, <1>2, <1>4, <1>5 DEF ConsoleTypes
<1>7. KeysDrawn'
  BY <1>0, <1>2, <1>4, <1>5 DEF KeysDrawn
<1>8. OneMeaning'
  <2>1. ASSUME NEW k \in 1..MaxKeys, NEW p \in Operators, NEW q \in Request, Carries(k, p, q)'
        PROVE  Carries(k, p, q)
    <3>1. CASE k = new.key /\ p = new.op /\ q = new.payload
      BY <1>1, <1>5, <3>1 DEF Carries, held
    <3>2. CASE ~(k = new.key /\ p = new.op /\ q = new.payload)
      BY <1>4, <2>1, <3>2 DEF Carries
    <3>. QED
      BY <3>1, <3>2
  <2>. QED
    BY <1>0, <2>1, MeaningKept
<1>9. ASSUME NEW p \in Operators PROVE ActsSound(p)'
  <2>0. ActsSound(p)
    BY DEF ConsoleInv
  <2>1. CASE p # o
    BY <1>4, <1>5, <2>0, <2>1 DEF ActsSound
  <2>2. CASE p = o
    <3>1. task[o] # None /\ hook[o][HookOf(task[o].kind)] = held
      BY DEF Send, held, h0
    <3>2. /\ acts[o] = 1 => store[held.key] # None
          /\ \A r \in net : r.op = o /\ r.current => r.key = held.key
      BY <1>1, <2>0, <2>2, <3>1 DEF ActsSound
    <3>3. \A r \in net' : r.op = o /\ r.current => r.key = held.key
      BY <1>4, <1>5, <3>2
    <3>. QED
      BY <1>4, <2>2, <3>1, <3>2, <3>3 DEF ActsSound
  <2>. QED
    BY <2>1, <2>2
<1>. QED
  BY <1>6, <1>7, <1>8, <1>9 DEF ConsoleInv

\* A new payload travels under a key nobody has used.
LEMMA FreshKeeps ==
  ASSUME ConsoleInv, NEW o \in Operators, Send(o),
         \/ hook[o][HookOf(task[o].kind)] = None
         \/ hook[o][HookOf(task[o].kind)].payload # PayloadOf(o)
  PROVE  ConsoleInv'
<1>0. ConsoleTypes /\ KeysDrawn /\ OneMeaning
  BY DEF ConsoleInv
<1>. DEFINE h0 == HookOf(task[o].kind)
            key == lastKey + 1
            copy == CHOOSE c \in Free(key) : TRUE
            new == [op |-> o, key |-> key, copy |-> copy, payload |-> PayloadOf(o),
                    current |-> TRUE]
            pair == [key |-> key, payload |-> PayloadOf(o)]
<1>1. h0 \in Hooks /\ task[o] # None
  BY <1>0, HookOfType DEF ConsoleTypes, Send, Dialog, Task
<1>2. keyFor(hook[o][h0], PayloadOf(o)) = key
  BY DEF keyFor
<1>3. lastKey \in Nat /\ key \in 1..MaxKeys
  <2>1. key <= desk.keys
    BY <1>2 DEF Send
  <2>. QED
    BY <1>0, <2>1, ConsoleAssumption DEF ConsoleTypes, ConsoleScope
<1>4. /\ hook' = [hook EXCEPT ![o][h0] = pair] /\ lastKey' = key
      /\ acts' = [acts EXCEPT ![o] = 0]
      /\ net' = Outdate(o) \cup {new} /\ call' = [call EXCEPT ![o] = [key |-> key, copy |-> copy]]
      /\ UNCHANGED <<org, view, task, store, recent, desk>>
  BY <1>2, <1>3 DEF Send
<1>5. /\ new \in Sent /\ new.op = o /\ new.key = key /\ new.payload = PayloadOf(o)
      /\ pair \in Held /\ pair.key = key /\ pair.payload = PayloadOf(o)
      /\ PayloadOf(o) \in Request /\ key > lastKey
      /\ [key |-> key, copy |-> copy] \in Attempt
  <2>1. Free(key) # {}
    BY <1>2 DEF Send
  <2>2. copy \in 1..MaxCopies
    BY <1>0, <2>1, FreeCopy
  <2>3. PayloadOf(o) \in Request /\ key > lastKey
    BY <1>1, <1>3, PayloadOfType
  <2>. HIDE DEF copy, key
  <2>. QED
    BY <1>3, <2>2, <2>3 DEF Sent, Held, Attempt
<1>. HIDE DEF h0, key, new, pair, copy
<1>6. /\ Outdate(o) \subseteq Sent
      /\ \A r \in Outdate(o) : r.op = o => ~r.current
      /\ \A r \in Outdate(o) :
           \E q \in net : /\ r.op = q.op /\ r.key = q.key /\ r.payload = q.payload
                          /\ r.current => q.current
  BY OutdateOutcome
<1>7. /\ hook' \in [Operators -> [Hooks -> Held \cup {None}]]
      /\ hook'[o][h0] = pair
      /\ \A p \in Operators, h \in Hooks : (p # o \/ h # h0) => hook'[p][h] = hook[p][h]
  BY <1>0, <1>1, <1>4, <1>5 DEF ConsoleTypes
<1>8. ConsoleTypes'
  <2>1. net' \subseteq Sent
    BY <1>4, <1>5, <1>6
  <2>2. call' \in [Operators -> Attempt \cup {None}] /\ acts' \in [Operators -> 0..1]
    BY <1>0, <1>3, <1>4, <1>5 DEF ConsoleTypes
  <2>3. lastKey' \in 0..MaxKeys
    BY <1>3, <1>4
  <2>. QED
    BY <1>0, <1>4, <1>7, <2>1, <2>2, <2>3 DEF ConsoleTypes
<1>9. KeysDrawn'
  <2>1. ASSUME NEW r \in net' PROVE r.key <= lastKey'
    <3>1. CASE r = new
      BY <1>3, <1>4, <1>5, <3>1
    <3>2. CASE r \in Outdate(o)
      <4>1. PICK q \in net : r.key = q.key
        BY <1>6, <3>2
      <4>2. q.key <= lastKey /\ q.key \in Nat
        BY <1>0 DEF KeysDrawn, ConsoleTypes, Sent
      <4>. QED
        BY <1>3, <1>4, <1>5, <4>1, <4>2
    <3>. QED
      BY <1>4, <3>1, <3>2
  <2>2. ASSUME NEW p \in Operators, NEW h \in Hooks, hook'[p][h] # None
        PROVE  hook'[p][h].key <= lastKey'
    <3>1. CASE p = o /\ h = h0
      BY <1>3, <1>4, <1>5, <1>7, <3>1
    <3>2. CASE p # o \/ h # h0
      <4>1. hook'[p][h] = hook[p][h] /\ hook[p][h] \in Held /\ hook[p][h].key <= lastKey
        BY <1>0, <1>7, <2>2, <3>2 DEF KeysDrawn, ConsoleTypes
      <4>2. hook[p][h].key \in Nat
        BY <4>1 DEF Held
      <4>. QED
        BY <1>3, <1>4, <1>5, <4>1, <4>2
    <3>. QED
      BY <3>1, <3>2
  <2>3. ASSUME NEW k \in 1..MaxKeys, store'[k] # None PROVE k <= lastKey'
    BY <1>0, <1>3, <1>4, <1>5, <2>3 DEF KeysDrawn
  <2>. QED
    BY <2>1, <2>2, <2>3 DEF KeysDrawn
<1>10. OneMeaning'
  <2>1. ASSUME NEW k \in 1..MaxKeys, NEW p \in Operators, NEW q \in Request, Carries(k, p, q)'
        PROVE  \/ Carries(k, p, q) /\ k # key
               \/ k = key /\ p = o /\ q = PayloadOf(o)
    <3>1. CASE \E r \in net' : r.key = k /\ r.op = p /\ r.payload = q
      <4>1. PICK r \in net' : r.key = k /\ r.op = p /\ r.payload = q
        BY <3>1
      <4>2. CASE r = new
        BY <1>5, <4>1, <4>2
      <4>3. CASE r \in Outdate(o)
        <5>1. PICK x \in net : r.op = x.op /\ r.key = x.key /\ r.payload = x.payload
          BY <1>6, <4>3
        <5>2. x.key <= lastKey
          BY <1>0 DEF KeysDrawn
        <5>. QED
          BY <1>3, <1>5, <4>1, <5>1, <5>2 DEF Carries
      <4>. QED
        BY <1>4, <4>2, <4>3
    <3>2. CASE \E h \in Hooks : hook'[p][h] # None /\ hook'[p][h].key = k /\ hook'[p][h].payload = q
      <4>1. PICK h \in Hooks : hook'[p][h] # None /\ hook'[p][h].key = k /\ hook'[p][h].payload = q
        BY <3>2
      <4>2. CASE p = o /\ h = h0
        BY <1>5, <1>7, <4>1, <4>2
      <4>3. CASE p # o \/ h # h0
        <5>1. hook'[p][h] = hook[p][h] /\ k <= lastKey
          BY <1>0, <1>7, <4>1, <4>3 DEF KeysDrawn
        <5>. QED
          BY <1>3, <1>5, <4>1, <5>1 DEF Carries
      <4>. QED
        BY <4>2, <4>3
    <3>3. CASE store[k] # None /\ store[k].op = p /\ store[k].payload = q
      <4>1. k <= lastKey
        BY <1>0, <3>3 DEF KeysDrawn
      <4>. QED
        BY <1>3, <1>5, <3>3, <4>1 DEF Carries
    <3>. QED
      BY <1>4, <2>1, <3>1, <3>2, <3>3 DEF Carries
  <2>2. ASSUME NEW k \in 1..MaxKeys, NEW o1 \in Operators, NEW o2 \in Operators,
               NEW p1 \in Request, NEW p2 \in Request,
               Carries(k, o1, p1)', Carries(k, o2, p2)'
        PROVE  o1 = o2 /\ p1 = p2
    <3>1. /\ (Carries(k, o1, p1) /\ k # key) \/ (k = key /\ o1 = o /\ p1 = PayloadOf(o))
          /\ (Carries(k, o2, p2) /\ k # key) \/ (k = key /\ o2 = o /\ p2 = PayloadOf(o))
      BY <2>1, <2>2
    <3>. QED
      BY <1>0, <3>1 DEF OneMeaning
  <2>. QED
    BY <2>2 DEF OneMeaning
<1>11. ASSUME NEW p \in Operators PROVE ActsSound(p)'
  <2>0. ActsSound(p) /\ acts'[o] = 0 /\ (p # o => acts'[p] = acts[p])
    BY <1>0, <1>4 DEF ConsoleInv, ConsoleTypes
  <2>1. CASE p # o
    <3>1. ASSUME NEW r \in net', r.op = p, r.current
          PROVE  \E q \in net : q.op = p /\ q.key = r.key /\ q.current
      BY <1>4, <1>5, <1>6, <2>1, <3>1
    <3>2. \A r, q \in net' : r.op = p /\ q.op = p /\ r.current /\ q.current => r.key = q.key
      BY <2>0, <3>1 DEF ActsSound
    <3>3. \A r \in net' : r.op = p /\ r.current /\ acts'[p] = 1 => store[r.key] # None
      BY <2>0, <2>1, <3>1 DEF ActsSound
    <3>4. ASSUME task[p] # None, hook[p][HookOf(task[p].kind)] # None
          PROVE  LET held == hook[p][HookOf(task[p].kind)] IN
                 /\ acts'[p] = 1 => store[held.key] # None
                 /\ \A r \in net' : r.op = p /\ r.current => r.key = held.key
      BY <2>0, <2>1, <3>1, <3>4 DEF ActsSound
    <3>5. hook'[p] = hook[p]
      BY <1>0, <1>4, <2>1 DEF ConsoleTypes
    <3>. QED
      BY <1>4, <3>2, <3>3, <3>4, <3>5 DEF ActsSound
  <2>2. CASE p = o
    <3>1. \A r \in net' : r.op = o /\ r.current => r.key = key
      BY <1>4, <1>5, <1>6
    <3>2. hook'[o][HookOf(task'[o].kind)].key = key
      BY <1>4, <1>5, <1>7 DEF h0
    <3>. QED
      BY <2>0, <2>2, <3>1, <3>2 DEF ActsSound
  <2>. QED
    BY <2>1, <2>2
<1>. QED
  BY <1>8, <1>9, <1>10, <1>11 DEF ConsoleInv

\* What an answer does to the browser it is for, if that browser still waits.
LEMMA AnswerOutcome ==
  ASSUME ConsoleInv, NEW r \in net, NEW body \in Organization, Answer(r, body)
  PROVE  /\ view' \in [Operators -> Organization]
         /\ task' \in [Operators -> Dialog \cup {None}]
         /\ hook' \in [Operators -> [Hooks -> Held \cup {None}]]
         /\ call' \in [Operators -> Attempt \cup {None}]
         /\ \A o \in Operators, h \in Hooks : hook'[o][h] = hook[o][h] \/ hook'[o][h] = None
         /\ \A o \in Operators : task'[o] = task[o] \/ task'[o] = None
<1>0. ConsoleTypes
  BY DEF ConsoleInv
<1>1. r.op \in Operators /\ HookOf(r.payload.kind) \in Hooks
  BY <1>0, HookOfType DEF ConsoleTypes, Sent, Request, Payload
<1>2. CASE Awaited(r)
  <2>1. /\ hook' = [hook EXCEPT ![r.op][HookOf(r.payload.kind)] = None]
        /\ task' = [task EXCEPT ![r.op] = None] /\ call' = [call EXCEPT ![r.op] = None]
        /\ view' = [view EXCEPT ![r.op] = body] \/ view' = view
    BY <1>2 DEF Answer
  <2>2. /\ hook' \in [Operators -> [Hooks -> Held \cup {None}]]
        /\ \A o \in Operators, h \in Hooks : hook'[o][h] = hook[o][h] \/ hook'[o][h] = None
    BY <1>1, <2>1, HookDropped
  <2>3. view' \in [Operators -> Organization]
    BY <1>0, <1>1, <2>1 DEF ConsoleTypes
  <2>4. /\ task' \in [Operators -> Dialog \cup {None}]
        /\ \A o \in Operators : task'[o] = task[o] \/ task'[o] = None
    BY <1>0, <1>1, <2>1 DEF ConsoleTypes
  <2>5. call' \in [Operators -> Attempt \cup {None}]
    BY <1>0, <1>1, <2>1 DEF ConsoleTypes
  <2>. QED
    BY <2>2, <2>3, <2>4, <2>5
<1>3. CASE ~Awaited(r)
  <2>1. UNCHANGED <<view, task, hook, call>>
    BY <1>3 DEF Answer
  <2>. QED
    BY <1>0, <2>1 DEF ConsoleTypes
<1>. QED
  BY <1>2, <1>3

\* A request is refused, or answered with what its key completed before.
LEMMA RefusalKeeps ==
  ASSUME ConsoleInv, NEW r \in net, net' = net \ {r}, Refusal(r), UNCHANGED <<lastKey, recent, desk>>
  PROVE  ConsoleInv'
<1>0. ConsoleTypes
  BY DEF ConsoleInv
<1>1. /\ call' \in [Operators -> Attempt \cup {None}]
      /\ UNCHANGED <<org, task, hook, view, store, acts>>
  BY <1>0 DEF ConsoleTypes, Refusal
<1>. QED
  BY <1>0, <1>1, ConsoleAside DEF ConsoleTypes

\* The answer of a recorded request is sent again.
LEMMA ReplayKeeps ==
  ASSUME ConsoleInv, NEW r \in net, net' = net \ {r}, store[r.key] # None,
         Answer(r, store[r.key].body), UNCHANGED <<org, store, acts, lastKey, recent, desk>>
  PROVE  ConsoleInv'
<1>0. ConsoleTypes
  BY DEF ConsoleInv
<1>1. store[r.key].body \in Organization
  BY <1>0 DEF ConsoleTypes, Sent, Kept
<1>2. /\ net' \subseteq Sent
      /\ \A x \in net' : \E q \in net : /\ x.op = q.op /\ x.key = q.key /\ x.payload = q.payload
                                        /\ x.current => q.current
  BY <1>0 DEF ConsoleTypes
<1>3. recent' \in [Operators -> BOOLEAN] /\ acts' \in [Operators -> 0..1]
  BY <1>0 DEF ConsoleTypes
<1>. QED
  BY <1>1, <1>2, <1>3, AnswerOutcome, ConsoleQuiet

\* The revision moves on within its bound.
LEMMA RevisionType ==
  ASSUME ConsoleInv, org.rev < desk.revs
  PROVE  [org EXCEPT !.rev = @ + 1] \in Organization
<1>1. org \in Organization /\ desk.revs \in 1..MaxRev /\ org.rev \in 1..MaxRev /\ MaxRev \in Nat
  BY ConsoleAssumption DEF ConsoleInv, ConsoleTypes, ConsoleScope, Organization
<1>2. org.rev + 1 \in 1..MaxRev
  BY <1>1
<1>. QED
  BY <1>1, <1>2 DEF Organization

\* A member proves their address.
LEMMA MemberKeeps ==
  ASSUME ConsoleInv, MemberVerifies
  PROVE  ConsoleInv'
<1>. DEFINE next == [org EXCEPT !.rev = @ + 1]
<1>0. next \in Organization
  BY RevisionType DEF MemberVerifies
<1>1. org' = [next EXCEPT !.ready = TRUE]
      /\ UNCHANGED <<view, task, hook, lastKey, call, net, store, recent, acts, desk>>
  BY DEF MemberVerifies, ConsoleInv, ConsoleTypes, Organization
<1>. HIDE DEF next
<1>2. org' \in Organization
  BY <1>0, <1>1 DEF Organization
<1>3. ConsoleTypes'
  BY <1>1, <1>2 DEF ConsoleInv, ConsoleTypes
<1>4. KeysDrawn' /\ OneMeaning' /\ \A o \in Operators : ActsSound(o)'
  BY <1>1 DEF ConsoleInv, KeysDrawn, OneMeaning, Carries, ActsSound
<1>. QED
  BY <1>3, <1>4 DEF ConsoleInv

\* The organization after a change.
LEMMA ChangedType ==
  ASSUME ConsoleInv, NEW p \in Request, org.rev < desk.revs
  PROVE  Changed(p) \in Organization
<1>0. org \in Organization
  BY DEF ConsoleInv, ConsoleTypes
<1>. DEFINE next == [org EXCEPT !.rev = @ + 1]
<1>1. next \in Organization
  BY <1>0, RevisionType
<1>2. p.kind \in Tasks /\ (p.kind = "update" => p.form \in Profiles)
  BY DEF Request, Payload
<1>. HIDE DEF next
<1>3. /\ [next EXCEPT !.status = "active"] \in Organization
      /\ [next EXCEPT !.status = "suspended",
                      !.invite = IF @ = "pending" THEN "revoked" ELSE @] \in Organization
      /\ p.kind = "update" => [next EXCEPT !.profile = p.form] \in Organization
      /\ [next EXCEPT !.invite = "pending"] \in Organization
      /\ [next EXCEPT !.invite = "revoked"] \in Organization
  BY <1>1, <1>2 DEF Organization
<1>. USE DEF next
<1>4. CASE p.kind \in {"approve", "reactivate"}
  BY <1>3, <1>4 DEF Changed
<1>5. CASE p.kind = "suspend"
  BY <1>3, <1>5 DEF Changed
<1>6. CASE p.kind = "update"
  BY <1>3, <1>6 DEF Changed
<1>7. CASE p.kind = "invite"
  BY <1>3, <1>7 DEF Changed
<1>8. CASE p.kind = "revoke"
  BY <1>3, <1>8 DEF Changed
<1>9. CASE p.kind \in {"resend", "recover"}
  BY <1>1, <1>9 DEF Changed
<1>. QED
  BY <1>2, <1>4, <1>5, <1>6, <1>7, <1>8, <1>9 DEF Tasks

\* A key completes: its payload has not acted before.
LEMMA CompletedKeeps ==
  ASSUME ConsoleInv, NEW r \in net, net' = net \ {r}, store[r.key] = None,
         NoEffect(r.payload) \/ org.rev < desk.revs,
         org' = IF NoEffect(r.payload) THEN org ELSE Changed(r.payload),
         acts' = IF r.current /\ ~NoEffect(r.payload)
                 THEN [acts EXCEPT ![r.op] = @ + 1] ELSE acts,
         store' = Completes(r, org'), Answer(r, org'), UNCHANGED <<lastKey, recent, desk>>
  PROVE  ConsoleInv'
<1>0. ConsoleTypes /\ KeysDrawn /\ OneMeaning
  BY DEF ConsoleInv
<1>1. r \in Sent /\ r.op \in Operators /\ r.key \in 1..MaxKeys /\ r.payload \in Request
      /\ r.key <= lastKey
  BY <1>0 DEF ConsoleTypes, Sent, KeysDrawn
<1>2. org' \in Organization
  BY <1>0, <1>1, ChangedType DEF ConsoleTypes
<1>. DEFINE entry == [op |-> r.op, payload |-> r.payload, body |-> org']
<1>3. entry \in Kept /\ entry # None /\ entry.op = r.op /\ entry.payload = r.payload
  <2>1. entry \in Kept
    BY <1>1, <1>2 DEF Kept
  <2>2. entry \in Stored
    BY <1>1, <1>2 DEF Stored, Request
  <2>. QED
    BY <2>1, <2>2, StoredAssumption
<1>4. store' = [store EXCEPT ![r.key] = entry]
  BY DEF Completes
<1>. HIDE DEF entry
<1>5. /\ store'[r.key] = entry /\ store' \in [1..MaxKeys -> Kept \cup {None}]
      /\ \A k \in 1..MaxKeys : k # r.key => store'[k] = store[k]
      /\ \A k \in 1..MaxKeys : store[k] # None => store'[k] # None
  BY <1>0, <1>1, <1>3, <1>4 DEF ConsoleTypes
<1>6. /\ view' \in [Operators -> Organization]
      /\ task' \in [Operators -> Dialog \cup {None}]
      /\ hook' \in [Operators -> [Hooks -> Held \cup {None}]]
      /\ call' \in [Operators -> Attempt \cup {None}]
      /\ \A o \in Operators, h \in Hooks : hook'[o][h] = hook[o][h] \/ hook'[o][h] = None
      /\ \A o \in Operators : task'[o] = task[o] \/ task'[o] = None
  BY <1>2, AnswerOutcome
<1>7. /\ r.current => acts[r.op] = 0
      /\ \A o \in Operators : acts'[o] = acts[o] \/ (o = r.op /\ r.current)
      /\ acts' \in [Operators -> 0..1]
  <2>1. ActsSound(r.op) /\ acts[r.op] \in 0..1
    BY <1>0, <1>1 DEF ConsoleInv, ConsoleTypes
  <2>2. r.current => acts[r.op] = 0
    BY <2>1 DEF ActsSound
  <2>. QED
    BY <1>0, <1>1, <2>2 DEF ConsoleTypes
<1>8. ConsoleTypes'
  BY <1>0, <1>2, <1>5, <1>6, <1>7 DEF ConsoleTypes
<1>9. KeysDrawn'
  BY <1>0, <1>1, <1>5, <1>6 DEF KeysDrawn
<1>10. OneMeaning'
  <2>1. ASSUME NEW k \in 1..MaxKeys, NEW o \in Operators, NEW p \in Request, Carries(k, o, p)'
        PROVE  Carries(k, o, p)
    <3>1. CASE \E q \in net' : q.key = k /\ q.op = o /\ q.payload = p
      BY <3>1 DEF Carries
    <3>2. CASE \E h \in Hooks : hook'[o][h] # None /\ hook'[o][h].key = k /\ hook'[o][h].payload = p
      BY <1>6, <3>2 DEF Carries
    <3>3. CASE store'[k] # None /\ store'[k].op = o /\ store'[k].payload = p
      BY <1>3, <1>5, <3>3 DEF Carries
    <3>. QED
      BY <2>1, <3>1, <3>2, <3>3 DEF Carries
  <2>. QED
    BY <1>0, <2>1, MeaningKept
<1>11. ASSUME NEW o \in Operators PROVE ActsSound(o)'
  <2>0. ActsSound(o)
    BY DEF ConsoleInv
  <2>1. \A q \in net' : q \in net /\ q.key \in 1..MaxKeys
    BY <1>0 DEF ConsoleTypes, Sent
  <2>2. \A x, q \in net' : x.op = o /\ q.op = o /\ x.current /\ q.current => x.key = q.key
    BY <2>0, <2>1 DEF ActsSound
  <2>3. ASSUME NEW q \in net', q.op = o, q.current, acts'[o] = 1 PROVE store'[q.key] # None
    <3>1. CASE acts'[o] = acts[o]
      BY <1>5, <2>0, <2>1, <2>3, <3>1 DEF ActsSound
    <3>2. CASE o = r.op /\ r.current
      BY <1>3, <1>5, <2>0, <2>1, <2>3, <3>2 DEF ActsSound
    <3>. QED
      BY <1>7, <3>1, <3>2
  <2>4. ASSUME task'[o] # None, hook'[o][HookOf(task'[o].kind)] # None
        PROVE  LET held == hook'[o][HookOf(task'[o].kind)] IN
               /\ acts'[o] = 1 => store'[held.key] # None
               /\ \A q \in net' : q.op = o /\ q.current => q.key = held.key
    <3>1. task'[o] = task[o] /\ HookOf(task[o].kind) \in Hooks
      BY <1>6, <2>4, HookOfType DEF Dialog, Task
    <3>2. hook'[o][HookOf(task'[o].kind)] = hook[o][HookOf(task[o].kind)]
      BY <1>6, <2>4, <3>1
    <3>. DEFINE held == hook[o][HookOf(task[o].kind)]
    <3>3. /\ acts[o] = 1 => store[held.key] # None
          /\ \A q \in net : q.op = o /\ q.current => q.key = held.key
          /\ held.key \in 1..MaxKeys
      BY <1>0, <2>0, <2>4, <3>1, <3>2 DEF ActsSound, ConsoleTypes, Held
    <3>. HIDE DEF held
    <3>4. acts'[o] = 1 => store'[held.key] # None
      BY <1>3, <1>5, <1>7, <3>3
    <3>. QED
      BY <2>1, <3>2, <3>3, <3>4 DEF held
  <2>. QED
    BY <2>2, <2>3, <2>4 DEF ActsSound
<1>. QED
  BY <1>8, <1>9, <1>10, <1>11 DEF ConsoleInv

\* The server's transaction for one request.
LEMMA ServeKeeps ==
  ASSUME ConsoleInv, NEW r \in net, Serve(r)
  PROVE  ConsoleInv'
<1>0. net' = net \ {r} /\ UNCHANGED <<lastKey, recent, desk>>
  BY DEF Serve
<1>1. CASE Refusal(r)
  BY <1>0, <1>1, RefusalKeeps
<1>2. CASE store[r.key] # None /\ Answer(r, store[r.key].body) /\ UNCHANGED <<org, store, acts>>
  BY <1>0, <1>2, ReplayKeeps
<1>3. CASE /\ store[r.key] = None /\ (NoEffect(r.payload) \/ org.rev < desk.revs)
           /\ org' = IF NoEffect(r.payload) THEN org ELSE Changed(r.payload)
           /\ acts' = IF r.current /\ ~NoEffect(r.payload)
                      THEN [acts EXCEPT ![r.op] = @ + 1] ELSE acts
           /\ store' = Completes(r, org') /\ Answer(r, org')
  BY <1>0, <1>3, CompletedKeeps
<1>. QED
  BY <1>1, <1>2, <1>3, Zenon DEF Serve

\* The console starts within its invariant.
LEMMA InitConsole == ConsoleInit => ConsoleInv
<1>. SUFFICES ASSUME ConsoleInit PROVE ConsoleInv
  OBVIOUS
<1>1. desk \in ConsoleScope
  BY ConsoleAssumption DEF ConsoleInit
<1>2. org \in Organization
  BY ConsoleAssumption DEF ConsoleInit, Organization, Profiles
<1>3. lastKey \in 0..MaxKeys
  BY ConsoleAssumption DEF ConsoleInit
<1>4. ConsoleTypes
  BY <1>1, <1>2, <1>3 DEF ConsoleInit, ConsoleTypes
<1>5. KeysDrawn /\ OneMeaning /\ \A o \in Operators : ActsSound(o)
  <2>1. /\ net = {} /\ \A o \in Operators, h \in Hooks : hook[o][h] = None
        /\ \A k \in 1..MaxKeys : store[k] = None
        /\ \A o \in Operators : task[o] = None
    BY DEF ConsoleInit
  <2>. QED
    BY <2>1 DEF KeysDrawn, OneMeaning, Carries, ActsSound
<1>. QED
  BY <1>4, <1>5 DEF ConsoleInv

\* Every step of the console keeps its invariant.
LEMMA NextConsole == ConsoleInv /\ [ConsoleNext]_consoleVars => ConsoleInv'
<1>. SUFFICES ASSUME ConsoleInv, [ConsoleNext]_consoleVars PROVE ConsoleInv'
  OBVIOUS
<1>0. desk.operators \subseteq Operators /\ desk.tasks \subseteq Tasks /\ desk.reasons \subseteq Reasons
  BY DEF ConsoleInv, ConsoleTypes, ConsoleScope
<1>1. CASE UNCHANGED consoleVars
  BY <1>1, ConsoleAside DEF consoleVars, ConsoleInv, ConsoleTypes
<1>2. ASSUME NEW o \in Operators, NEW kind \in desk.tasks, NEW reason \in desk.reasons \cup {None},
             OpenDialog(o, kind, reason)
      PROVE  ConsoleInv'
  BY <1>0, <1>2, OpenDialogKeeps
<1>3. ASSUME NEW o \in Operators, NEW reason \in desk.reasons, EditReason(o, reason)
      PROVE  ConsoleInv'
  BY <1>0, <1>3, EditReasonKeeps
<1>4. ASSUME NEW o \in Operators, NEW f \in Fields, EditField(o, f) PROVE ConsoleInv'
  BY <1>4, EditFieldKeeps
<1>5. ASSUME NEW o \in Operators, CloseDialog(o) PROVE ConsoleInv'
  BY <1>5, CloseDialogKeeps
<1>6. ASSUME NEW o \in Operators, Refetch(o) \/ GiveUp(o) \/ StepUp(o) PROVE ConsoleInv'
  BY <1>6, AsideKeeps
<1>7. ASSUME NEW o \in Operators, Send(o) PROVE ConsoleInv'
  <2>1. CASE /\ hook[o][HookOf(task[o].kind)] # None
             /\ hook[o][HookOf(task[o].kind)].payload = PayloadOf(o)
    BY <1>7, <2>1, RetryKeeps
  <2>2. CASE \/ hook[o][HookOf(task[o].kind)] = None
             \/ hook[o][HookOf(task[o].kind)].payload # PayloadOf(o)
    BY <1>7, <2>2, FreshKeeps
  <2>. QED
    BY <2>1, <2>2
<1>8. ASSUME NEW r \in net, LoseRequest(r) PROVE ConsoleInv'
  <2>1. r.op \in Operators
    BY DEF ConsoleInv, ConsoleTypes, Sent
  <2>. QED
    BY <1>8, <2>1, AsideKeeps
<1>9. ASSUME NEW r \in net, Serve(r) PROVE ConsoleInv'
  BY <1>9, ServeKeeps
<1>10. CASE ConsoleNext
  BY <1>0, <1>2, <1>3, <1>4, <1>5, <1>6, <1>7, <1>8, <1>9, <1>10, MemberKeeps, Zenon
  DEF ConsoleNext
<1>. QED
  BY <1>1, <1>10

\* Every variable of the console keeps its type, whatever operators, keys and revisions there
\* are.
THEOREM ConsoleTypeCorrect == ConsoleSpec => []ConsoleTypeOK
BY InitConsole, NextConsole, ConsoleInvImplies, PTL DEF ConsoleSpec

\* One confirmation acts once, however it is retried and however late its requests arrive, and
\* no request on its way carries a key that completed for something else (useIdempotencyKey
\* with idempotent_system_mutation).
THEOREM ActsOnceAlways == ConsoleSpec => []ActsOnce
BY InitConsole, NextConsole, ConsoleInvImplies, PTL DEF ConsoleSpec

-----------------------------------------------------------------------------
(* Account management                                                       *)

\* Account management as it is explored behaves as each of its three parts: whichever
\* part moves, the other two stay as they are. What is proved of a part holds of the whole.
THEOREM AccountsImplementParts == Spec => AdmissionSpec /\ AccessSpec /\ ConsoleSpec
<1>1. Init => AdmissionInit /\ AccessInit /\ ConsoleInit
  BY DEF Init
<1>2. [Next]_<<admissionVars, accessVars, consoleVars, part>> =>
        [AdmissionNext]_admissionVars /\ [AccessNext]_accessVars /\ [ConsoleNext]_consoleVars
  BY DEF Next
<1>. QED
  BY <1>1, <1>2, PTL DEF Spec, AdmissionSpec, AccessSpec, ConsoleSpec

\* Links, requests, accounts, sessions, tokens and the operators' confirmations hold values
\* of their kinds, whatever instance is explored.
THEOREM AccountsTypeCorrect == Spec => []AccountsTypeOK
<1>1. AdmissionTypeOK /\ AccessTypeOK /\ ConsoleTypeOK => AccountsTypeOK
  BY DEF AccountsTypeOK
<1>. QED
  BY <1>1, AccountsImplementParts, AdmissionTypeCorrect, AccessTypeCorrect, ConsoleTypeCorrect, PTL

=============================================================================

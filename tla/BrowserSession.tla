--------------------------- MODULE BrowserSession ---------------------------
(***************************************************************************)
(* The signed-in identity of a browser: several tabs of the application     *)
(* share one HttpOnly session cookie and each keeps a copy of who is signed *)
(* in (frontend/src/auth/AuthContext.tsx, lib/authSessionEpoch.ts and the    *)
(* request pipeline of lib/api.ts).                                         *)
(*                                                                         *)
(* A synchronous run of JavaScript is one action. The code's counters       *)
(* (generation, session epoch, identity intent, local operation) are only   *)
(* ever compared with a snapshot a pending operation took, so an operation  *)
(* carries one flag for each: "unchanged since my snapshot".                *)
(***************************************************************************)
EXTENDS Integers, Sequences, FiniteSets, FiniteSetsExt

CONSTANTS
  Tab, User, NoUser,
  NoTab,    \* nobody holds the origin-wide lock
  Scopes    \* what the behaviours of a run may contain; each is bound by one of them

AllIdentityKind == {"login", "temporary", "mfa"}
Kind == {"me", "logout", "rotate", "reset"} \cup AllIdentityKind
Why == {"hydrate", "refresh", "retry", "reconcile", "user"}
Answer == {"none", "session", "anonymous", "mfa", "password", "choose", "refused", "ok", "lost"}

Event == {"clicks", "polls", "lost", "ended", "closed"}

\* hydrating are the tabs still loading at the start, requests the identity requests and
\* session rotations users begin; the rest bounds what users start, ordinary requests,
\* lost requests or answers, sessions the server ends by itself and closed tabs.
ASSUME SessionAssumption ==
  /\ NoUser \notin User
  /\ NoTab \notin Tab
  /\ \A s \in Scopes :
       /\ s.hydrating \subseteq Tab
       /\ s.requests \subseteq AllIdentityKind \cup {"rotate", "reset"}
       /\ \A k \in Event : s[k] \in Nat

VARIABLES
  tab,     \* the state of each tab
  inbox,   \* boundary messages on their way to a tab, oldest first
  lock,    \* the tab that holds the Web Lock of the session cookie
  cookie,  \* the user the server recognizes by the browser's cookie
  spent,   \* how much of each bound is used up
  scope    \* the one of Scopes this behaviour keeps to

vars == <<tab, inbox, lock, cookie, spent, scope>>

Spend(k) == spent[k] < scope[k] /\ spent' = [spent EXCEPT ![k] = @ + 1]

\* Mutant: a sign-in is not announced.
BroadcastsSignOut(kind) == kind \in {"logout", "reset"}

\* Requests that announce a change of identity to the other tabs, and requests whose
\* success starts a new session epoch.
Broadcasts(kind) == kind \in {"login", "temporary", "mfa", "logout", "reset"}
Advances(kind) == kind \in {"rotate", "reset"}

-----------------------------------------------------------------------------
(* The state of a tab                                                       *)

\* A tab's user is the identity it remembers (identityRef); the error screen only hides it.

Operation(id, seat, kind, why, user) ==
  [id |-> id, seat |-> seat, kind |-> kind, why |-> why, user |-> user,
   phase |-> IF seat = 0 THEN "barrier" ELSE "queued", answer |-> "none",
   gen |-> TRUE, epoch |-> TRUE, intent |-> TRUE, local |-> TRUE]

NextId(s) == 1 + Max({0} \cup {o.id : o \in s.ops})
NextSeat(s) == 1 + Max({0} \cup {o.seat : o \in s.ops})

NoPoll == [phase |-> "none", epoch |-> FALSE]

\* Counters move on: every snapshot of them is out of date.
Advance(s, counters) ==
  [s EXCEPT !.ops = {[o EXCEPT !.gen = @ /\ "gen" \notin counters,
                               !.epoch = @ /\ "epoch" \notin counters,
                               !.intent = @ /\ "intent" \notin counters,
                               !.local = @ /\ "local" \notin counters] : o \in @},
            !.poll.epoch = @ /\ "epoch" \notin counters]

\* Mutant: the signed-in screen stays while its identity is forgotten.
KeepsStatus(s) ==
  [Advance(s, {"gen", "intent"}) EXCEPT !.user = NoUser, !.challenge = FALSE]

ClearSessionState(s) ==
  [Advance(s, {"gen", "intent"}) EXCEPT
     !.user = NoUser, !.challenge = FALSE, !.status = "anonymous"]

ApplySession(s, u) ==
  [s EXCEPT !.user = u, !.challenge = FALSE, !.status = "authenticated"]

\* beginAuthRequest followed by api.me
StartMe(s, why) ==
  LET begun == Advance(s, {"gen"}) IN
  [begun EXCEPT !.ops = @ \cup {Operation(NextId(begun), NextSeat(begun), "me", why, NoUser)}]

\* Mutant: a failed sign-in leaves the screen as it was.
KeepsLoading(s, o) == s

\* A failed or paused sign-in must not leave the screen loading.
SettleWithoutSession(s, o) ==
  IF o.gen /\ s.user = NoUser THEN [s EXCEPT !.status = "anonymous"] ELSE s

Without(s, o) == [s EXCEPT !.ops = @ \ {o}]
Replace(s, o, p) == [s EXCEPT !.ops = (@ \ {o}) \cup {p}]

Peers(t) == {p \in Tab \ {t} : tab[p].open}
Post(t, box, phase) ==
  [p \in Tab |-> IF p \in Peers(t) THEN Append(box[p], [phase |-> phase, from |-> t]) ELSE box[p]]

\* The sign-outs begun before an operation are over.
BarrierIsOver(s, o) == \A l \in s.ops : l.kind = "logout" => l.id >= o.id

\* An await of a promise that is already settled resumes before any other event.
Idle(t) ==
  tab[t].open /\ \A o \in tab[t].ops : o.phase = "barrier" => ~BarrierIsOver(tab[t], o)

-----------------------------------------------------------------------------
(* What users and timers start                                              *)

\* refreshSession on focus or by timer, and retrySession from the error screen.
Refresh(t) ==
  /\ Idle(t)
  /\ tab[t].status = "authenticated"
  /\ Spend("clicks")
  /\ tab' = [tab EXCEPT ![t] = StartMe(@, "refresh")]
  /\ UNCHANGED <<inbox, lock, cookie>>

Retry(t) ==
  /\ Idle(t)
  /\ tab[t].status = "unavailable"
  /\ tab' = [tab EXCEPT ![t] = [StartMe(@, "retry") EXCEPT !.status = "loading"]]
  /\ UNCHANGED <<inbox, lock, cookie, spent>>

\* login, completeTemporaryPassword and verifyMfa up to the wait for the last logout.
BeginIdentity(t, kind, u) ==
  /\ Idle(t)
  /\ tab[t].status # "authenticated"
  /\ kind = "temporary" <=> tab[t].challenge
  /\ kind = "mfa" => tab[t].mfa
  /\ Spend("clicks")
  /\ LET s == Advance(tab[t], {"intent", "local", "epoch", "gen"})
         o == Operation(NextId(s), 0, kind, "user", u)
     IN tab' = [tab EXCEPT ![t] = [s EXCEPT !.ops = @ \cup {o}]]
  /\ UNCHANGED <<inbox, lock, cookie>>

\* Local state clears at once; the remote sign-out follows.
Logout(t) ==
  /\ Idle(t)
  /\ tab[t].status = "authenticated" \/ tab[t].challenge
  /\ Spend("clicks")
  /\ LET s == ClearSessionState(Advance(tab[t], {"local", "epoch"}))
         o == Operation(NextId(s), 0, "logout", "user", NoUser)
     IN tab' = [tab EXCEPT ![t] = [s EXCEPT !.ops = @ \cup {o}]]
  /\ UNCHANGED <<inbox, lock, cookie>>

\* changePassword, revokeSession and signOutEverywhere, or resetPassword from a link.
RotateSession(t, kind, u) ==
  /\ Idle(t)
  /\ kind = "rotate" => tab[t].status = "authenticated" /\ u = tab[t].user
  /\ Spend("clicks")
  /\ LET s == Advance(tab[t], {"epoch"})
         o == Operation(NextId(s), NextSeat(s), kind, "user", u)
     IN tab' = [tab EXCEPT ![t] = [s EXCEPT !.ops = @ \cup {o}]]
  /\ UNCHANGED <<inbox, lock, cookie>>

\* A superseded attempt is abandoned; the newest one is rebased and queued.
PassBarrier(t, o) ==
  /\ o.phase = "barrier"
  /\ BarrierIsOver(tab[t], o)
  /\ LET s == Advance(Without(tab[t], o), {"epoch", "gen"})
         queued == [o EXCEPT !.phase = "queued", !.seat = NextSeat(tab[t]), !.gen = TRUE,
                             !.epoch = TRUE, !.intent = TRUE]
         kept == o.local /\ (o.kind = "temporary" => tab[t].challenge)
     IN tab' = [tab EXCEPT ![t] =
                  IF o.kind = "logout" THEN Replace(@, o, queued)
                  ELSE IF kept THEN [s EXCEPT !.ops = @ \cup {queued}]
                  ELSE Without(@, o)]
  /\ UNCHANGED <<inbox, lock, cookie, spent>>

-----------------------------------------------------------------------------
(* The request pipeline                                                     *)

\* The tab's queue and the origin-wide lock let one cookie request through at a time, and
\* the continuation of a request runs before the lock is granted for the next one. An
\* identity request announces itself before it is sent.
Send(t, o) ==
  /\ Idle(t) /\ o.phase = "queued"
  /\ \A p \in tab[t].ops : p.phase = "sent" \/ p.phase = "queued" => o.seat <= p.seat
  /\ \A p \in tab[t].ops : p.phase # "answered"
  /\ lock = NoTab
  /\ lock' = t
  /\ LET others == Without(tab[t], o)
         s == IF Broadcasts(o.kind) THEN Advance(others, {"epoch"}) ELSE others
         sent == [o EXCEPT !.phase = "sent", !.epoch = TRUE]
     IN tab' = [tab EXCEPT ![t] = [s EXCEPT !.ops = @ \cup {sent}]]
  /\ inbox' = IF Broadcasts(o.kind) THEN Post(t, inbox, "start") ELSE inbox
  /\ UNCHANGED <<cookie, spent>>

\* What the server may answer, and whom the cookie names afterwards.
Outcome(o) ==
  CASE o.kind = "me" ->
         {IF cookie = NoUser THEN <<"anonymous", NoUser>> ELSE <<"session", cookie>>}
    [] o.kind = "login" ->
         {<<"session", o.user>>, <<"mfa", cookie>>, <<"password", NoUser>>,
          <<"choose", NoUser>>, <<"refused", cookie>>}
    [] o.kind = "temporary" -> {<<"session", o.user>>, <<"mfa", cookie>>, <<"refused", cookie>>}
    [] o.kind = "mfa" -> {<<"session", o.user>>, <<"refused", cookie>>}
    [] o.kind = "logout" -> {<<"ok", NoUser>>}
    [] o.kind = "rotate" ->
         IF cookie = NoUser THEN {<<"anonymous", NoUser>>}
         ELSE {<<"ok", cookie>>, <<"ok", NoUser>>, <<"refused", cookie>>}
    [] o.kind = "reset" ->
         {<<"ok", IF cookie = o.user THEN NoUser ELSE cookie>>, <<"refused", cookie>>}

\* Lost before the server saw it, or after the server rotated the session.
Lost(o) ==
  {<<"lost", cookie>>} \cup (IF o.kind = "me" THEN {} ELSE {<<"lost", NoUser>>})

\* publishAuthSessionTransitionSettled in the finally block.
Settled(t, o, answer, box) ==
  IF Broadcasts(o.kind) THEN Post(t, box, "settled") ELSE box

\* The response arrives: the cookie is installed, a new epoch is published here and to
\* the other tabs, and the lock is released.
Receive(t, o, outcome) ==
  LET answer == outcome[1]
      boundary == Advances(o.kind) /\ answer = "ok"
      done == [o EXCEPT !.phase = "answered", !.answer = answer, !.seat = 0,
                        !.user = IF answer = "session" THEN outcome[2] ELSE o.user]
      s0 == Replace(tab[t], o, done)
      s1 == IF boundary
            THEN StartMe([ClearSessionState(Advance(s0, {"epoch"})) EXCEPT
                            !.status = "loading", !.external = {}], "reconcile")
            ELSE s0
      s2 == IF Broadcasts(o.kind) THEN Advance(s1, {"epoch"}) ELSE s1
  IN
  /\ Idle(t) /\ o.phase = "sent"
  /\ IF answer = "lost" THEN Spend("lost") ELSE UNCHANGED spent
  /\ cookie' = outcome[2]
  /\ lock' = NoTab
  /\ tab' = [tab EXCEPT ![t] = s2]
  /\ inbox' = Settled(t, o, answer, IF boundary THEN Post(t, inbox, "boundary") ELSE inbox)

-----------------------------------------------------------------------------
(* What an answer does to the tab                                           *)

\* Mutant: an answer is committed whatever the user did in the meantime.
AlwaysCurrent(o) == TRUE

IsCurrent(o) == o.gen /\ o.epoch /\ o.intent

\* commitSession, or what an anonymous answer and a failed one do.
SettleMe(t, o) ==
  LET s == Without(tab[t], o)
      forget == o.answer = "anonymous" /\ o.epoch /\ o.intent
      public == forget /\ o.why # "reconcile"
  IN
  /\ tab' = [tab EXCEPT ![t] =
       CASE o.answer = "session" /\ IsCurrent(o) ->
              ApplySession(Advance(s, {"epoch"}), o.user)
         [] forget -> ClearSessionState(Advance(s, {"epoch"}))
         [] o.answer = "lost" /\ IsCurrent(o) /\ o.why # "refresh" ->
              [s EXCEPT !.status = "unavailable"]
         [] OTHER -> s]
  /\ inbox' = IF public THEN Post(t, inbox, "boundary") ELSE inbox

\* The continuations of login, completeTemporaryPassword and verifyMfa.
SettleIdentity(t, o) ==
  LET s == Without(tab[t], o)
      superseded == o.kind = "temporary" /\ o.answer \in {"session", "mfa"}
      paused == [s EXCEPT !.mfa = @ \/ o.answer = "mfa",
                          !.challenge = @ /\ ~(o.kind = "temporary" /\ o.answer = "mfa")]
  IN
  /\ tab' = [tab EXCEPT ![t] =
       CASE ~o.gen /\ (o.answer = "session" \/ superseded) -> StartMe(s, "reconcile")
         [] ~o.gen /\ o.answer \in {"password", "choose"} -> s
         [] o.gen /\ o.answer = "session" -> [ApplySession(s, o.user) EXCEPT !.mfa = FALSE]
         [] o.gen /\ o.answer = "password" -> [ClearSessionState(s) EXCEPT !.challenge = TRUE]
         [] o.gen /\ o.answer = "choose" -> ClearSessionState(s)
         [] o.answer \in {"mfa", "refused", "lost"} /\ ~(~o.gen /\ superseded) ->
              SettleWithoutSession(paused, o)]
  /\ UNCHANGED inbox

Settle(t, o) ==
  /\ Idle(t) /\ o.phase = "answered"
  /\ \/ o.kind = "me" /\ SettleMe(t, o)
     \/ o.kind \in AllIdentityKind /\ SettleIdentity(t, o)
     \/ /\ o.kind \in {"logout", "rotate", "reset"}
        /\ tab' = [tab EXCEPT ![t] = Without(@, o)]
        /\ UNCHANGED inbox
  /\ UNCHANGED <<lock, cookie, spent>>

-----------------------------------------------------------------------------
(* Ordinary requests and boundary messages                                  *)

SendPoll(t) ==
  /\ Idle(t)
  /\ tab[t].status = "authenticated" /\ tab[t].poll.phase = "none"
  /\ Spend("polls")
  /\ tab' = [tab EXCEPT ![t].poll = [phase |-> "sent", epoch |-> TRUE]]
  /\ UNCHANGED <<inbox, lock, cookie>>

\* The server decides by the cookie it is sent; its answer may be late.
AnswerPoll(t) ==
  /\ tab[t].poll.phase = "sent"
  /\ tab' = [tab EXCEPT ![t].poll.phase = IF cookie = NoUser THEN "denied" ELSE "ok"]
  /\ UNCHANGED <<inbox, lock, cookie, spent>>

\* Mutant: a 401 ends the session whenever the request was sent.
AnyEpochExpires(s) == s.poll.phase = "denied"

\* A 401 ends the session unless the request belongs to an older one.
Expires(s) ==
  s.poll.phase = "denied" /\ s.poll.epoch /\ \A o \in s.ops : ~Advances(o.kind)

ReceivePoll(t) ==
  LET s == [tab[t] EXCEPT !.poll = NoPoll] IN
  /\ Idle(t) /\ tab[t].poll.phase \in {"denied", "ok"}
  /\ tab' = [tab EXCEPT ![t] =
               IF Expires(tab[t]) THEN ClearSessionState(Advance(s, {"epoch"})) ELSE s]
  /\ inbox' = IF Expires(tab[t]) THEN Post(t, inbox, "boundary") ELSE inbox
  /\ UNCHANGED <<lock, cookie, spent>>

\* The subscriber of boundary messages: forget the identity, then ask the server once
\* no announced transition is open.
ReceiveBoundary(t) ==
  LET m == Head(inbox[t])
      open == CASE m.phase = "start" -> tab[t].external \cup {m.from}
                [] m.phase = "settled" -> tab[t].external \ {m.from}
                [] m.phase = "boundary" -> {}
      s == [ClearSessionState(Advance(tab[t], {"epoch"})) EXCEPT
              !.status = "loading", !.external = open]
  IN
  /\ Idle(t) /\ inbox[t] # <<>>
  /\ inbox' = [inbox EXCEPT ![t] = Tail(@)]
  /\ tab' = [tab EXCEPT ![t] = IF open = {} THEN StartMe(s, "reconcile") ELSE s]
  /\ UNCHANGED <<lock, cookie, spent>>

\* The announced transition outlived the longest a request can take.
WatchdogExpires(t, p) ==
  /\ p \in tab[t].external
  /\ ~tab[p].open
  /\ \A n \in DOMAIN inbox[t] : inbox[t][n].from # p

Watchdog(t, p) ==
  /\ Idle(t)
  /\ WatchdogExpires(t, p)
  /\ LET s == [tab[t] EXCEPT !.external = @ \ {p}] IN
     tab' = [tab EXCEPT ![t] = IF s.external = {} THEN StartMe(s, "reconcile") ELSE s]
  /\ UNCHANGED <<inbox, lock, cookie, spent>>

\* The server ends the session: it expires, or its organization is suspended.
EndSession ==
  /\ Spend("ended")
  /\ cookie # NoUser
  /\ cookie' = NoUser
  /\ UNCHANGED <<tab, inbox, lock>>

\* A tab is closed; a request under way may still take effect.
CloseTab(t) ==
  /\ tab[t].open
  /\ Spend("closed")
  /\ tab' = [tab EXCEPT ![t].open = FALSE, ![t].status = "anonymous", ![t].user = NoUser,
                        ![t].ops = {}, ![t].poll = NoPoll, ![t].external = {}]
  /\ inbox' = [inbox EXCEPT ![t] = <<>>]
  /\ lock' = IF lock = t THEN NoTab ELSE lock
  /\ \/ UNCHANGED cookie
     \/ \E o \in tab[t].ops : o.phase = "sent" /\ \E out \in Outcome(o) : cookie' = out[2]

-----------------------------------------------------------------------------
\* A tab starts by asking the server who is signed in; the others have their answer.
Blank == [open |-> TRUE, status |-> "anonymous", user |-> NoUser, challenge |-> FALSE,
          mfa |-> FALSE, external |-> {}, poll |-> NoPoll, ops |-> {}]

Init ==
  /\ scope \in Scopes
  /\ cookie \in User \cup {NoUser}
  /\ tab = [t \in Tab |->
              CASE t \in scope.hydrating -> StartMe([Blank EXCEPT !.status = "loading"], "hydrate")
                [] t \notin scope.hydrating /\ cookie # NoUser -> ApplySession(Blank, cookie)
                [] OTHER -> Blank]
  /\ inbox = [t \in Tab |-> <<>>]
  /\ lock = NoTab
  /\ spent = [k \in Event |-> 0]

UserNext ==
  \E t \in Tab :
    \/ Refresh(t)
    \/ Logout(t)
    \/ CloseTab(t)
    \/ \E u \in User :
         \/ \E kind \in scope.requests \cap AllIdentityKind : BeginIdentity(t, kind, u)
         \/ \E kind \in scope.requests \ AllIdentityKind : RotateSession(t, kind, u)

Step(t) ==
  \/ \E o \in tab[t].ops :
       \/ PassBarrier(t, o)
       \/ Send(t, o)
       \/ \E out \in Outcome(o) \cup Lost(o) : Receive(t, o, out)
       \/ Settle(t, o)
  \/ ReceiveBoundary(t)
  \/ \E p \in Tab : Watchdog(t, p)

Next ==
  /\ \/ UserNext
     \/ EndSession
     \/ \E t \in Tab : Step(t) \/ Retry(t) \/ SendPoll(t) \/ AnswerPoll(t) \/ ReceivePoll(t)
  /\ UNCHANGED scope

Spec == Init /\ [][Next]_vars

-----------------------------------------------------------------------------
(* Properties                                                               *)

\* Tabs, operations and messages hold values of their kinds, and the lock is held by a
\* tab with a request under way.
TypeOK ==
  /\ \A t \in Tab :
       /\ tab[t].status \in {"loading", "authenticated", "anonymous", "unavailable"}
       /\ tab[t].user \in User \cup {NoUser}
       /\ tab[t].status = "authenticated" => tab[t].user # NoUser
       /\ tab[t].external \subseteq Tab \ {t}
       /\ \A o \in tab[t].ops :
            o.kind \in Kind /\ o.why \in Why /\ o.answer \in Answer
            /\ o.phase \in {"barrier", "queued", "sent", "answered"}
       /\ lock = t <=> \E o \in tab[t].ops : o.phase = "sent"
  /\ cookie \in User \cup {NoUser}

Quiet == \A t \in Tab : tab[t].open => tab[t].ops = {} /\ inbox[t] = <<>> /\ tab[t].external = {}

\* Once all requests and messages are done, no tab shows an identity the cookie does not
\* carry: work of one user is never sent under the session of another. Only a session
\* the server ended by itself, or without its answer being seen, may still be on display.
TabsAgreeWithCookie ==
  Quiet => \A t \in Tab :
    tab[t].status = "authenticated" =>
      \/ tab[t].user = cookie
      \/ cookie = NoUser /\ (spent.ended > 0 \/ spent.lost > 0 \/ spent.closed > 0)

\* No late answer changes who a tab takes itself for. It only becomes signed in as whoever
\* the cookie names at that moment, and it only leaves its signed-in screen by itself when
\* the session has ended, unless a message that makes it ask again is already on its way:
\* a session that was signed out is not revived, and a denial that belongs to an earlier
\* session does not end this one.
FollowsCookie ==
  [][\A t \in Tab :
       /\ tab'[t].status = "authenticated" /\ tab[t].status # "authenticated" =>
            \/ tab'[t].user = cookie
            \/ inbox[t] # <<>>
            \/ spent.ended > 0 \/ spent.lost > 0 \/ spent.closed > 0
       /\ /\ tab[t].status = "authenticated" /\ tab'[t].status = "anonymous"
          /\ tab'[t].open
          /\ \A o \in tab'[t].ops : o.kind # "logout"
          => cookie = NoUser \/ inbox[t] # <<>>]_vars

\* The answer of an operation will be used, as far as the tab knows now.
Ends(o) ==
  \/ o.kind = "me" /\ o.gen /\ o.intent /\ (o.epoch \/ o.phase = "queued")
  \/ o.kind \in AllIdentityKind /\ (o.gen \/ o.phase = "barrier" \/ o.answer = "session")

\* A tab on its loading screen has something to end it: a message to handle, a request
\* that supersedes the others, or an announced transition whose tab is alive to report
\* its end or whose watchdog may fire. Two loading screens of the code have not and are
\* set aside: that of a tab which began a session rotation or a password reset while it
\* loaded and was refused, and, after a lost answer, that of a tab which still remembers
\* an identity.
LoadingIsAwaited ==
  scope.requests \subseteq AllIdentityKind =>
    \A t \in Tab :
      tab[t].status = "loading" /\ (spent.lost = 0 \/ tab[t].user = NoUser) =>
        \/ inbox[t] # <<>>
        \/ \E o \in tab[t].ops : Ends(o)
        \/ \E p \in tab[t].external :
             WatchdogExpires(t, p) \/ \E o \in tab[p].ops : o.phase = "sent"

=============================================================================

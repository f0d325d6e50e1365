------------------------ MODULE BrowserSessionProofs ------------------------
(***************************************************************************)
(* Proofs about the signed-in identity of a browser (BrowserSession), for   *)
(* any number of tabs and users and every bound on what they do.            *)
(***************************************************************************)
EXTENDS BrowserSession, FiniteFacts, TLAPS

-----------------------------------------------------------------------------
(* Shapes                                                                    *)

Phase == {"barrier", "queued", "sent", "answered"}
Account == User \cup {NoUser}
Op == [id : Nat, seat : Nat, kind : Kind, why : Why, user : Account, phase : Phase,
       answer : Answer, gen : BOOLEAN, epoch : BOOLEAN, intent : BOOLEAN, local : BOOLEAN]
Poll == [phase : {"none", "sent", "denied", "ok"}, epoch : BOOLEAN]
TabState ==
  [open : BOOLEAN, status : {"loading", "authenticated", "anonymous", "unavailable"},
   user : Account, challenge : BOOLEAN, mfa : BOOLEAN, external : SUBSET Tab, poll : Poll,
   ops : SUBSET Op]
Message == [phase : {"start", "settled", "boundary"}, from : Tab]

\* Requests that change the identity, and the ones whose answer may be committed.
Changes == AllIdentityKind \cup {"logout"}
Asks == AllIdentityKind \cup {"me"}

\* Under way or answered: the lock and the continuation see to it that it is one at a time.
Out(o) == o.phase \in {"sent", "answered"}

-----------------------------------------------------------------------------
(* The inductive invariant                                                   *)

\* An operation by itself: it has an answer once it is answered, one its request can have.
OpSound(o) ==
  /\ o.kind \in AllIdentityKind => o.user \in User
  /\ o.phase = "answered" <=> o.answer # "none"
  /\ o.answer = "session" => o.user \in User
  /\ o.kind = "me" =>
       /\ o.phase # "barrier"
       /\ o.phase = "answered" => o.answer \in {"session", "anonymous", "lost"}
  /\ o.kind \in AllIdentityKind /\ o.phase = "answered" =>
       o.answer \in {"session", "mfa", "password", "choose", "refused", "lost"}

\* The operations of a tab: one at a time is out, one sign-out at a time is pending.
OpsSound(s) ==
  /\ IsFiniteSet(s.ops)
  /\ \A o \in s.ops : OpSound(o)
  /\ \A o, p \in s.ops : Out(o) /\ Out(p) => o = p
  /\ \A o, p \in s.ops : o.kind = "logout" /\ p.kind = "logout" => o = p

\* The queue: a request that is still of the current generation was begun after every
\* change of identity that waits, so it waits behind it.
QueueSound(s) ==
  /\ \A a, o \in s.ops :
       a.kind \in Changes /\ a.phase = "queued" /\ o # a /\ o.kind \in Asks /\ o.gen = TRUE =>
         o.phase = "barrier" \/ (o.phase = "queued" /\ o.seat > a.seat)
  /\ \A a, o \in s.ops :
       a.kind = "logout" /\ a.phase = "barrier" /\ o # a => o.gen = FALSE /\ o.local = FALSE

\* While a change of identity is pending nobody is signed in, and no ordinary request of an
\* earlier session can end the next one.
PendingSound(s) ==
  /\ s.status = "authenticated" => s.user \in User
  /\ \A o \in s.ops :
       /\ o.kind \in Changes /\ o.phase # "answered" => s.status # "authenticated"
       /\ o.kind = "logout" => s.status # "authenticated" /\ s.challenge = FALSE
       /\ o.kind \in Changes /\ o.phase = "sent" => s.poll.epoch = FALSE
  /\ s.poll.phase = "none" => s.poll.epoch = FALSE

\* A closed tab has nothing to do.
ClosedSound(s, box) ==
  s.open = FALSE =>
    s.ops = {} /\ s.external = {} /\ s.status = "anonymous" /\ s.poll = NoPoll /\ box = <<>>

Good(s) == s \in TabState /\ OpsSound(s) /\ QueueSound(s) /\ PendingSound(s)

\* An answer that is going to be applied, and whom it says the cookie names.
Live(o) ==
  /\ o.phase = "answered"
  /\ \/ o.kind = "me" /\ o.answer = "session" /\ o.gen = TRUE /\ o.epoch = TRUE /\ o.intent = TRUE
     \/ o.kind = "me" /\ o.answer = "anonymous" /\ o.epoch = TRUE /\ o.intent = TRUE
     \/ o.kind \in AllIdentityKind /\ o.answer \in {"session", "password", "choose"} /\ o.gen = TRUE

Says(o) == IF o.answer = "session" THEN o.user ELSE NoUser

\* A session ended without the tabs being told.
Unseen == cookie = NoUser /\ (spent.ended > 0 \/ spent.lost > 0 \/ spent.closed > 0)

\* Whom a tab may take itself for.
Names == IF Unseen THEN Account ELSE {cookie}

\* What a tab shows or is about to apply is what the cookie names, unless it will be told.
Agree(s, c, names) ==
  /\ s.status = "authenticated" => s.user \in names
  /\ \A o \in s.ops : Live(o) => Says(o) \in names
  /\ s.poll.phase = "denied" /\ s.poll.epoch = TRUE => c = NoUser

Agrees(t) == inbox[t] = <<>> => Agree(tab[t], cookie, Names)

\* While a change of identity is under way its peers have been told and forgot theirs.
Forgetful(s) ==
  /\ s.status # "authenticated"
  /\ \A o \in s.ops : ~Live(o)
  /\ s.poll.epoch = FALSE

Forgot(t) == inbox[t] = <<>> => Forgetful(tab[t])

Sending(s) == \E o \in s.ops : o.phase = "sent"
Announcing(s) == \E o \in s.ops : o.phase = "sent" /\ Broadcasts(o.kind)

Types ==
  /\ scope \in Scopes
  /\ tab \in [Tab -> TabState]
  /\ inbox \in [Tab -> Seq(Message)]
  /\ \A t \in Tab : \A n \in DOMAIN inbox[t] : inbox[t][n].from # t
  /\ \A t \in Tab : t \notin tab[t].external
  /\ lock \in Tab \cup {NoTab}
  /\ cookie \in Account
  /\ spent \in [Event -> Nat]

SessionInv ==
  /\ Types
  /\ \A t \in Tab : Good(tab[t]) /\ ClosedSound(tab[t], inbox[t])
  /\ \A t \in Tab : lock = t <=> Sending(tab[t])
  /\ \A t \in Tab : Agrees(t)
  /\ \A p \in Tab : Announcing(tab[p]) => \A t \in Tab \ {p} : Forgot(t)

-----------------------------------------------------------------------------
(* What the operators on the state of a tab do                               *)

Aged(o, counters) ==
  [o EXCEPT !.gen = @ /\ "gen" \notin counters, !.epoch = @ /\ "epoch" \notin counters,
            !.intent = @ /\ "intent" \notin counters, !.local = @ /\ "local" \notin counters]

\* A snapshot only grows out of date.
LEMMA AgedOp ==
  ASSUME NEW o \in Op, NEW c
  PROVE  /\ Aged(o, c) \in Op
         /\ Aged(o, c).id = o.id /\ Aged(o, c).seat = o.seat /\ Aged(o, c).kind = o.kind
         /\ Aged(o, c).why = o.why /\ Aged(o, c).user = o.user /\ Aged(o, c).phase = o.phase
         /\ Aged(o, c).answer = o.answer
         /\ Aged(o, c).gen = TRUE <=> o.gen = TRUE /\ "gen" \notin c
         /\ Aged(o, c).epoch = TRUE <=> o.epoch = TRUE /\ "epoch" \notin c
         /\ Aged(o, c).intent = TRUE <=> o.intent = TRUE /\ "intent" \notin c
         /\ Aged(o, c).local = TRUE <=> o.local = TRUE /\ "local" \notin c
<1>1. Aged(o, c) \in Op
  BY ZenonT(40) DEF Aged, Op
<1>2. /\ Aged(o, c).id = o.id /\ Aged(o, c).seat = o.seat /\ Aged(o, c).kind = o.kind
      /\ Aged(o, c).why = o.why /\ Aged(o, c).user = o.user /\ Aged(o, c).phase = o.phase
      /\ Aged(o, c).answer = o.answer
  BY DEF Aged, Op
<1>3. /\ Aged(o, c).gen = (o.gen /\ "gen" \notin c)
      /\ Aged(o, c).epoch = (o.epoch /\ "epoch" \notin c)
      /\ Aged(o, c).intent = (o.intent /\ "intent" \notin c)
      /\ Aged(o, c).local = (o.local /\ "local" \notin c)
  BY DEF Aged, Op
<1>4. o.gen \in BOOLEAN /\ o.epoch \in BOOLEAN /\ o.intent \in BOOLEAN /\ o.local \in BOOLEAN
  BY DEF Op
<1>. QED
  BY <1>1, <1>2, <1>3, <1>4

\* Two states of a tab that differ in their operations and ordinary request only.
SameFace(s, n) ==
  /\ n.open = s.open /\ n.status = s.status /\ n.user = s.user /\ n.challenge = s.challenge
  /\ n.mfa = s.mfa /\ n.external = s.external

OlderPoll(s, n, c) ==
  /\ n.poll.phase = s.poll.phase
  /\ n.poll.epoch = TRUE <=> s.poll.epoch = TRUE /\ "epoch" \notin c

\* Only the snapshots change when counters move on ...
LEMMA AdvanceOps ==
  ASSUME NEW s \in TabState, NEW c
  PROVE  Advance(s, c).ops = {Aged(o, c) : o \in s.ops}
<1>1. s.ops \in SUBSET Op
  BY DEF TabState
<1>2. Advance(s, c) = [s EXCEPT !.ops = {Aged(o, c) : o \in @},
                                !.poll.epoch = @ /\ "epoch" \notin c]
  BY DEF Advance, Aged
<1>. QED
  BY <1>1, <1>2 DEF TabState

\* ... those of the operations and that of the ordinary request.
LEMMA AdvanceFields ==
  ASSUME NEW s \in TabState, NEW c
  PROVE  /\ Advance(s, c) \in TabState
         /\ SameFace(s, Advance(s, c))
         /\ OlderPoll(s, Advance(s, c), c)
<1>0. s.ops \in SUBSET Op
  BY DEF TabState
<1>1. {Aged(o, c) : o \in s.ops} \in SUBSET Op
  <2>1. \A o \in s.ops : Aged(o, c) \in Op
    BY <1>0, AgedOp
  <2>. QED
    BY <2>1
<1>2. Advance(s, c) = [s EXCEPT !.ops = {Aged(o, c) : o \in @},
                                !.poll.epoch = @ /\ "epoch" \notin c]
  BY DEF Advance, Aged
<1>3. s.poll \in Poll /\ s.poll.epoch \in BOOLEAN /\ s.poll.phase \in {"none", "sent", "denied", "ok"}
  BY DEF TabState, Poll
<1>. DEFINE q == [s.poll EXCEPT !.epoch = @ /\ "epoch" \notin c]
<1>4. q \in Poll /\ q.phase = s.poll.phase /\ q.epoch = (s.poll.epoch /\ "epoch" \notin c)
  BY <1>3 DEF Poll
<1>5. q.epoch = TRUE <=> s.poll.epoch = TRUE /\ "epoch" \notin c
  BY <1>3, <1>4
<1>6. Advance(s, c) = [s EXCEPT !.ops = {Aged(o, c) : o \in s.ops}, !.poll = q]
  BY <1>2 DEF TabState
<1>. HIDE DEF q
<1>. QED
  BY <1>1, <1>4, <1>5, <1>6 DEF TabState, SameFace, OlderPoll

\* The image of a finite set is finite.
LEMMA AgedFinite ==
  ASSUME NEW S, IsFiniteSet(S), NEW c
  PROVE  IsFiniteSet({Aged(o, c) : o \in S})
<1>. DEFINE f == [o \in S |-> Aged(o, c)]
<1>1. f \in Surjection(S, {Aged(o, c) : o \in S})
  BY DEF Surjection
<1>. QED
  BY <1>1, FS_Surjection

\* The next seat in the queue is behind all the others.
LEMMA SeatsAndIds ==
  ASSUME NEW s \in TabState, IsFiniteSet(s.ops)
  PROVE  /\ NextSeat(s) \in Nat /\ NextSeat(s) > 0 /\ NextId(s) \in Nat
         /\ \A o \in s.ops : o.seat < NextSeat(s)
<1>. DEFINE S == {0} \cup {o.seat : o \in s.ops}
            I == {0} \cup {o.id : o \in s.ops}
<1>0. s.ops \in SUBSET Op
  BY DEF TabState
<1>1. S \in SUBSET Int /\ I \in SUBSET Int
  BY <1>0 DEF Op
<1>2. IsFiniteSet({o.seat : o \in s.ops}) /\ IsFiniteSet({o.id : o \in s.ops})
  <2>1. [o \in s.ops |-> o.seat] \in Surjection(s.ops, {o.seat : o \in s.ops})
    BY DEF Surjection
  <2>2. [o \in s.ops |-> o.id] \in Surjection(s.ops, {o.id : o \in s.ops})
    BY DEF Surjection
  <2>. QED
    BY <2>1, <2>2, FS_Surjection
<1>3. IsFiniteSet(S) /\ IsFiniteSet(I)
  <2>1. IsFiniteSet({0})
    BY FS_Singleton
  <2>. QED
    BY <1>2, <2>1, FS_Union
<1>4. 0 \in S /\ 0 \in I /\ \A o \in s.ops : o.seat \in S /\ o.seat \in Nat
  BY <1>0 DEF Op
<1>. HIDE DEF S, I
<1>5. PICK m : m = Max(S)
  OBVIOUS
<1>6. m \in Int /\ \A y \in S : y <= m
  BY <1>1, <1>3, <1>4, <1>5, MaxFinite
<1>7. PICK k : k = Max(I)
  OBVIOUS
<1>8. k \in Int /\ \A y \in I : y <= k
  BY <1>1, <1>3, <1>4, <1>7, MaxFinite
<1>9. NextSeat(s) = 1 + m /\ NextId(s) = 1 + k
  BY <1>5, <1>7 DEF NextSeat, NextId, S, I
<1>. QED
  BY <1>4, <1>6, <1>8, <1>9

\* No snapshot of the operation is out of date.
UpToDate(o) == o.gen = TRUE /\ o.epoch = TRUE /\ o.intent = TRUE /\ o.local = TRUE

\* A new operation.
LEMMA NewOperation ==
  ASSUME NEW i \in Nat, NEW k \in Nat, NEW kind \in Kind, NEW why \in Why, NEW u \in Account,
         NEW o, o = Operation(i, k, kind, why, u)
  PROVE  /\ o \in Op
         /\ o.id = i /\ o.seat = k /\ o.kind = kind /\ o.why = why /\ o.user = u
         /\ o.phase = (IF k = 0 THEN "barrier" ELSE "queued") /\ o.answer = "none"
         /\ UpToDate(o)
BY DEF Operation, Op, Phase, Answer, UpToDate

\* Two operations that differ in their snapshots only.
SameRequest(o, a) ==
  /\ a.id = o.id /\ a.seat = o.seat /\ a.kind = o.kind /\ a.why = o.why /\ a.user = o.user
  /\ a.phase = o.phase /\ a.answer = o.answer

\* Snapshots of these counters are out of date.
Stale(o, counters) ==
  /\ "gen" \in counters => o.gen = FALSE
  /\ "epoch" \in counters => o.epoch = FALSE
  /\ "intent" \in counters => o.intent = FALSE
  /\ "local" \in counters => o.local = FALSE

\* Where the operations come from when counters move on, and what is out of date then.
LEMMA AdvanceFrom ==
  ASSUME NEW s \in TabState, NEW c
  PROVE  /\ \A a \in Advance(s, c).ops : \E o \in s.ops : SameRequest(o, a) /\ a = Aged(o, c)
         /\ \A o \in s.ops : Aged(o, c) \in Advance(s, c).ops /\ SameRequest(o, Aged(o, c))
         /\ \A a \in Advance(s, c).ops : Stale(a, c)
         /\ \A d : (\A o \in s.ops : Stale(o, d)) => \A a \in Advance(s, c).ops : Stale(a, d)
<1>1. s.ops \in SUBSET Op
  BY DEF TabState
<1>2. /\ \A a \in Advance(s, c).ops : \E o \in s.ops : a = Aged(o, c)
      /\ \A o \in s.ops : Aged(o, c) \in Advance(s, c).ops
  BY AdvanceOps
<1>3. ASSUME NEW o \in s.ops
      PROVE  /\ SameRequest(o, Aged(o, c)) /\ Stale(Aged(o, c), c)
             /\ \A d : Stale(o, d) => Stale(Aged(o, c), d)
  <2>1. PICK a : a = Aged(o, c)
    OBVIOUS
  <2>2. SameRequest(o, a)
    BY <1>1, <2>1, AgedOp, ZenonT(40) DEF SameRequest
  <2>3. a \in Op /\ o \in Op
    BY <1>1, <2>1, AgedOp
  <2>4. /\ a.gen \in BOOLEAN /\ a.epoch \in BOOLEAN /\ a.intent \in BOOLEAN /\ a.local \in BOOLEAN
        /\ o.gen \in BOOLEAN /\ o.epoch \in BOOLEAN /\ o.intent \in BOOLEAN /\ o.local \in BOOLEAN
    BY <2>3 DEF Op
  <2>5. /\ a.gen = TRUE <=> o.gen = TRUE /\ "gen" \notin c
        /\ a.epoch = TRUE <=> o.epoch = TRUE /\ "epoch" \notin c
        /\ a.intent = TRUE <=> o.intent = TRUE /\ "intent" \notin c
        /\ a.local = TRUE <=> o.local = TRUE /\ "local" \notin c
    BY <1>1, <2>1, AgedOp
  <2>6. Stale(a, c)
    BY <2>4, <2>5 DEF Stale
  <2>7. ASSUME NEW d, Stale(o, d) PROVE Stale(a, d)
    BY <2>4, <2>5, <2>7 DEF Stale
  <2>. QED
    BY <2>1, <2>2, <2>6, <2>7
<1>. QED
  BY <1>2, <1>3

-----------------------------------------------------------------------------
(* Steps that tell a tab nothing new                                         *)

\* The next state of a tab shows and will apply at most what this one does ...
Calmer(s, n) ==
  /\ n.status = "authenticated" => s.status = "authenticated" /\ n.user = s.user
  /\ \A a \in n.ops : Live(a) => \E o \in s.ops : Live(o) /\ Says(o) = Says(a)
  /\ n.poll.epoch = TRUE => s.poll.epoch = TRUE
  /\ n.poll.phase = "denied" => s.poll.phase = "denied"

\* ... is sound, and has the same requests under way.
Calm(s, n) ==
  /\ Good(n) /\ Calmer(s, n) /\ n.open = s.open
  /\ Sending(n) <=> Sending(s)
  /\ Announcing(n) <=> Announcing(s)

\* Such steps compose.
LEMMA CalmTwice ==
  ASSUME NEW s, NEW n, NEW m, Calm(s, n), Calm(n, m)
  PROVE  Calm(s, m)
<1>1. Calmer(s, m)
  BY DEF Calm, Calmer
<1>. QED
  BY <1>1 DEF Calm

\* They keep what a tab agrees with and what it forgot.
LEMMA CalmKeeps ==
  ASSUME NEW s, NEW n, Calm(s, n)
  PROVE  /\ \A c, names : Agree(s, c, names) => Agree(n, c, names)
         /\ Good(s) /\ Good(n) /\ Forgetful(s) => Forgetful(n)
<1>1. \A c, names : Agree(s, c, names) => Agree(n, c, names)
  BY DEF Calm, Calmer, Agree
<1>2. Good(n) => n.poll.epoch \in BOOLEAN
  BY DEF Good, TabState, Poll
<1>3. Forgetful(s) => n.poll.epoch # TRUE
  BY DEF Calm, Calmer, Forgetful
<1>. QED
  BY <1>1, <1>2, <1>3 DEF Calm, Calmer, Forgetful

\* Counters that move on.
LEMMA AdvanceCalm ==
  ASSUME NEW s, Good(s), NEW c
  PROVE  Calm(s, Advance(s, c))
<1>. DEFINE n == Advance(s, c)
<1>0. s \in TabState /\ s.ops \in SUBSET Op
  BY DEF Good, TabState
<1>1. /\ n \in TabState /\ n.ops = {Aged(o, c) : o \in s.ops}
      /\ n.open = s.open /\ n.status = s.status /\ n.user = s.user /\ n.challenge = s.challenge
      /\ n.poll.phase = s.poll.phase
      /\ n.poll.epoch = TRUE <=> s.poll.epoch = TRUE /\ "epoch" \notin c
  <2>1. n.ops = {Aged(o, c) : o \in s.ops}
    BY <1>0, AdvanceOps
  <2>2. n \in TabState /\ SameFace(s, n) /\ OlderPoll(s, n, c)
    BY <1>0, AdvanceFields
  <2>. HIDE DEF n
  <2>. QED
    BY <2>1, <2>2 DEF SameFace, OlderPoll
<1>. HIDE DEF n
<1>2. /\ \A a \in n.ops : \E o \in s.ops : a = Aged(o, c)
      /\ \A o \in s.ops : Aged(o, c) \in n.ops
  BY <1>1
<1>3. n.poll.epoch \in BOOLEAN /\ s.poll.epoch \in BOOLEAN
  BY <1>0, <1>1 DEF TabState, Poll
<1>4. OpsSound(n)
  <2>1. IsFiniteSet(n.ops)
    BY <1>1, AgedFinite DEF Good, OpsSound
  <2>2. ASSUME NEW a \in n.ops PROVE OpSound(a)
    <3>1. PICK o \in s.ops : a = Aged(o, c)
      BY <1>2
    <3>2. a.kind = o.kind /\ a.phase = o.phase /\ a.answer = o.answer /\ a.user = o.user
      BY <1>0, <3>1, AgedOp, ZenonT(40)
    <3>3. OpSound(o)
      BY DEF Good, OpsSound
    <3>. QED
      BY <3>2, <3>3 DEF OpSound
  <2>3. ASSUME NEW a \in n.ops, NEW b \in n.ops
        PROVE  /\ Out(a) /\ Out(b) => a = b
               /\ a.kind = "logout" /\ b.kind = "logout" => a = b
    <3>1. PICK o \in s.ops : a = Aged(o, c)
      BY <1>2
    <3>2. PICK p \in s.ops : b = Aged(p, c)
      BY <1>2
    <3>3. a.phase = o.phase /\ b.phase = p.phase /\ a.kind = o.kind /\ b.kind = p.kind
      BY <1>0, <3>1, <3>2, AgedOp, ZenonT(40)
    <3>4. (Out(o) /\ Out(p) => o = p) /\ (o.kind = "logout" /\ p.kind = "logout" => o = p)
      BY DEF Good, OpsSound
    <3>5. (Out(a) <=> Out(o)) /\ (Out(b) <=> Out(p)) /\ (o = p => a = b)
      BY <3>1, <3>2, <3>3 DEF Out
    <3>. QED
      BY <3>3, <3>4, <3>5
  <2>. QED
    BY <2>1, <2>2, <2>3 DEF OpsSound
<1>5. QueueSound(n)
  <2>1. ASSUME NEW a \in n.ops, NEW b \in n.ops, a # b
        PROVE  /\ a.kind \in Changes /\ a.phase = "queued" /\ b.kind \in Asks /\ b.gen = TRUE =>
                    b.phase = "barrier" \/ (b.phase = "queued" /\ b.seat > a.seat)
               /\ a.kind = "logout" /\ a.phase = "barrier" => b.gen = FALSE /\ b.local = FALSE
    <3>1. PICK o \in s.ops : a = Aged(o, c)
      BY <1>2
    <3>2. PICK p \in s.ops : b = Aged(p, c)
      BY <1>2
    <3>3. o # p
      BY <2>1, <3>1, <3>2
    <3>4. /\ o.kind \in Changes /\ o.phase = "queued" /\ p.kind \in Asks /\ p.gen = TRUE =>
               p.phase = "barrier" \/ (p.phase = "queued" /\ p.seat > o.seat)
          /\ o.kind = "logout" /\ o.phase = "barrier" => p.gen = FALSE /\ p.local = FALSE
      BY <3>3 DEF Good, QueueSound
    <3>5. /\ a.kind = o.kind /\ a.phase = o.phase /\ a.seat = o.seat
          /\ b.kind = p.kind /\ b.phase = p.phase /\ b.seat = p.seat
          /\ b.gen = TRUE => p.gen = TRUE
          /\ b.local = TRUE => p.local = TRUE
          /\ b \in Op
      BY <1>0, <3>1, <3>2, AgedOp, ZenonT(40)
    <3>6. b.gen \in BOOLEAN /\ b.local \in BOOLEAN
      BY <3>5 DEF Op
    <3>. QED
      BY <3>4, <3>5, <3>6
  <2>. QED
    BY <2>1 DEF QueueSound
<1>6. PendingSound(n)
  <2>1. ASSUME NEW a \in n.ops
        PROVE  /\ a.kind \in Changes /\ a.phase # "answered" => n.status # "authenticated"
               /\ a.kind = "logout" => n.status # "authenticated" /\ n.challenge = FALSE
               /\ a.kind \in Changes /\ a.phase = "sent" => n.poll.epoch = FALSE
    <3>1. PICK o \in s.ops : a = Aged(o, c)
      BY <1>2
    <3>2. a.kind = o.kind /\ a.phase = o.phase
      BY <1>0, <3>1, AgedOp
    <3>. QED
      BY <1>1, <1>3, <3>2 DEF Good, PendingSound
  <2>. QED
    BY <1>1, <1>3, <2>1 DEF Good, PendingSound
<1>7. Calmer(s, n)
  <2>1. ASSUME NEW a \in n.ops, Live(a) PROVE \E o \in s.ops : Live(o) /\ Says(o) = Says(a)
    <3>1. PICK o \in s.ops : a = Aged(o, c)
      BY <1>2
    <3>2. /\ a.kind = o.kind /\ a.phase = o.phase /\ a.answer = o.answer /\ a.user = o.user
          /\ a.gen = TRUE => o.gen = TRUE
          /\ a.epoch = TRUE => o.epoch = TRUE
          /\ a.intent = TRUE => o.intent = TRUE
      BY <1>0, <3>1, AgedOp, ZenonT(40)
    <3>3. Live(o) /\ Says(o) = Says(a)
      BY <2>1, <3>2 DEF Live, Says
    <3>. QED
      BY <3>3
  <2>. QED
    BY <1>1, <2>1 DEF Calmer
<1>8. (Sending(n) <=> Sending(s)) /\ (Announcing(n) <=> Announcing(s))
  <2>1. \A o \in s.ops : Aged(o, c).phase = o.phase /\ Aged(o, c).kind = o.kind
    BY <1>0, AgedOp
  <2>. QED
    BY <1>2, <2>1 DEF Sending, Announcing
<1>. QED
  BY <1>1, <1>4, <1>5, <1>6, <1>7, <1>8 DEF Calm, Good, n

\* Another screen over the same operations, or the end of an ordinary request.
LEMMA SameOpsCalm ==
  ASSUME NEW s, Good(s), NEW n \in TabState, n.ops = s.ops, n.open = s.open,
         n.status # "authenticated" \/ (n.status = s.status /\ n.user = s.user),
         n.challenge = TRUE => s.challenge = TRUE,
         n.poll = s.poll \/ n.poll = NoPoll
  PROVE  Calm(s, n)
<1>1. n.challenge \in BOOLEAN
  BY DEF TabState
<1>2. NoPoll.phase = "none" /\ NoPoll.epoch = FALSE
  BY DEF NoPoll
<1>3. OpsSound(n)
  BY DEF Good, OpsSound
<1>4. QueueSound(n)
  BY DEF Good, QueueSound
<1>5. PendingSound(n)
  BY <1>1, <1>2 DEF Good, PendingSound
<1>6. Calmer(s, n)
  BY <1>2 DEF Calmer
<1>. QED
  BY <1>3, <1>4, <1>5, <1>6 DEF Calm, Good, Sending, Announcing

\* An operation that is over.
LEMMA WithoutFields ==
  ASSUME NEW s \in TabState, NEW o
  PROVE  /\ Without(s, o) \in TabState
         /\ SameFace(s, Without(s, o))
         /\ Without(s, o).poll = s.poll
         /\ Without(s, o).ops = s.ops \ {o}
BY DEF Without, TabState, SameFace

\* Dropping it tells the tab nothing ...
LEMMA WithoutGood ==
  ASSUME NEW s, Good(s), NEW o
  PROVE  Good(Without(s, o)) /\ Calmer(s, Without(s, o))
<1>. DEFINE n == Without(s, o)
<1>1. n \in TabState /\ SameFace(s, n) /\ n.poll = s.poll /\ n.ops = s.ops \ {o}
  BY WithoutFields DEF Good
<1>. HIDE DEF n
<1>2. n.ops \subseteq s.ops
  BY <1>1
<1>3. OpsSound(n)
  BY <1>2, FS_Subset DEF Good, OpsSound
<1>4. QueueSound(n)
  BY <1>2 DEF Good, QueueSound
<1>5. PendingSound(n)
  BY <1>1, <1>2 DEF Good, PendingSound, SameFace
<1>6. Calmer(s, n)
  BY <1>1, <1>2 DEF Calmer, SameFace
<1>. QED
  BY <1>1, <1>3, <1>4, <1>5, <1>6 DEF Good, n

\* ... and leaves what is under way.
LEMMA WithoutCalm ==
  ASSUME NEW s, Good(s), NEW o, o.phase # "sent"
  PROVE  Calm(s, Without(s, o))
<1>. DEFINE n == Without(s, o)
<1>1. SameFace(s, n) /\ n.ops = s.ops \ {o} /\ Good(n) /\ Calmer(s, n)
  BY WithoutFields, WithoutGood DEF Good
<1>. HIDE DEF n
<1>2. (Sending(n) <=> Sending(s)) /\ (Announcing(n) <=> Announcing(s))
  BY <1>1 DEF Sending, Announcing
<1>. QED
  BY <1>1, <1>2 DEF Calm, n, SameFace

\* The identity is forgotten.
LEMMA ClearFields ==
  ASSUME NEW s \in TabState
  PROVE  /\ ClearSessionState(s) \in TabState
         /\ ClearSessionState(s).open = s.open
         /\ ClearSessionState(s).status = "anonymous"
         /\ ClearSessionState(s).user = NoUser
         /\ ClearSessionState(s).challenge = FALSE
         /\ ClearSessionState(s).mfa = s.mfa
         /\ ClearSessionState(s).external = s.external
         /\ ClearSessionState(s).poll = Advance(s, {"gen", "intent"}).poll
         /\ ClearSessionState(s).ops = Advance(s, {"gen", "intent"}).ops
<1>. DEFINE a == Advance(s, {"gen", "intent"})
<1>1. a \in TabState /\ SameFace(s, a)
  BY AdvanceFields
<1>2. ClearSessionState(s) = [a EXCEPT !.user = NoUser, !.challenge = FALSE, !.status = "anonymous"]
  BY DEF ClearSessionState
<1>. HIDE DEF a
<1>3. /\ ClearSessionState(s) \in TabState
      /\ ClearSessionState(s).open = a.open
      /\ ClearSessionState(s).status = "anonymous"
      /\ ClearSessionState(s).user = NoUser
      /\ ClearSessionState(s).challenge = FALSE
      /\ ClearSessionState(s).mfa = a.mfa
      /\ ClearSessionState(s).external = a.external
      /\ ClearSessionState(s).poll = a.poll
      /\ ClearSessionState(s).ops = a.ops
  BY <1>1, <1>2 DEF TabState, Account
<1>. QED
  BY <1>1, <1>3 DEF SameFace, a

\* Forgetting tells the tab nothing.
LEMMA ClearCalm ==
  ASSUME NEW s, Good(s)
  PROVE  Calm(s, ClearSessionState(s))
<1>. DEFINE a == Advance(s, {"gen", "intent"})
            n == ClearSessionState(s)
<1>0. s \in TabState
  BY DEF Good
<1>1. Calm(s, a)
  BY AdvanceCalm
<1>2. /\ n \in TabState /\ n.open = s.open /\ n.status = "anonymous" /\ n.challenge = FALSE
      /\ n.poll = a.poll /\ n.ops = a.ops
  BY <1>0, ClearFields
<1>. HIDE DEF a, n
<1>3. Calm(a, n)
  <2>1. Good(a) /\ a.open = s.open
    BY <1>1 DEF Calm
  <2>. QED
    BY <1>2, <2>1, SameOpsCalm
<1>. QED
  BY <1>1, <1>3, CalmTwice DEF n

\* No sign-out waits at the barrier: one that does resumes before any other event.
Free(s) == \A o \in s.ops : ~(o.kind = "logout" /\ o.phase = "barrier")

Plus(s, x) == [s EXCEPT !.ops = @ \cup {x}]

\* The state of the tab with one operation more.
LEMMA PlusFields ==
  ASSUME NEW s \in TabState, NEW x \in Op
  PROVE  /\ Plus(s, x) \in TabState
         /\ SameFace(s, Plus(s, x))
         /\ Plus(s, x).poll = s.poll
         /\ Plus(s, x).ops = s.ops \cup {x}
BY DEF Plus, TabState, SameFace

\* An operation that may begin: a sign-out makes every other operation out of date, and a
\* change of identity every answer.
MayBegin(s, x) ==
  /\ x \in Op /\ OpSound(x)
  /\ x.phase \in {"barrier", "queued"}
  /\ x.kind \in Changes => s.status # "authenticated"
  /\ x.kind = "logout" =>
       /\ s.challenge = FALSE
       /\ \A o \in s.ops : o.kind # "logout" /\ o.gen = FALSE /\ o.local = FALSE
  /\ x.phase = "queued" /\ x.kind \in Changes => \A o \in s.ops : o.gen = FALSE
  /\ x.phase = "queued" => \A o \in s.ops : o.seat < x.seat

\* Beginning it tells the tab nothing.
LEMMA PlusCalm ==
  ASSUME NEW s, Good(s), Free(s), NEW x, MayBegin(s, x)
  PROVE  Calm(s, Plus(s, x))
<1>. DEFINE n == Plus(s, x)
<1>0. s \in TabState /\ x \in Op
  BY DEF Good, MayBegin
<1>1. n \in TabState /\ SameFace(s, n) /\ n.poll = s.poll /\ n.ops = s.ops \cup {x}
  BY <1>0, PlusFields
<1>. HIDE DEF n
<1>2. ~Out(x) /\ ~Live(x) /\ x.phase # "sent" /\ x.phase # "answered"
  BY DEF MayBegin, Out, Live
<1>3. OpsSound(n)
  <2>1. IsFiniteSet(n.ops)
    BY <1>1, FS_AddElement DEF Good, OpsSound
  <2>2. \A o \in n.ops : OpSound(o)
    BY <1>1 DEF Good, OpsSound, MayBegin
  <2>3. \A o, p \in n.ops : Out(o) /\ Out(p) => o = p
    BY <1>1, <1>2 DEF Good, OpsSound
  <2>4. \A o, p \in n.ops : o.kind = "logout" /\ p.kind = "logout" => o = p
    BY <1>1 DEF Good, OpsSound, MayBegin
  <2>. QED
    BY <2>1, <2>2, <2>3, <2>4 DEF OpsSound
<1>4. QueueSound(n)
  <2>1. ASSUME NEW a \in n.ops, NEW o \in n.ops, o # a
        PROVE  /\ a.kind \in Changes /\ a.phase = "queued" /\ o.kind \in Asks /\ o.gen = TRUE =>
                    o.phase = "barrier" \/ (o.phase = "queued" /\ o.seat > a.seat)
               /\ a.kind = "logout" /\ a.phase = "barrier" => o.gen = FALSE /\ o.local = FALSE
    <3>1. CASE a \in s.ops /\ o \in s.ops
      BY <2>1, <3>1 DEF Good, QueueSound
    <3>2. CASE a \in s.ops /\ o = x
      <4>1. ~(a.kind = "logout" /\ a.phase = "barrier")
        BY <3>2 DEF Free
      <4>2. o.phase = "barrier" \/ (o.phase = "queued" /\ a.seat < o.seat)
        BY <3>2 DEF MayBegin
      <4>3. a.seat \in Nat /\ o.seat \in Nat
        BY <1>0, <3>2 DEF Op, TabState
      <4>. QED
        BY <4>1, <4>2, <4>3
    <3>3. CASE a = x /\ o \in s.ops
      BY <3>3 DEF MayBegin
    <3>. QED
      BY <1>1, <2>1, <3>1, <3>2, <3>3
  <2>. QED
    BY <2>1 DEF QueueSound
<1>5. PendingSound(n)
  <2>1. ASSUME NEW o \in n.ops
        PROVE  /\ o.kind \in Changes /\ o.phase # "answered" => n.status # "authenticated"
               /\ o.kind = "logout" => n.status # "authenticated" /\ n.challenge = FALSE
               /\ o.kind \in Changes /\ o.phase = "sent" => n.poll.epoch = FALSE
    <3>1. CASE o \in s.ops
      BY <1>1, <3>1 DEF Good, PendingSound, SameFace
    <3>2. CASE o = x
      BY <1>1, <1>2, <3>2 DEF MayBegin, SameFace, Changes
    <3>. QED
      BY <1>1, <3>1, <3>2
  <2>. QED
    BY <1>1, <2>1 DEF Good, PendingSound, SameFace
<1>6. Calmer(s, n)
  BY <1>1, <1>2 DEF Calmer, SameFace
<1>7. (Sending(n) <=> Sending(s)) /\ (Announcing(n) <=> Announcing(s))
  BY <1>1, <1>2 DEF Sending, Announcing
<1>. QED
  BY <1>1, <1>3, <1>4, <1>5, <1>6, <1>7 DEF Calm, Good, n, SameFace

\* Moving counters on does not make a sign-out wait.
LEMMA AdvanceFree ==
  ASSUME NEW s \in TabState, Free(s), NEW c
  PROVE  Free(Advance(s, c))
<1>1. s.ops \in SUBSET Op
  BY DEF TabState
<1>2. ASSUME NEW a \in Advance(s, c).ops PROVE ~(a.kind = "logout" /\ a.phase = "barrier")
  <2>1. PICK o \in s.ops : a = Aged(o, c)
    BY <1>2, AdvanceOps
  <2>2. a.kind = o.kind /\ a.phase = o.phase
    BY <1>1, <2>1, AgedOp
  <2>. QED
    BY <2>2 DEF Free
<1>. QED
  BY <1>2 DEF Free

\* The request of api.me that is queued last and is of the current generation.
Fresh(o, why) ==
  /\ o.kind = "me" /\ o.why = why /\ o.phase = "queued"
  /\ o.gen = TRUE /\ o.epoch = TRUE /\ o.intent = TRUE

\* Asking the server who is signed in tells the tab nothing yet.
LEMMA StartMeCalm ==
  ASSUME NEW s, Good(s), Free(s), NEW why \in Why
  PROVE  /\ Calm(s, StartMe(s, why))
         /\ SameFace(s, StartMe(s, why))
         /\ StartMe(s, why) \in TabState
         /\ StartMe(s, why).poll = Advance(s, {"gen"}).poll
         /\ \E x \in Op : /\ Fresh(x, why)
                          /\ StartMe(s, why).ops = Advance(s, {"gen"}).ops \cup {x}
<1>. DEFINE b == Advance(s, {"gen"})
            x == Operation(NextId(b), NextSeat(b), "me", why, NoUser)
<1>0. s \in TabState
  BY DEF Good
<1>1. Calm(s, b) /\ Free(b) /\ SameFace(s, b) /\ b \in TabState
  BY <1>0, AdvanceCalm, AdvanceFree, AdvanceFields
<1>2. StartMe(s, why) = Plus(b, x)
  BY DEF StartMe, Plus
<1>3. IsFiniteSet(b.ops) /\ Good(b)
  BY <1>1 DEF Calm, Good, OpsSound
<1>. HIDE DEF b
<1>4. NextSeat(b) \in Nat /\ NextSeat(b) > 0 /\ NextId(b) \in Nat /\ \A o \in b.ops : o.seat < NextSeat(b)
  BY <1>1, <1>3, SeatsAndIds
<1>5. "me" \in Kind /\ NoUser \in Account
  BY DEF Kind, Account
<1>6. /\ x \in Op /\ x.seat = NextSeat(b) /\ x.kind = "me" /\ x.why = why
      /\ x.phase = "queued" /\ x.answer = "none"
      /\ x.gen = TRUE /\ x.epoch = TRUE /\ x.intent = TRUE
  <2>1. PICK i \in Nat, k \in Nat : i = NextId(b) /\ k = NextSeat(b) /\ k # 0
    BY <1>4
  <2>2. PICK y : y = Operation(i, k, "me", why, NoUser)
    OBVIOUS
  <2>3. /\ y \in Op /\ y.seat = k /\ y.kind = "me" /\ y.why = why
        /\ y.phase = (IF k = 0 THEN "barrier" ELSE "queued") /\ y.answer = "none"
        /\ UpToDate(y)
    BY <1>5, <2>1, <2>2, NewOperation
  <2>4. x = y
    BY <2>1, <2>2
  <2>. QED
    BY <2>1, <2>3, <2>4 DEF UpToDate
<1>. HIDE DEF x
<1>7. MayBegin(b, x)
  <2>1. OpSound(x)
    BY <1>6 DEF OpSound, AllIdentityKind
  <2>. QED
    BY <1>4, <1>6, <2>1 DEF MayBegin, Changes, AllIdentityKind
<1>8. Calm(b, Plus(b, x))
  BY <1>1, <1>3, <1>7, PlusCalm
<1>9. /\ Plus(b, x) \in TabState /\ SameFace(b, Plus(b, x))
      /\ Plus(b, x).poll = b.poll /\ Plus(b, x).ops = b.ops \cup {x}
  BY <1>1, <1>6, PlusFields
<1>10. Calm(s, Plus(b, x))
  BY <1>1, <1>8, CalmTwice
<1>11. SameFace(s, Plus(b, x))
  BY <1>1, <1>9 DEF SameFace
<1>12. Fresh(x, why)
  BY <1>6 DEF Fresh
<1>. QED
  BY <1>2, <1>6, <1>9, <1>10, <1>11, <1>12 DEF b

\* A tab that is idle has no sign-out at the barrier, there being one at most.
LEMMA IdleFree ==
  ASSUME NEW t \in Tab, Good(tab[t]), Idle(t)
  PROVE  Free(tab[t]) /\ tab[t].open = TRUE
<1>1. ASSUME NEW o \in tab[t].ops, o.kind = "logout", o.phase = "barrier" PROVE FALSE
  <2>1. o.id \in Nat
    BY DEF Good, TabState, Op
  <2>2. BarrierIsOver(tab[t], o)
    BY <1>1, <2>1 DEF BarrierIsOver, Good, OpsSound
  <2>. QED
    BY <1>1, <2>2 DEF Idle
<1>2. tab[t].open \in BOOLEAN
  BY DEF Good, TabState
<1>3. tab[t].open
  BY DEF Idle
<1>. QED
  BY <1>1, <1>2, <1>3 DEF Free

\* When an answer of the current generation is applied no change of identity is pending.
LEMMA AnswerAlone ==
  ASSUME NEW t \in Tab, Good(tab[t]), Idle(t), NEW o \in tab[t].ops,
         o.phase = "answered", o.kind \in Asks, o.gen = TRUE
  PROVE  \A a \in tab[t].ops : a # o => a.kind \notin Changes
<1>1. ASSUME NEW a \in tab[t].ops, a # o, a.kind \in Changes, a.phase # "barrier" PROVE FALSE
  <2>1. a.phase \in Phase
    BY DEF Good, TabState, Op
  <2>2. CASE a.phase = "queued"
    BY <1>1, <2>2 DEF Good, QueueSound
  <2>3. CASE a.phase \in {"sent", "answered"}
    BY <1>1, <2>3 DEF Good, OpsSound, Out
  <2>. QED
    BY <1>1, <2>1, <2>2, <2>3 DEF Phase
<1>2. ASSUME NEW a \in tab[t].ops, a # o, a.kind \in Changes, a.phase = "barrier" PROVE FALSE
  <2>1. ~BarrierIsOver(tab[t], a)
    BY <1>2 DEF Idle
  <2>2. PICK l \in tab[t].ops : l.kind = "logout"
    BY <2>1 DEF BarrierIsOver
  <2>3. l.phase # "barrier"
    BY <2>2, IdleFree DEF Free
  <2>4. l # o
    BY <2>2 DEF Asks, AllIdentityKind
  <2>. QED
    BY <1>1, <2>2, <2>3, <2>4 DEF Changes
<1>. QED
  BY <1>1, <1>2

-----------------------------------------------------------------------------
(* Steps of one tab                                                          *)

\* Messages are only added to the boxes of open tabs other than the sender.
Delivered(t, box) ==
  /\ box \in [Tab -> Seq(Message)]
  /\ \A q \in Tab : \A k \in DOMAIN box[q] : box[q][k].from # q
  /\ \A q \in Tab \ {t} : box[q] = inbox[q] \/ (box[q] # <<>> /\ tab[q].open = TRUE)

\* Posting a message keeps it so, and reaches every open peer.
LEMMA PostDelivers ==
  ASSUME Types, NEW t \in Tab, NEW box, Delivered(t, box),
         NEW phase \in {"start", "settled", "boundary"}
  PROVE  /\ Delivered(t, Post(t, box, phase))
         /\ Post(t, box, phase)[t] = box[t]
         /\ \A q \in Tab \ {t} : tab[q].open = TRUE => Post(t, box, phase)[q] # <<>>
<1>. DEFINE m == [phase |-> phase, from |-> t]
            new == Post(t, box, phase)
<1>0. m \in Message /\ m.from = t
  BY DEF Message
<1>1. \A q \in Tab : tab[q].open \in BOOLEAN
  BY DEF Types, TabState
<1>2. \A q \in Tab : new[q] = IF q # t /\ tab[q].open = TRUE THEN Append(box[q], m) ELSE box[q]
  BY <1>1 DEF Post, Peers
<1>3. DOMAIN new = Tab /\ new = [q \in Tab |-> new[q]]
  BY DEF Post
<1>. HIDE DEF m, new
<1>4. ASSUME NEW q \in Tab
      PROVE  /\ Append(box[q], m) \in Seq(Message) /\ Append(box[q], m) # <<>>
             /\ q # t => \A k \in DOMAIN Append(box[q], m) : Append(box[q], m)[k].from # q
  <2>1. box[q] \in Seq(Message)
    BY DEF Delivered
  <2>2. /\ Append(box[q], m) \in Seq(Message) /\ Append(box[q], m) # <<>>
        /\ \A k \in DOMAIN Append(box[q], m) :
             (k \in DOMAIN box[q] /\ Append(box[q], m)[k] = box[q][k]) \/ Append(box[q], m)[k] = m
    <3>1. /\ Append(box[q], m) \in Seq(Message) /\ Len(box[q]) \in Nat
          /\ DOMAIN box[q] = 1..Len(box[q]) /\ DOMAIN Append(box[q], m) = 1..(Len(box[q]) + 1)
      BY <1>0, <2>1
    <3>2. /\ \A k \in 1..Len(box[q]) : Append(box[q], m)[k] = box[q][k]
          /\ Append(box[q], m)[Len(box[q]) + 1] = m
      BY <1>0, <2>1
    <3>3. Append(box[q], m) # <<>>
      BY <1>0, <2>1
    <3>. QED
      BY <3>1, <3>2, <3>3
  <2>. QED
    BY <1>0, <2>2 DEF Delivered
<1>5. new \in [Tab -> Seq(Message)]
  <2>1. \A q \in Tab : new[q] \in Seq(Message)
    BY <1>2, <1>4 DEF Delivered
  <2>. QED
    BY <1>3, <2>1
<1>6. \A q \in Tab : \A k \in DOMAIN new[q] : new[q][k].from # q
  BY <1>2, <1>4 DEF Delivered
<1>7. \A q \in Tab \ {t} : new[q] = inbox[q] \/ (new[q] # <<>> /\ tab[q].open = TRUE)
  BY <1>2, <1>4 DEF Delivered
<1>8. \A q \in Tab \ {t} : tab[q].open = TRUE => new[q] # <<>>
  BY <1>2, <1>4
<1>9. new[t] = box[t]
  BY <1>2
<1>. QED
  BY <1>5, <1>6, <1>7, <1>8, <1>9 DEF Delivered, new

\* Bounds are only used up.
Grows == spent' \in [Event -> Nat] /\ \A k \in Event : spent'[k] >= spent[k]

\* Whether an event is counted or not.
LEMMA SpendGrows ==
  ASSUME Types
  PROVE  (\A k \in Event : Spend(k) => Grows) /\ (UNCHANGED spent => Grows)
<1>1. ASSUME NEW k \in Event, Spend(k) PROVE Grows
  BY <1>1 DEF Types, Spend, Grows
<1>2. ASSUME UNCHANGED spent PROVE Grows
  BY <1>2 DEF Types, Grows
<1>. QED
  BY <1>1, <1>2

\* A session the tabs were not told about stays one.
LEMMA NamesGrow ==
  ASSUME Types, Grows, cookie' = cookie
  PROVE  Names \subseteq Names'
<1>1. "ended" \in Event /\ "lost" \in Event /\ "closed" \in Event
  BY DEF Event
<1>2. spent \in [Event -> Nat]
  BY DEF Types
<1>3. Unseen => Unseen'
  BY <1>1, <1>2 DEF Unseen, Grows
<1>. QED
  BY <1>3 DEF Names, Types, Account

\* A step of one tab that leaves the cookie and the lock alone keeps the invariant if the
\* tab's own part of it holds afterwards.
LEMMA StepKeeps ==
  ASSUME SessionInv, NEW t \in Tab, NEW n, Good(n), t \notin n.external,
         tab' = [tab EXCEPT ![t] = n], Delivered(t, inbox'), ClosedSound(n, inbox'[t]),
         Grows, UNCHANGED <<lock, cookie, scope>>,
         Sending(n) <=> Sending(tab[t]), Announcing(n) => Announcing(tab[t]),
         inbox'[t] = <<>> => Agree(n, cookie, Names),
         inbox'[t] = <<>> /\ Forgot(t) => Forgetful(n)
  PROVE  SessionInv'
<1>0. Types /\ n \in TabState
  BY DEF SessionInv, Good
<1>1. tab'[t] = n /\ \A q \in Tab : q # t => tab'[q] = tab[q]
  BY <1>0 DEF Types
<1>2. Types'
  BY <1>0, <1>1 DEF Types, Delivered, Grows
<1>3. ASSUME NEW q \in Tab PROVE Good(tab'[q]) /\ ClosedSound(tab'[q], inbox'[q])
  <2>1. CASE q = t
    BY <1>1, <2>1
  <2>2. CASE q # t
    <3>1. tab'[q] = tab[q] /\ Good(tab[q]) /\ ClosedSound(tab[q], inbox[q])
      BY <1>1, <2>2 DEF SessionInv
    <3>2. inbox'[q] = inbox[q] \/ tab[q].open = TRUE
      BY <2>2 DEF Delivered
    <3>. QED
      BY <3>1, <3>2 DEF ClosedSound
  <2>. QED
    BY <2>1, <2>2
<1>4. ASSUME NEW q \in Tab PROVE lock' = q <=> Sending(tab'[q])
  <2>1. lock = q <=> Sending(tab[q])
    BY DEF SessionInv
  <2>2. Sending(tab'[q]) <=> Sending(tab[q])
    BY <1>1
  <2>. QED
    BY <2>1, <2>2
<1>5. ASSUME NEW q \in Tab PROVE Agrees(q)'
  <2>1. ASSUME NEW s, Agree(s, cookie, Names) PROVE Agree(s, cookie', Names')
    <3>1. Names \subseteq Names'
      BY <1>0, NamesGrow
    <3>. QED
      BY <2>1, <3>1 DEF Agree
  <2>2. CASE q = t
    BY <1>1, <2>1, <2>2 DEF Agrees
  <2>3. CASE q # t
    <3>1. inbox'[q] = <<>> => inbox[q] = <<>>
      BY <2>3 DEF Delivered
    <3>2. Agrees(q) /\ tab'[q] = tab[q]
      BY <1>1, <2>3 DEF SessionInv
    <3>. QED
      BY <2>1, <3>1, <3>2 DEF Agrees
  <2>. QED
    BY <2>2, <2>3
<1>6. ASSUME NEW p \in Tab, Announcing(tab'[p]), NEW q \in Tab \ {p} PROVE Forgot(q)'
  <2>1. Announcing(tab[p])
    BY <1>1, <1>6
  <2>2. Forgot(q)
    BY <2>1 DEF SessionInv
  <2>3. CASE q = t
    BY <1>1, <2>2, <2>3 DEF Forgot
  <2>4. CASE q # t
    <3>1. inbox'[q] = <<>> => inbox[q] = <<>>
      BY <2>4 DEF Delivered
    <3>. QED
      BY <1>1, <2>2, <2>4, <3>1 DEF Forgot
  <2>. QED
    BY <2>3, <2>4
<1>. QED
  BY <1>2, <1>3, <1>4, <1>5, <1>6 DEF SessionInv

\* ... as it does when the step tells the tab nothing new.
LEMMA CalmStepKeeps ==
  ASSUME SessionInv, NEW t \in Tab, NEW n, Calm(tab[t], n), t \notin n.external,
         tab[t].open = TRUE,
         tab' = [tab EXCEPT ![t] = n], Delivered(t, inbox'), inbox'[t] = inbox[t],
         Grows, UNCHANGED <<lock, cookie, scope>>
  PROVE  SessionInv'
<1>1. Good(n) /\ Good(tab[t]) /\ Agrees(t) /\ n.open = TRUE
  BY DEF SessionInv, Calm
<1>2. ClosedSound(n, inbox'[t])
  BY <1>1 DEF ClosedSound
<1>3. inbox'[t] = <<>> => Agree(n, cookie, Names)
  BY <1>1, CalmKeeps DEF Agrees
<1>4. inbox'[t] = <<>> /\ Forgot(t) => Forgetful(n)
  BY <1>1, CalmKeeps DEF Forgot
<1>5. (Sending(n) <=> Sending(tab[t])) /\ (Announcing(n) => Announcing(tab[t]))
  BY DEF Calm
<1>. QED
  BY <1>1, <1>2, <1>3, <1>4, <1>5, StepKeeps

\* Boxes that stay as they are.
LEMMA SameBoxes ==
  ASSUME SessionInv, NEW t \in Tab
  PROVE  Delivered(t, inbox) /\ (UNCHANGED inbox => Delivered(t, inbox'))
BY DEF SessionInv, Types, Delivered

-----------------------------------------------------------------------------
(* What users and timers start                                               *)

\* Asking again, on focus or by timer.
LEMMA RefreshKeeps ==
  ASSUME SessionInv, NEW t \in Tab, Refresh(t), UNCHANGED scope
  PROVE  SessionInv'
<1>. DEFINE n == StartMe(tab[t], "refresh")
<1>0. Types /\ Good(tab[t]) /\ Idle(t) /\ t \notin tab[t].external
  BY DEF SessionInv, Types, Refresh
<1>1. Free(tab[t]) /\ tab[t].open = TRUE
  BY <1>0, IdleFree
<1>2. "refresh" \in Why
  BY DEF Why
<1>3. Calm(tab[t], n) /\ SameFace(tab[t], n)
  BY <1>0, <1>1, <1>2, StartMeCalm
<1>4. t \notin n.external
  BY <1>0, <1>3 DEF SameFace
<1>5. tab' = [tab EXCEPT ![t] = n] /\ inbox' = inbox /\ UNCHANGED <<lock, cookie>> /\ Grows
  BY <1>0, SpendGrows DEF Refresh, Event
<1>. HIDE DEF n
<1>6. Delivered(t, inbox')
  BY <1>5, SameBoxes
<1>. QED
  BY <1>1, <1>3, <1>4, <1>5, <1>6, CalmStepKeeps

\* Asking again, from the error screen.
LEMMA RetryKeeps ==
  ASSUME SessionInv, NEW t \in Tab, Retry(t), UNCHANGED scope
  PROVE  SessionInv'
<1>. DEFINE m == StartMe(tab[t], "retry")
            n == [m EXCEPT !.status = "loading"]
<1>0. Types /\ Good(tab[t]) /\ Idle(t) /\ t \notin tab[t].external
  BY DEF SessionInv, Types, Retry
<1>1. Free(tab[t]) /\ tab[t].open = TRUE
  BY <1>0, IdleFree
<1>2. "retry" \in Why
  BY DEF Why
<1>3. Calm(tab[t], m) /\ SameFace(tab[t], m) /\ m \in TabState
  BY <1>0, <1>1, <1>2, StartMeCalm
<1>4. tab' = [tab EXCEPT ![t] = n] /\ inbox' = inbox /\ UNCHANGED <<lock, cookie>> /\ Grows
  BY <1>0, SpendGrows DEF Retry, Event
<1>. HIDE DEF m
<1>5. /\ n \in TabState /\ n.ops = m.ops /\ n.open = m.open /\ n.status = "loading"
      /\ n.challenge = m.challenge /\ n.poll = m.poll /\ n.external = m.external
  BY <1>3 DEF TabState
<1>. HIDE DEF n
<1>6. Calm(m, n)
  <2>1. Good(m)
    BY <1>3 DEF Calm
  <2>. QED
    BY <1>5, <2>1, SameOpsCalm
<1>7. Calm(tab[t], n)
  BY <1>3, <1>6, CalmTwice
<1>8. t \notin n.external
  BY <1>0, <1>3, <1>5 DEF SameFace
<1>9. Delivered(t, inbox')
  BY <1>4, SameBoxes
<1>. QED
  BY <1>1, <1>4, <1>7, <1>8, <1>9, CalmStepKeeps

\* login, completeTemporaryPassword and verifyMfa: earlier answers are out of date.
LEMMA BeginIdentityKeeps ==
  ASSUME SessionInv, NEW t \in Tab, NEW kind \in AllIdentityKind, NEW u \in User,
         BeginIdentity(t, kind, u), UNCHANGED scope
  PROVE  SessionInv'
<1>. DEFINE s == Advance(tab[t], {"intent", "local", "epoch", "gen"})
            x == Operation(NextId(s), 0, kind, "user", u)
            n == Plus(s, x)
<1>0. Types /\ Good(tab[t]) /\ Idle(t) /\ t \notin tab[t].external /\ tab[t] \in TabState
  BY DEF SessionInv, Types, BeginIdentity
<1>1. Free(tab[t]) /\ tab[t].open = TRUE /\ tab[t].status # "authenticated"
  BY <1>0, IdleFree DEF BeginIdentity
<1>2. Calm(tab[t], s) /\ SameFace(tab[t], s) /\ Free(s) /\ s \in TabState
  BY <1>0, <1>1, AdvanceCalm, AdvanceFields, AdvanceFree
<1>3. tab' = [tab EXCEPT ![t] = n] /\ inbox' = inbox /\ UNCHANGED <<lock, cookie>> /\ Grows
  BY <1>0, SpendGrows DEF BeginIdentity, Event, Plus
<1>. HIDE DEF s
<1>4. Good(s) /\ IsFiniteSet(s.ops)
  BY <1>2 DEF Calm, Good, OpsSound
<1>5. NextId(s) \in Nat
  BY <1>2, <1>4, SeatsAndIds
<1>6. /\ x \in Op /\ x.kind = kind /\ x.phase = "barrier" /\ x.answer = "none" /\ x.user = u
  <2>1. kind \in Kind /\ "user" \in Why /\ u \in Account /\ 0 \in Nat
    BY DEF Kind, Why, Account
  <2>. QED
    BY <1>5, <2>1, NewOperation
<1>. HIDE DEF x
<1>7. MayBegin(s, x)
  <2>1. x.kind # "logout" /\ x.kind # "me"
    BY <1>6 DEF AllIdentityKind
  <2>2. OpSound(x)
    BY <1>6, <2>1 DEF OpSound
  <2>. QED
    BY <1>1, <1>2, <1>6, <2>1, <2>2 DEF MayBegin, SameFace
<1>8. Calm(s, n) /\ SameFace(s, n)
  BY <1>2, <1>4, <1>6, <1>7, PlusCalm, PlusFields
<1>. HIDE DEF n
<1>9. Calm(tab[t], n) /\ t \notin n.external
  BY <1>0, <1>2, <1>8, CalmTwice DEF SameFace
<1>10. Delivered(t, inbox')
  BY <1>3, SameBoxes
<1>. QED
  BY <1>1, <1>3, <1>9, <1>10, CalmStepKeeps

\* A sign-out: nobody is signed in here, and every other operation is out of date.
LEMMA LogoutKeeps ==
  ASSUME SessionInv, NEW t \in Tab, Logout(t), UNCHANGED scope
  PROVE  SessionInv'
<1>. DEFINE a == Advance(tab[t], {"local", "epoch"})
            b == Advance(a, {"gen", "intent"})
            s == ClearSessionState(a)
            x == Operation(NextId(s), 0, "logout", "user", NoUser)
            n == Plus(s, x)
<1>0. Types /\ Good(tab[t]) /\ Idle(t) /\ t \notin tab[t].external /\ tab[t] \in TabState
  BY DEF SessionInv, Types, Logout
<1>1. Free(tab[t]) /\ tab[t].open = TRUE
  BY <1>0, IdleFree
<1>2. \A o \in tab[t].ops : o.kind # "logout"
  <2>1. tab[t].status = "authenticated" \/ tab[t].challenge
    BY DEF Logout
  <2>2. tab[t].challenge \in BOOLEAN
    BY <1>0 DEF TabState
  <2>. QED
    BY <1>0, <2>1, <2>2 DEF Good, PendingSound
<1>3. Calm(tab[t], a) /\ SameFace(tab[t], a) /\ Free(a) /\ a \in TabState
  BY <1>0, <1>1, AdvanceCalm, AdvanceFields, AdvanceFree
<1>4. /\ \A o \in a.ops : \E p \in tab[t].ops : SameRequest(p, o)
      /\ \A o \in a.ops : Stale(o, {"local", "epoch"})
  BY <1>0, AdvanceFrom
<1>5. tab' = [tab EXCEPT ![t] = n] /\ inbox' = inbox /\ UNCHANGED <<lock, cookie>> /\ Grows
  BY <1>0, SpendGrows DEF Logout, Event, Plus
<1>. HIDE DEF a
<1>6. /\ \A o \in b.ops : \E p \in a.ops : SameRequest(p, o)
      /\ \A o \in b.ops : Stale(o, {"gen", "intent"})
      /\ \A o \in b.ops : Stale(o, {"local", "epoch"})
  BY <1>3, <1>4, AdvanceFrom
<1>7. /\ s \in TabState /\ s.ops = b.ops /\ s.status = "anonymous" /\ s.challenge = FALSE
      /\ s.open = a.open /\ s.external = a.external
  BY <1>3, ClearFields
<1>8. Good(a) /\ Calm(a, s) /\ Free(b)
  BY <1>3, ClearCalm, AdvanceFree DEF Calm
<1>. HIDE DEF b, s
<1>9. Free(s) /\ Good(s) /\ IsFiniteSet(s.ops)
  BY <1>7, <1>8 DEF Free, Calm, Good, OpsSound
<1>10. NextId(s) \in Nat
  BY <1>7, <1>9, SeatsAndIds
<1>11. x \in Op /\ x.kind = "logout" /\ x.phase = "barrier" /\ x.answer = "none"
  <2>1. "logout" \in Kind /\ "user" \in Why /\ NoUser \in Account /\ 0 \in Nat
    BY DEF Kind, Why, Account
  <2>. QED
    BY <1>10, <2>1, NewOperation
<1>. HIDE DEF x
<1>12. MayBegin(s, x)
  <2>1. OpSound(x)
    BY <1>11 DEF OpSound, AllIdentityKind
  <2>2. ASSUME NEW o \in s.ops PROVE o.kind # "logout" /\ o.gen = FALSE /\ o.local = FALSE
    <3>1. o.kind # "logout"
      BY <1>2, <1>4, <1>6, <1>7 DEF SameRequest
    <3>2. Stale(o, {"gen", "intent"}) /\ Stale(o, {"local", "epoch"})
      BY <1>6, <1>7
    <3>. QED
      BY <3>1, <3>2 DEF Stale
  <2>. QED
    BY <1>7, <1>11, <2>1, <2>2 DEF MayBegin
<1>13. Calm(s, n) /\ SameFace(s, n)
  BY <1>7, <1>9, <1>11, <1>12, PlusCalm, PlusFields
<1>. HIDE DEF n
<1>14. Calm(tab[t], n) /\ t \notin n.external
  BY <1>0, <1>3, <1>7, <1>8, <1>13, CalmTwice DEF SameFace
<1>15. Delivered(t, inbox')
  BY <1>5, SameBoxes
<1>. QED
  BY <1>1, <1>5, <1>14, <1>15, CalmStepKeeps

\* changePassword and its like, and resetPassword.
LEMMA RotateSessionKeeps ==
  ASSUME SessionInv, NEW t \in Tab, NEW kind \in {"rotate", "reset"}, NEW u \in User,
         RotateSession(t, kind, u), UNCHANGED scope
  PROVE  SessionInv'
<1>. DEFINE s == Advance(tab[t], {"epoch"})
            x == Operation(NextId(s), NextSeat(s), kind, "user", u)
            n == Plus(s, x)
<1>0. Types /\ Good(tab[t]) /\ Idle(t) /\ t \notin tab[t].external /\ tab[t] \in TabState
  BY DEF SessionInv, Types, RotateSession
<1>1. Free(tab[t]) /\ tab[t].open = TRUE
  BY <1>0, IdleFree
<1>2. Calm(tab[t], s) /\ SameFace(tab[t], s) /\ Free(s) /\ s \in TabState
  BY <1>0, <1>1, AdvanceCalm, AdvanceFields, AdvanceFree
<1>3. tab' = [tab EXCEPT ![t] = n] /\ inbox' = inbox /\ UNCHANGED <<lock, cookie>> /\ Grows
  BY <1>0, SpendGrows DEF RotateSession, Event, Plus
<1>. HIDE DEF s
<1>4. Good(s) /\ IsFiniteSet(s.ops)
  BY <1>2 DEF Calm, Good, OpsSound
<1>5. NextId(s) \in Nat /\ NextSeat(s) \in Nat /\ NextSeat(s) > 0 /\ \A o \in s.ops : o.seat < NextSeat(s)
  BY <1>2, <1>4, SeatsAndIds
<1>6. /\ x \in Op /\ x.kind = kind /\ x.phase = "queued" /\ x.answer = "none"
      /\ x.seat = NextSeat(s)
  <2>1. kind \in Kind /\ "user" \in Why /\ u \in Account
    BY DEF Kind, Why, Account
  <2>2. PICK k \in Nat : k = NextSeat(s) /\ k # 0
    BY <1>5
  <2>3. PICK y : y = Operation(NextId(s), k, kind, "user", u)
    OBVIOUS
  <2>4. /\ y \in Op /\ y.kind = kind /\ y.phase = (IF k = 0 THEN "barrier" ELSE "queued")
        /\ y.answer = "none" /\ y.seat = k
    BY <1>5, <2>1, <2>3, NewOperation
  <2>. QED
    BY <2>2, <2>3, <2>4
<1>. HIDE DEF x
<1>7. MayBegin(s, x)
  <2>1. x.kind \notin Changes /\ x.kind # "logout" /\ x.kind \notin AllIdentityKind /\ x.kind # "me"
    BY <1>6 DEF Changes, AllIdentityKind
  <2>2. OpSound(x)
    BY <1>6, <2>1 DEF OpSound
  <2>. QED
    BY <1>5, <1>6, <2>1, <2>2 DEF MayBegin
<1>8. Calm(s, n) /\ SameFace(s, n)
  BY <1>2, <1>4, <1>6, <1>7, PlusCalm, PlusFields
<1>. HIDE DEF n
<1>9. Calm(tab[t], n) /\ t \notin n.external
  BY <1>0, <1>2, <1>8, CalmTwice DEF SameFace
<1>10. Delivered(t, inbox')
  BY <1>3, SameBoxes
<1>. QED
  BY <1>1, <1>3, <1>9, <1>10, CalmStepKeeps

\* A tab with an operation is open.
LEMMA BusyOpen ==
  ASSUME SessionInv, NEW t \in Tab, NEW o \in tab[t].ops
  PROVE  tab[t].open = TRUE /\ o \in Op
<1>1. ClosedSound(tab[t], inbox[t]) /\ tab[t] \in TabState
  BY DEF SessionInv, Types
<1>2. tab[t].open \in BOOLEAN /\ o \in Op
  BY <1>1 DEF TabState
<1>. QED
  BY <1>1, <1>2 DEF ClosedSound

\* An operation whose barrier is over takes its seat in the queue: a sign-out has made all
\* the others out of date, a sign-in that is kept does so now.
LEMMA PassBarrierKeeps ==
  ASSUME SessionInv, NEW t \in Tab, NEW o \in tab[t].ops, PassBarrier(t, o), UNCHANGED scope
  PROVE  SessionInv'
<1>. DEFINE w == Without(tab[t], o)
            s == Advance(w, {"epoch", "gen"})
            x == [o EXCEPT !.phase = "queued", !.seat = NextSeat(tab[t]), !.gen = TRUE,
                           !.epoch = TRUE, !.intent = TRUE]
<1>0. /\ Types /\ Good(tab[t]) /\ t \notin tab[t].external /\ tab[t] \in TabState
      /\ o.phase = "barrier" /\ o \in Op /\ tab[t].open = TRUE
  BY BusyOpen DEF SessionInv, Types, PassBarrier
<1>1. /\ inbox' = inbox /\ UNCHANGED <<lock, cookie>> /\ Grows /\ Delivered(t, inbox')
      /\ \/ o.kind = "logout" /\ tab' = [tab EXCEPT ![t] = Plus(w, x)]
         \/ o.kind # "logout" /\ o.local /\ tab' = [tab EXCEPT ![t] = Plus(s, x)]
         \/ tab' = [tab EXCEPT ![t] = w]
  <2>1. inbox' = inbox /\ UNCHANGED <<lock, cookie>> /\ Grows /\ Delivered(t, inbox')
    BY <1>0, SpendGrows, SameBoxes DEF PassBarrier
  <2>2. Replace(tab[t], o, x) = Plus(w, x)
    BY <1>0 DEF Replace, Plus, Without, TabState
  <2>. QED
    BY <2>1, <2>2 DEF PassBarrier, Plus
<1>2. Calm(tab[t], w) /\ w \in TabState /\ w.ops = tab[t].ops \ {o} /\ SameFace(tab[t], w)
  BY <1>0, WithoutCalm, WithoutFields
<1>. HIDE DEF w
<1>3. NextSeat(tab[t]) \in Nat /\ \A p \in tab[t].ops : p.seat < NextSeat(tab[t])
  BY <1>0, SeatsAndIds DEF Good, OpsSound
<1>4. /\ x \in Op /\ x.phase = "queued" /\ x.seat = NextSeat(tab[t]) /\ x.kind = o.kind
      /\ x.answer = o.answer /\ x.user = o.user
  BY <1>0, <1>3 DEF Op, Phase
<1>. HIDE DEF x
<1>5. OpSound(x) /\ x.kind # "me"
  <2>1. OpSound(o)
    BY <1>0 DEF Good, OpsSound
  <2>. QED
    BY <1>0, <1>4, <2>1 DEF OpSound
<1>6. o.kind \in Changes => tab[t].status # "authenticated"
  BY <1>0 DEF Good, PendingSound
<1>7. CASE o.kind = "logout" /\ tab' = [tab EXCEPT ![t] = Plus(w, x)]
  <2>1. \A p \in w.ops : p.gen = FALSE /\ p.local = FALSE /\ p.kind # "logout"
    BY <1>0, <1>2, <1>7 DEF Good, QueueSound, OpsSound
  <2>2. Free(w) /\ Good(w)
    BY <1>2, <2>1 DEF Free, Calm
  <2>3. tab[t].challenge = FALSE /\ tab[t].status # "authenticated"
    BY <1>0, <1>7 DEF Good, PendingSound
  <2>4. MayBegin(w, x)
    BY <1>2, <1>3, <1>4, <1>5, <2>1, <2>3 DEF MayBegin, SameFace
  <2>5. Calm(w, Plus(w, x)) /\ SameFace(w, Plus(w, x))
    BY <1>2, <1>4, <2>2, <2>4, PlusCalm, PlusFields
  <2>6. Calm(tab[t], Plus(w, x)) /\ t \notin Plus(w, x).external
    BY <1>0, <1>2, <2>5, CalmTwice DEF SameFace
  <2>. QED
    BY <1>0, <1>1, <1>7, <2>6, CalmStepKeeps
<1>8. CASE o.kind # "logout" /\ o.local /\ tab' = [tab EXCEPT ![t] = Plus(s, x)]
  <2>1. o.local = TRUE
    <3>1. o.local \in BOOLEAN
      BY <1>0 DEF Op
    <3>. QED
      BY <1>8, <3>1
  <2>2. Free(w) /\ Good(w)
    <3>1. ASSUME NEW l \in w.ops, l.kind = "logout", l.phase = "barrier" PROVE FALSE
      <4>1. l \in tab[t].ops /\ l # o
        BY <1>2, <1>8, <3>1
      <4>2. o.local = FALSE
        BY <1>0, <3>1, <4>1 DEF Good, QueueSound
      <4>. QED
        BY <2>1, <4>2
    <3>. QED
      BY <1>2, <3>1 DEF Free, Calm
  <2>3. Calm(w, s) /\ SameFace(w, s) /\ Free(s) /\ s \in TabState
    BY <1>2, <2>2, AdvanceCalm, AdvanceFields, AdvanceFree
  <2>4. /\ \A a \in s.ops : \E p \in w.ops : SameRequest(p, a)
        /\ \A a \in s.ops : Stale(a, {"epoch", "gen"})
    BY <1>2, AdvanceFrom
  <2>. HIDE DEF s
  <2>5. MayBegin(s, x)
    <3>1. \A a \in s.ops : a.seat < x.seat
      BY <1>2, <1>3, <1>4, <2>4 DEF SameRequest
    <3>2. ASSUME NEW a \in s.ops PROVE a.gen = FALSE
      BY <2>4 DEF Stale
    <3>3. x.kind \in Changes => s.status # "authenticated"
      BY <1>2, <1>4, <1>6, <2>3 DEF SameFace
    <3>. QED
      BY <1>4, <1>5, <1>8, <3>1, <3>2, <3>3 DEF MayBegin
  <2>6. Calm(s, Plus(s, x)) /\ SameFace(s, Plus(s, x))
    BY <1>4, <2>3, <2>5, PlusCalm, PlusFields DEF Calm
  <2>7. Calm(tab[t], Plus(s, x)) /\ t \notin Plus(s, x).external
    BY <1>0, <1>2, <2>3, <2>6, CalmTwice DEF SameFace
  <2>. QED
    BY <1>0, <1>1, <1>8, <2>7, CalmStepKeeps
<1>9. CASE tab' = [tab EXCEPT ![t] = w]
  <2>1. t \notin w.external
    BY <1>0, <1>2 DEF SameFace
  <2>. QED
    BY <1>0, <1>1, <1>2, <1>9, <2>1, CalmStepKeeps
<1>. QED
  BY <1>1, <1>7, <1>8, <1>9

-----------------------------------------------------------------------------
(* What an answer does to the tab                                            *)

\* Signing in keeps a tab sound when no change of identity is pending.
LEMMA ApplyGood ==
  ASSUME NEW s, Good(s), NEW u \in User, \A a \in s.ops : a.kind \notin Changes
  PROVE  LET n == ApplySession(s, u) IN
         /\ n \in TabState /\ Good(n) /\ n.ops = s.ops /\ n.poll = s.poll /\ n.open = s.open
         /\ n.external = s.external /\ n.status = "authenticated" /\ n.user = u
<1>. DEFINE n == ApplySession(s, u)
<1>0. s \in TabState /\ u \in Account
  BY DEF Good, Account
<1>1. /\ n \in TabState /\ n.ops = s.ops /\ n.poll = s.poll /\ n.open = s.open
      /\ n.external = s.external /\ n.status = "authenticated" /\ n.user = u
  BY <1>0 DEF ApplySession, TabState
<1>. HIDE DEF n
<1>2. OpsSound(n)
  BY <1>1 DEF Good, OpsSound
<1>3. QueueSound(n)
  BY <1>1 DEF Good, QueueSound
<1>4. PendingSound(n)
  BY <1>1 DEF Good, PendingSound, Changes
<1>. QED
  BY <1>1, <1>2, <1>3, <1>4 DEF Good, n

\* The outcomes of an answer to api.me.
LEMMA SettleMeCases ==
  ASSUME NEW t \in Tab, NEW o \in Op, SettleMe(t, o)
  PROVE  LET w == Without(tab[t], o) IN
         \/ /\ o.answer = "session" /\ o.gen = TRUE /\ o.epoch = TRUE /\ o.intent = TRUE
            /\ tab' = [tab EXCEPT ![t] = ApplySession(Advance(w, {"epoch"}), o.user)]
            /\ inbox' = inbox
         \/ /\ o.answer = "anonymous" /\ o.epoch = TRUE /\ o.intent = TRUE
            /\ tab' = [tab EXCEPT ![t] = ClearSessionState(Advance(w, {"epoch"}))]
            /\ inbox' = inbox \/ inbox' = Post(t, inbox, "boundary")
         \/ /\ o.answer = "lost" /\ o.gen = TRUE /\ o.epoch = TRUE /\ o.intent = TRUE
            /\ o.why # "refresh"
            /\ tab' = [tab EXCEPT ![t] = [w EXCEPT !.status = "unavailable"]]
            /\ inbox' = inbox
         \/ /\ o.answer = "session" => ~(o.gen = TRUE /\ o.epoch = TRUE /\ o.intent = TRUE)
            /\ o.answer = "anonymous" => ~(o.epoch = TRUE /\ o.intent = TRUE)
            /\ o.answer = "lost" =>
                 ~(o.gen = TRUE /\ o.epoch = TRUE /\ o.intent = TRUE /\ o.why # "refresh")
            /\ tab' = [tab EXCEPT ![t] = w]
            /\ inbox' = inbox
<1>. DEFINE w == Without(tab[t], o)
<1>1. PICK g \in BOOLEAN, e \in BOOLEAN, i \in BOOLEAN :
        o.gen = g /\ o.epoch = e /\ o.intent = i
  BY DEF Op
<1>2. IsCurrent(o) <=> g /\ e /\ i
  BY <1>1 DEF IsCurrent
<1>3. PICK f \in BOOLEAN : f = (o.answer = "anonymous" /\ e /\ i)
  OBVIOUS
<1>4. f <=> (o.answer = "anonymous" /\ o.epoch /\ o.intent)
  BY <1>1, <1>3
<1>5. /\ tab' = [tab EXCEPT ![t] =
            CASE o.answer = "session" /\ IsCurrent(o) ->
                   ApplySession(Advance(w, {"epoch"}), o.user)
              [] f -> ClearSessionState(Advance(w, {"epoch"}))
              [] o.answer = "lost" /\ IsCurrent(o) /\ o.why # "refresh" ->
                   [w EXCEPT !.status = "unavailable"]
              [] OTHER -> w]
      /\ inbox' = IF f /\ o.why # "reconcile" THEN Post(t, inbox, "boundary") ELSE inbox
  <2>1. f = (o.answer = "anonymous" /\ o.epoch /\ o.intent)
    BY <1>4
  <2>. QED
    BY <2>1 DEF SettleMe
<1>. HIDE DEF w
<1>. QED
  BY <1>1, <1>2, <1>3, <1>5 DEF w

\* An answer that is applied names the user of the cookie.
LEMMA LiveApplies ==
  ASSUME SessionInv, NEW t \in Tab, NEW o \in tab[t].ops, Live(o)
  PROVE  /\ inbox[t] = <<>> => Says(o) \in Names
         /\ inbox[t] = <<>> => ~Forgot(t)
<1>1. Agrees(t)
  BY DEF SessionInv
<1>. QED
  BY <1>1 DEF Agrees, Agree, Forgot, Forgetful

\* A tab signs in with such an answer.
LEMMA ApplyKeeps ==
  ASSUME SessionInv, NEW t \in Tab, NEW o \in tab[t].ops, Idle(t), Live(o), o.answer = "session",
         o.kind \in Asks, o.gen = TRUE, o.user \in User,
         NEW a, Calm(tab[t], a), \A p \in a.ops : \E q \in tab[t].ops \ {o} : p.kind = q.kind,
         t \notin a.external,
         NEW n, n \in TabState, n.ops = a.ops, n.poll = a.poll, n.open = a.open,
         n.external = a.external, n.status = "authenticated", n.user = o.user, Good(n),
         tab' = [tab EXCEPT ![t] = n], inbox' = inbox, UNCHANGED <<lock, cookie, scope, spent>>
  PROVE  SessionInv'
<1>1. Good(tab[t]) /\ tab[t].open = TRUE /\ Types /\ Agrees(t)
  BY IdleFree DEF SessionInv
<1>2. Grows /\ Delivered(t, inbox')
  BY <1>1, SpendGrows, SameBoxes
<1>3. n.open = TRUE
  BY <1>1 DEF Calm
<1>4. ClosedSound(n, inbox'[t])
  BY <1>3 DEF ClosedSound
<1>5. (Sending(n) <=> Sending(tab[t])) /\ (Announcing(n) => Announcing(tab[t]))
  BY DEF Calm, Sending, Announcing
<1>6. ASSUME inbox'[t] = <<>> PROVE Agree(n, cookie, Names)
  <2>1. Agree(a, cookie, Names)
    BY <1>1, <1>6, CalmKeeps DEF Agrees
  <2>2. o.user \in Names
    BY <1>6, LiveApplies DEF Says
  <2>. QED
    BY <2>1, <2>2 DEF Agree
<1>7. inbox'[t] = <<>> /\ Forgot(t) => Forgetful(n)
  BY LiveApplies
<1>. QED
  BY <1>2, <1>4, <1>5, <1>6, <1>7, StepKeeps

\* What commitSession and the handlers of other answers to api.me leave.
LEMMA SettleMeKeeps ==
  ASSUME SessionInv, NEW t \in Tab, NEW o \in tab[t].ops, Idle(t), o.phase = "answered",
         o.kind = "me", SettleMe(t, o), UNCHANGED <<lock, cookie, spent, scope>>
  PROVE  SessionInv'
<1>. DEFINE w == Without(tab[t], o)
            a == Advance(w, {"epoch"})
<1>0. /\ Types /\ Good(tab[t]) /\ t \notin tab[t].external /\ tab[t] \in TabState
      /\ o \in Op /\ tab[t].open = TRUE /\ Grows /\ Delivered(t, inbox)
  BY BusyOpen, SpendGrows, SameBoxes DEF SessionInv, Types
<1>1. Calm(tab[t], w) /\ w \in TabState /\ w.ops = tab[t].ops \ {o} /\ SameFace(tab[t], w)
  BY <1>0, WithoutCalm, WithoutFields
<1>2. Calm(tab[t], a) /\ SameFace(tab[t], a) /\ a \in TabState
  <2>1. Calm(w, a) /\ SameFace(w, a) /\ a \in TabState
    BY <1>1, AdvanceCalm, AdvanceFields DEF Calm
  <2>. HIDE DEF a
  <2>. QED
    BY <1>1, <2>1, CalmTwice DEF SameFace
<1>3. \A p \in a.ops : \E q \in tab[t].ops \ {o} : p.kind = q.kind
  <2>1. \A p \in a.ops : \E q \in w.ops : SameRequest(q, p)
    BY <1>1, AdvanceFrom
  <2>. QED
    BY <1>1, <2>1 DEF SameRequest
<1>4. CASE /\ o.answer = "session" /\ o.gen = TRUE /\ o.epoch = TRUE /\ o.intent = TRUE
           /\ tab' = [tab EXCEPT ![t] = ApplySession(a, o.user)]
           /\ inbox' = inbox
  <2>. HIDE DEF a
  <2>1. o.user \in User
    BY <1>0, <1>4 DEF Good, OpsSound, OpSound
  <2>2. Live(o) /\ o.kind \in Asks
    BY <1>4 DEF Live, Asks
  <2>3. \A p \in a.ops : p.kind \notin Changes
    BY <1>0, <1>3, <1>4, <2>2, AnswerAlone
  <2>4. PICK n : n = ApplySession(a, o.user)
    OBVIOUS
  <2>5. /\ n \in TabState /\ Good(n) /\ n.ops = a.ops /\ n.poll = a.poll /\ n.open = a.open
        /\ n.external = a.external /\ n.status = "authenticated" /\ n.user = o.user
    BY <1>2, <2>1, <2>3, <2>4, ApplyGood DEF Calm
  <2>6. t \notin a.external
    BY <1>0, <1>2 DEF SameFace
  <2>. QED
    BY <1>2, <1>3, <1>4, <2>1, <2>2, <2>4, <2>5, <2>6, ApplyKeeps
<1>5. CASE /\ tab' = [tab EXCEPT ![t] = ClearSessionState(a)]
           /\ inbox' = inbox \/ inbox' = Post(t, inbox, "boundary")
  <2>. DEFINE n == ClearSessionState(a)
  <2>. HIDE DEF a
  <2>1. Calm(a, n) /\ n.external = a.external
    BY <1>2, ClearCalm, ClearFields DEF Calm
  <2>. HIDE DEF n
  <2>2. Calm(tab[t], n) /\ t \notin n.external
    BY <1>0, <1>2, <2>1, CalmTwice DEF SameFace
  <2>3. Delivered(t, inbox') /\ inbox'[t] = inbox[t]
    BY <1>0, <1>5, PostDelivers, ZenonT(40)
  <2>4. tab' = [tab EXCEPT ![t] = n]
    BY <1>5 DEF n
  <2>. QED
    BY <1>0, <2>2, <2>3, <2>4, CalmStepKeeps
<1>6. CASE tab' = [tab EXCEPT ![t] = [w EXCEPT !.status = "unavailable"]] /\ inbox' = inbox
  <2>. HIDE DEF w
  <2>. DEFINE n == [w EXCEPT !.status = "unavailable"]
  <2>1. /\ n \in TabState /\ n.ops = w.ops /\ n.open = w.open /\ n.status = "unavailable"
        /\ n.challenge = w.challenge /\ n.poll = w.poll /\ n.external = w.external
    BY <1>1 DEF TabState
  <2>. HIDE DEF n
  <2>2. Calm(w, n)
    BY <1>1, <2>1, SameOpsCalm, ZenonT(40) DEF Calm
  <2>3. Calm(tab[t], n) /\ t \notin n.external
    BY <1>0, <1>1, <2>1, <2>2, CalmTwice DEF SameFace
  <2>4. tab' = [tab EXCEPT ![t] = n]
    BY <1>6 DEF n
  <2>. QED
    BY <1>0, <1>6, <2>3, <2>4, CalmStepKeeps
<1>7. CASE tab' = [tab EXCEPT ![t] = w] /\ inbox' = inbox
  <2>1. t \notin w.external
    BY <1>0, <1>1 DEF SameFace
  <2>. QED
    BY <1>0, <1>1, <1>7, <2>1, CalmStepKeeps
<1>. QED
  BY <1>0, <1>4, <1>5, <1>6, <1>7, SettleMeCases

\* The outcomes of an answer to an identity request.
LEMMA SettleIdentityCases ==
  ASSUME NEW t \in Tab, tab[t] \in TabState, NEW o \in Op, OpSound(o), o.phase = "answered",
         o.kind \in AllIdentityKind, SettleIdentity(t, o)
  PROVE  LET w == Without(tab[t], o)
             paused == [w EXCEPT !.mfa = @ \/ o.answer = "mfa",
                                 !.challenge = @ /\ ~(o.kind = "temporary" /\ o.answer = "mfa")]
         IN
         /\ inbox' = inbox
         /\ \/ /\ o.gen = FALSE /\ o.answer \in {"session", "mfa"}
               /\ tab' = [tab EXCEPT ![t] = StartMe(w, "reconcile")]
            \/ /\ o.gen = FALSE /\ o.answer \in {"password", "choose"}
               /\ tab' = [tab EXCEPT ![t] = w]
            \/ /\ o.gen = TRUE /\ o.answer = "session"
               /\ tab' = [tab EXCEPT ![t] = [ApplySession(w, o.user) EXCEPT !.mfa = FALSE]]
            \/ /\ o.gen = TRUE /\ o.answer = "password"
               /\ tab' = [tab EXCEPT ![t] = [ClearSessionState(w) EXCEPT !.challenge = TRUE]]
            \/ /\ o.gen = TRUE /\ o.answer = "choose"
               /\ tab' = [tab EXCEPT ![t] = ClearSessionState(w)]
            \/ /\ o.answer \in {"mfa", "refused", "lost"}
               /\ \/ o.gen = FALSE /\ ~(o.kind = "temporary" /\ o.answer = "mfa")
                  \/ paused.user # NoUser
               /\ tab' = [tab EXCEPT ![t] = paused]
            \/ /\ o.gen = TRUE /\ o.answer \in {"mfa", "refused", "lost"}
               /\ paused.user = NoUser
               /\ tab' = [tab EXCEPT ![t] = [paused EXCEPT !.status = "anonymous"]]
<1>. DEFINE w == Without(tab[t], o)
            paused == [w EXCEPT !.mfa = @ \/ o.answer = "mfa",
                                !.challenge = @ /\ ~(o.kind = "temporary" /\ o.answer = "mfa")]
<1>1. PICK g \in BOOLEAN : o.gen = g
  BY DEF Op
<1>2. o.answer \in {"session", "mfa", "password", "choose", "refused", "lost"}
  BY DEF OpSound
<1>3. PICK h \in BOOLEAN : h = (o.kind = "temporary" /\ o.answer \in {"session", "mfa"})
  OBVIOUS
<1>4. /\ tab' = [tab EXCEPT ![t] =
           CASE ~g /\ (o.answer = "session" \/ h) -> StartMe(w, "reconcile")
             [] ~g /\ o.answer \in {"password", "choose"} -> w
             [] g /\ o.answer = "session" -> [ApplySession(w, o.user) EXCEPT !.mfa = FALSE]
             [] g /\ o.answer = "password" -> [ClearSessionState(w) EXCEPT !.challenge = TRUE]
             [] g /\ o.answer = "choose" -> ClearSessionState(w)
             [] o.answer \in {"mfa", "refused", "lost"} /\ ~(~g /\ h) ->
                  SettleWithoutSession(paused, o)]
      /\ inbox' = inbox
  BY <1>1, <1>3 DEF SettleIdentity
<1>5. SettleWithoutSession(paused, o) =
        IF g /\ paused.user = NoUser THEN [paused EXCEPT !.status = "anonymous"] ELSE paused
  BY <1>1 DEF SettleWithoutSession
<1>. HIDE DEF w, paused
<1>. QED
  BY <1>1, <1>2, <1>3, <1>4, <1>5 DEF w, paused

\* What login, completeTemporaryPassword and verifyMfa leave.
LEMMA SettleIdentityKeeps ==
  ASSUME SessionInv, NEW t \in Tab, NEW o \in tab[t].ops, Idle(t), o.phase = "answered",
         o.kind \in AllIdentityKind, SettleIdentity(t, o), UNCHANGED <<lock, cookie, spent, scope>>
  PROVE  SessionInv'
<1>. DEFINE w == Without(tab[t], o)
            paused == [w EXCEPT !.mfa = @ \/ o.answer = "mfa",
                                !.challenge = @ /\ ~(o.kind = "temporary" /\ o.answer = "mfa")]
<1>0. /\ Types /\ Good(tab[t]) /\ t \notin tab[t].external /\ tab[t] \in TabState
      /\ o \in Op /\ tab[t].open = TRUE /\ Grows /\ Delivered(t, inbox) /\ Free(tab[t])
  BY BusyOpen, SpendGrows, SameBoxes, IdleFree DEF SessionInv, Types
<1>1. Calm(tab[t], w) /\ w \in TabState /\ w.ops = tab[t].ops \ {o} /\ SameFace(tab[t], w)
  BY <1>0, WithoutCalm, WithoutFields
<1>2. OpSound(o)
  BY <1>0 DEF Good, OpsSound
<1>3. PICK pa : pa = paused
  OBVIOUS
<1>4. /\ inbox' = inbox
      /\ \/ tab' = [tab EXCEPT ![t] = StartMe(w, "reconcile")]
         \/ tab' = [tab EXCEPT ![t] = w]
         \/ /\ o.gen = TRUE /\ o.answer = "session"
            /\ tab' = [tab EXCEPT ![t] = [ApplySession(w, o.user) EXCEPT !.mfa = FALSE]]
         \/ /\ o.gen = TRUE /\ o.answer = "password"
            /\ tab' = [tab EXCEPT ![t] = [ClearSessionState(w) EXCEPT !.challenge = TRUE]]
         \/ tab' = [tab EXCEPT ![t] = ClearSessionState(w)]
         \/ tab' = [tab EXCEPT ![t] = pa]
         \/ tab' = [tab EXCEPT ![t] = [pa EXCEPT !.status = "anonymous"]]
  BY <1>0, <1>2, <1>3, SettleIdentityCases
<1>5. Good(w) /\ Free(w) /\ t \notin w.external
  BY <1>0, <1>1 DEF Calm, Free, SameFace
<1>6. pa \in TabState /\ pa.ops = w.ops /\ pa.open = w.open /\ pa.status = w.status
      /\ pa.user = w.user /\ pa.poll = w.poll /\ pa.external = w.external
      /\ (pa.challenge = TRUE => w.challenge = TRUE)
  <2>1. w.challenge \in BOOLEAN /\ w.mfa \in BOOLEAN
    BY <1>1 DEF TabState
  <2>2. PICK c \in BOOLEAN, m \in BOOLEAN :
          /\ c = (w.challenge /\ ~(o.kind = "temporary" /\ o.answer = "mfa"))
          /\ m = (w.mfa \/ o.answer = "mfa")
    BY <2>1
  <2>. HIDE DEF w
  <2>3. pa = [w EXCEPT !.mfa = m, !.challenge = c]
    BY <1>1, <1>3, <2>2 DEF TabState
  <2>4. c = TRUE => w.challenge = TRUE
    BY <2>1, <2>2
  <2>. QED
    BY <1>1, <2>2, <2>3, <2>4 DEF TabState
<1>. HIDE DEF w, paused
<1>7. Calm(w, pa)
  BY <1>5, <1>6, SameOpsCalm
<1>8. ASSUME NEW n, Calm(w, n), n.external = w.external, tab' = [tab EXCEPT ![t] = n], inbox' = inbox
      PROVE  SessionInv'
  <2>1. Calm(tab[t], n) /\ t \notin n.external
    BY <1>1, <1>5, <1>8, CalmTwice
  <2>. QED
    BY <1>0, <1>8, <2>1, CalmStepKeeps
<1>9. CASE tab' = [tab EXCEPT ![t] = StartMe(w, "reconcile")]
  <2>1. "reconcile" \in Why
    BY DEF Why
  <2>2. Calm(w, StartMe(w, "reconcile")) /\ StartMe(w, "reconcile").external = w.external
    BY <1>5, <2>1, StartMeCalm DEF SameFace
  <2>. QED
    BY <1>4, <1>8, <1>9, <2>2
<1>10. CASE tab' = [tab EXCEPT ![t] = w]
  BY <1>0, <1>1, <1>4, <1>5, <1>10, CalmStepKeeps
<1>11. CASE /\ o.gen = TRUE /\ o.answer = "session"
            /\ tab' = [tab EXCEPT ![t] = [ApplySession(w, o.user) EXCEPT !.mfa = FALSE]]
  <2>1. o.user \in User
    BY <1>2, <1>11 DEF OpSound
  <2>2. Live(o) /\ o.kind \in Asks
    BY <1>11 DEF Live, Asks
  <2>3. \A p \in w.ops : p.kind \notin Changes
    BY <1>0, <1>1, <1>11, <2>2, AnswerAlone
  <2>4. PICK m : m = ApplySession(w, o.user)
    OBVIOUS
  <2>5. /\ m \in TabState /\ Good(m) /\ m.ops = w.ops /\ m.poll = w.poll /\ m.open = w.open
        /\ m.external = w.external /\ m.status = "authenticated" /\ m.user = o.user
    BY <1>5, <2>1, <2>3, <2>4, ApplyGood
  <2>6. PICK n : n = [m EXCEPT !.mfa = FALSE]
    OBVIOUS
  <2>7. /\ n \in TabState /\ n.ops = m.ops /\ n.poll = m.poll /\ n.open = m.open
        /\ n.external = m.external /\ n.status = m.status /\ n.user = m.user
        /\ n.challenge = m.challenge
    BY <2>5, <2>6 DEF TabState
  <2>8. Good(n)
    BY <2>5, <2>7, SameOpsCalm DEF Calm
  <2>9. \A p \in w.ops : \E q \in tab[t].ops \ {o} : p.kind = q.kind
    BY <1>1
  <2>10. tab' = [tab EXCEPT ![t] = n]
    BY <1>11, <2>4, <2>6
  <2>11. /\ n.ops = w.ops /\ n.poll = w.poll /\ n.open = w.open
         /\ n.external = w.external /\ n.status = "authenticated" /\ n.user = o.user
         /\ inbox' = inbox /\ o.gen = TRUE /\ o.answer = "session" /\ Calm(tab[t], w)
    BY <1>1, <1>4, <1>11, <2>5, <2>7
  <2>. QED
    BY <1>5, <2>1, <2>2, <2>7, <2>8, <2>9, <2>10, <2>11, ApplyKeeps
<1>12. CASE /\ o.gen = TRUE /\ o.answer = "password"
            /\ tab' = [tab EXCEPT ![t] = [ClearSessionState(w) EXCEPT !.challenge = TRUE]]
  <2>1. PICK m : m = ClearSessionState(w)
    OBVIOUS
  <2>2. Calm(w, m) /\ m \in TabState /\ m.external = w.external /\ m.status = "anonymous"
    BY <1>1, <1>5, <2>1, ClearCalm, ClearFields
  <2>3. PICK n : n = [m EXCEPT !.challenge = TRUE]
    OBVIOUS
  <2>4. /\ n \in TabState /\ n.ops = m.ops /\ n.poll = m.poll /\ n.open = m.open
        /\ n.external = m.external /\ n.status = m.status /\ n.user = m.user
    BY <2>2, <2>3 DEF TabState
  <2>5. \A p \in m.ops : p.kind # "logout"
    <3>1. \A p \in w.ops : p.kind \notin Changes
      BY <1>0, <1>1, <1>12, AnswerAlone DEF Asks
    <3>2. \A p \in m.ops : \E q \in w.ops : SameRequest(q, p)
      BY <1>1, <2>1, ClearFields, AdvanceFrom
    <3>. QED
      BY <3>1, <3>2 DEF SameRequest, Changes
  <2>6. Good(m)
    BY <2>2 DEF Calm
  <2>7. OpsSound(n) /\ QueueSound(n)
    BY <2>4, <2>6 DEF Good, OpsSound, QueueSound
  <2>8. PendingSound(n)
    BY <2>2, <2>4, <2>5, <2>6 DEF Good, PendingSound
  <2>9. Calm(m, n)
    BY <2>4, <2>7, <2>8 DEF Calm, Calmer, Good, Sending, Announcing
  <2>10. Calm(w, n) /\ n.external = w.external
    BY <2>2, <2>4, <2>9, CalmTwice
  <2>. QED
    BY <1>4, <1>8, <1>12, <2>1, <2>3, <2>10
<1>13. CASE tab' = [tab EXCEPT ![t] = ClearSessionState(w)]
  BY <1>1, <1>4, <1>5, <1>8, <1>13, ClearCalm, ClearFields
<1>14. CASE tab' = [tab EXCEPT ![t] = pa]
  BY <1>4, <1>6, <1>7, <1>8, <1>14
<1>15. CASE tab' = [tab EXCEPT ![t] = [pa EXCEPT !.status = "anonymous"]]
  <2>1. PICK n : n = [pa EXCEPT !.status = "anonymous"]
    OBVIOUS
  <2>2. /\ n \in TabState /\ n.ops = pa.ops /\ n.poll = pa.poll /\ n.open = pa.open
        /\ n.external = pa.external /\ n.status = "anonymous" /\ n.challenge = pa.challenge
    BY <1>6, <2>1 DEF TabState
  <2>3. Calm(pa, n)
    BY <1>7, <2>2, SameOpsCalm DEF Calm
  <2>4. Calm(w, n) /\ n.external = w.external
    BY <1>6, <1>7, <2>2, <2>3, CalmTwice
  <2>. QED
    BY <1>4, <1>8, <1>15, <2>1, <2>4
<1>. QED
  BY <1>4, <1>9, <1>10, <1>11, <1>12, <1>13, <1>14, <1>15

\* Any continuation.
LEMMA SettleKeeps ==
  ASSUME SessionInv, NEW t \in Tab, NEW o \in tab[t].ops, Settle(t, o), UNCHANGED scope
  PROVE  SessionInv'
<1>1. Idle(t) /\ o.phase = "answered" /\ UNCHANGED <<lock, cookie, spent>>
  BY DEF Settle
<1>2. CASE o.kind = "me" /\ SettleMe(t, o)
  BY <1>1, <1>2, SettleMeKeeps
<1>3. CASE o.kind \in AllIdentityKind /\ SettleIdentity(t, o)
  BY <1>1, <1>3, SettleIdentityKeeps
<1>4. CASE tab' = [tab EXCEPT ![t] = Without(tab[t], o)] /\ UNCHANGED inbox
  <2>. DEFINE w == Without(tab[t], o)
  <2>1. /\ Types /\ Good(tab[t]) /\ t \notin tab[t].external /\ tab[t] \in TabState
        /\ o \in Op /\ tab[t].open = TRUE /\ Grows /\ Delivered(t, inbox)
    BY <1>1, BusyOpen, SpendGrows, SameBoxes DEF SessionInv, Types
  <2>2. Calm(tab[t], w) /\ SameFace(tab[t], w)
    BY <1>1, <2>1, WithoutCalm, WithoutFields
  <2>3. t \notin w.external
    BY <2>1, <2>2 DEF SameFace
  <2>. QED
    BY <1>1, <1>4, <2>1, <2>2, <2>3, CalmStepKeeps
<1>. QED
  BY <1>2, <1>3, <1>4 DEF Settle

-----------------------------------------------------------------------------
(* Ordinary requests and boundary messages                                   *)

\* An ordinary request of the current session.
LEMMA SendPollKeeps ==
  ASSUME SessionInv, NEW t \in Tab, SendPoll(t), UNCHANGED scope
  PROVE  SessionInv'
<1>. DEFINE q == [phase |-> "sent", epoch |-> TRUE]
            n == [tab[t] EXCEPT !.poll = q]
<1>0. Types /\ Good(tab[t]) /\ Idle(t) /\ t \notin tab[t].external /\ tab[t] \in TabState /\ Agrees(t)
  BY DEF SessionInv, Types, SendPoll
<1>1. tab[t].open = TRUE /\ tab[t].status = "authenticated"
  BY <1>0, IdleFree DEF SendPoll
<1>2. inbox' = inbox /\ UNCHANGED <<lock, cookie>> /\ Grows /\ Delivered(t, inbox')
  BY <1>0, SpendGrows, SameBoxes DEF SendPoll, Event
<1>3. tab' = [tab EXCEPT ![t] = n]
  BY <1>0 DEF SendPoll, Types
<1>4. q \in Poll /\ q.phase = "sent"
  BY DEF Poll
<1>. HIDE DEF q
<1>5. /\ n \in TabState /\ n.ops = tab[t].ops /\ n.open = tab[t].open /\ n.status = tab[t].status
      /\ n.user = tab[t].user /\ n.challenge = tab[t].challenge /\ n.poll = q
      /\ n.external = tab[t].external
  BY <1>0, <1>4 DEF TabState
<1>. HIDE DEF n
<1>6. Good(n)
  <2>1. OpsSound(n) /\ QueueSound(n)
    BY <1>0, <1>5 DEF Good, OpsSound, QueueSound
  <2>2. PendingSound(n)
    BY <1>0, <1>1, <1>4, <1>5 DEF Good, PendingSound
  <2>. QED
    BY <1>5, <2>1, <2>2 DEF Good
<1>7. ClosedSound(n, inbox'[t])
  BY <1>1, <1>5 DEF ClosedSound
<1>8. inbox'[t] = <<>> => Agree(n, cookie, Names)
  BY <1>0, <1>2, <1>4, <1>5 DEF Agrees, Agree
<1>9. inbox'[t] = <<>> /\ Forgot(t) => Forgetful(n)
  BY <1>1, <1>2 DEF Forgot, Forgetful
<1>10. (Sending(n) <=> Sending(tab[t])) /\ (Announcing(n) => Announcing(tab[t])) /\ t \notin n.external
  BY <1>0, <1>5 DEF Sending, Announcing
<1>. QED
  BY <1>2, <1>3, <1>6, <1>7, <1>8, <1>9, <1>10, StepKeeps

\* The server's answer to it.
LEMMA AnswerPollKeeps ==
  ASSUME SessionInv, NEW t \in Tab, AnswerPoll(t), UNCHANGED scope
  PROVE  SessionInv'
<1>. DEFINE v == IF cookie = NoUser THEN "denied" ELSE "ok"
            q == [tab[t].poll EXCEPT !.phase = v]
            n == [tab[t] EXCEPT !.poll = q]
<1>0. /\ Types /\ Good(tab[t]) /\ t \notin tab[t].external /\ tab[t] \in TabState /\ Agrees(t)
      /\ ClosedSound(tab[t], inbox[t])
  BY DEF SessionInv, Types
<1>1. inbox' = inbox /\ UNCHANGED <<lock, cookie>> /\ Grows /\ Delivered(t, inbox')
  BY <1>0, SpendGrows, SameBoxes DEF AnswerPoll
<1>2. tab' = [tab EXCEPT ![t] = n]
  BY <1>0 DEF AnswerPoll, Types, TabState
<1>3. tab[t].poll \in Poll /\ tab[t].poll.phase = "sent"
  BY <1>0 DEF TabState, AnswerPoll
<1>4. q \in Poll /\ q.phase = v /\ q.epoch = tab[t].poll.epoch
  BY <1>3 DEF Poll
<1>5. tab[t].open = TRUE
  <2>1. tab[t].open \in BOOLEAN /\ tab[t].poll # NoPoll
    BY <1>0, <1>3 DEF TabState, NoPoll
  <2>. QED
    BY <1>0, <2>1 DEF ClosedSound
<1>. HIDE DEF q
<1>6. /\ n \in TabState /\ n.ops = tab[t].ops /\ n.open = tab[t].open /\ n.status = tab[t].status
      /\ n.user = tab[t].user /\ n.challenge = tab[t].challenge /\ n.poll = q
      /\ n.external = tab[t].external
  BY <1>0, <1>4 DEF TabState
<1>. HIDE DEF n
<1>7. Good(n)
  <2>1. OpsSound(n) /\ QueueSound(n)
    BY <1>0, <1>6 DEF Good, OpsSound, QueueSound
  <2>2. PendingSound(n)
    BY <1>0, <1>4, <1>6 DEF Good, PendingSound
  <2>. QED
    BY <1>6, <2>1, <2>2 DEF Good
<1>8. ClosedSound(n, inbox'[t])
  BY <1>5, <1>6 DEF ClosedSound
<1>9. inbox'[t] = <<>> => Agree(n, cookie, Names)
  BY <1>0, <1>1, <1>4, <1>6 DEF Agrees, Agree
<1>10. inbox'[t] = <<>> /\ Forgot(t) => Forgetful(n)
  BY <1>1, <1>4, <1>6 DEF Forgot, Forgetful
<1>11. (Sending(n) <=> Sending(tab[t])) /\ (Announcing(n) => Announcing(tab[t])) /\ t \notin n.external
  BY <1>0, <1>6 DEF Sending, Announcing
<1>. QED
  BY <1>1, <1>2, <1>7, <1>8, <1>9, <1>10, <1>11, StepKeeps

\* The end of an ordinary request, and with a denial perhaps of the session.
LEMMA ReceivePollKeeps ==
  ASSUME SessionInv, NEW t \in Tab, ReceivePoll(t), UNCHANGED scope
  PROVE  SessionInv'
<1>. DEFINE s == [tab[t] EXCEPT !.poll = NoPoll]
            a == Advance(s, {"epoch"})
<1>0. /\ Types /\ Good(tab[t]) /\ Idle(t) /\ t \notin tab[t].external /\ tab[t] \in TabState
      /\ UNCHANGED <<lock, cookie>>
  BY DEF SessionInv, Types, ReceivePoll
<1>1. tab[t].open = TRUE /\ Grows /\ Delivered(t, inbox)
  BY <1>0, IdleFree, SpendGrows, SameBoxes DEF ReceivePoll
<1>2. /\ s \in TabState /\ s.ops = tab[t].ops /\ s.open = tab[t].open /\ s.status = tab[t].status
      /\ s.user = tab[t].user /\ s.challenge = tab[t].challenge /\ s.poll = NoPoll
      /\ s.external = tab[t].external
  BY <1>0 DEF TabState, NoPoll, Poll
<1>3. \/ tab' = [tab EXCEPT ![t] = ClearSessionState(a)] /\ inbox' = Post(t, inbox, "boundary")
      \/ tab' = [tab EXCEPT ![t] = s] /\ inbox' = inbox
  BY DEF ReceivePoll
<1>. HIDE DEF s
<1>4. Calm(tab[t], s)
  BY <1>0, <1>2, SameOpsCalm
<1>5. CASE tab' = [tab EXCEPT ![t] = s] /\ inbox' = inbox
  BY <1>0, <1>1, <1>2, <1>4, <1>5, CalmStepKeeps
<1>6. CASE tab' = [tab EXCEPT ![t] = ClearSessionState(a)] /\ inbox' = Post(t, inbox, "boundary")
  <2>1. Calm(s, a) /\ SameFace(s, a) /\ a \in TabState
    BY <1>2, <1>4, AdvanceCalm, AdvanceFields DEF Calm
  <2>. HIDE DEF a
  <2>2. PICK n : n = ClearSessionState(a)
    OBVIOUS
  <2>3. Calm(a, n) /\ n.external = a.external
    BY <2>1, <2>2, ClearCalm, ClearFields DEF Calm
  <2>4. Calm(tab[t], a)
    BY <1>4, <2>1, CalmTwice
  <2>5. Calm(tab[t], n) /\ t \notin n.external
    BY <1>0, <1>2, <2>1, <2>3, <2>4, CalmTwice DEF SameFace
  <2>6. Delivered(t, inbox') /\ inbox'[t] = inbox[t]
    BY <1>0, <1>1, <1>6, PostDelivers
  <2>7. tab' = [tab EXCEPT ![t] = n]
    BY <1>6, <2>2
  <2>. QED
    BY <1>0, <1>1, <2>5, <2>6, <2>7, CalmStepKeeps
<1>. QED
  BY <1>3, <1>5, <1>6

\* The state in which a tab waits for the server, or a peer, to say who is signed in.
Waiting(s, open) ==
  [ClearSessionState(Advance(s, {"epoch"})) EXCEPT !.status = "loading", !.external = open]

\* It shows nobody, and no answer that is under way will be applied.
LEMMA WaitingForgets ==
  ASSUME NEW s, Good(s), NEW open \in SUBSET Tab
  PROVE  LET n == Waiting(s, open) IN
         /\ Calm(s, n) /\ Forgetful(n) /\ (Free(s) => Free(n))
         /\ n \in TabState /\ n.open = s.open /\ n.status = "loading" /\ n.external = open
         /\ n.user = NoUser
<1>. DEFINE a == Advance(s, {"epoch"})
            b == Advance(a, {"gen", "intent"})
            c == ClearSessionState(a)
<1>0. s \in TabState
  BY DEF Good
<1>1. Calm(s, a) /\ SameFace(s, a) /\ a \in TabState /\ OlderPoll(s, a, {"epoch"})
  BY <1>0, AdvanceCalm, AdvanceFields
<1>2. (\A o \in a.ops : Stale(o, {"epoch"})) /\ (Free(s) => Free(a))
  BY <1>0, AdvanceFrom, AdvanceFree
<1>. HIDE DEF a
<1>3. OlderPoll(a, b, {"gen", "intent"}) /\ (Free(a) => Free(b)) /\ b \in TabState
  BY <1>1, AdvanceFields, AdvanceFree
<1>4. \A o \in b.ops : Stale(o, {"gen", "intent"}) /\ Stale(o, {"epoch"})
  BY <1>1, <1>2, AdvanceFrom
<1>5. /\ c \in TabState /\ c.open = a.open /\ c.poll = b.poll /\ c.ops = b.ops
      /\ c.status = "anonymous" /\ c.user = NoUser /\ c.challenge = FALSE /\ c.external = a.external
  BY <1>1, ClearFields
<1>6. Calm(a, c)
  BY <1>1, ClearCalm DEF Calm
<1>7. PICK n : n = [c EXCEPT !.status = "loading", !.external = open]
  OBVIOUS
<1>8. n = Waiting(s, open)
  BY <1>7 DEF Waiting, a
<1>. HIDE DEF b, c
<1>9. /\ n \in TabState /\ n.open = c.open /\ n.poll = c.poll /\ n.ops = c.ops
      /\ n.status = "loading" /\ n.user = c.user /\ n.challenge = c.challenge /\ n.external = open
  BY <1>5, <1>7 DEF TabState
<1>10. Calm(c, n)
  BY <1>6, <1>9, SameOpsCalm DEF Calm
<1>11. Calm(s, n)
  BY <1>1, <1>6, <1>10, CalmTwice
<1>12. Forgetful(n)
  <2>1. n.poll.epoch = FALSE
    <3>1. b.poll.epoch \in BOOLEAN /\ b.poll.epoch # TRUE
      BY <1>1, <1>3 DEF OlderPoll, TabState, Poll
    <3>. QED
      BY <1>5, <1>9, <3>1
  <2>2. ASSUME NEW o \in n.ops PROVE ~Live(o)
    <3>1. Stale(o, {"gen", "intent"}) /\ Stale(o, {"epoch"})
      BY <1>4, <1>5, <1>9
    <3>2. o.gen = FALSE /\ o.epoch = FALSE
      BY <3>1 DEF Stale
    <3>. QED
      BY <3>2 DEF Live
  <2>. QED
    BY <1>9, <2>1, <2>2 DEF Forgetful
<1>13. Free(s) => Free(n)
  BY <1>2, <1>3, <1>5, <1>9 DEF Free
<1>14. n.open = s.open /\ n.user = NoUser
  BY <1>1, <1>5, <1>9 DEF SameFace
<1>. QED
  BY <1>8, <1>9, <1>11, <1>12, <1>13, <1>14

\* A tab that forgot its identity agrees with any cookie.
LEMMA ForgetfulAgrees ==
  ASSUME NEW s, Forgetful(s), NEW c, NEW names
  PROVE  Agree(s, c, names)
BY DEF Forgetful, Agree

\* What the subscriber of boundary messages does.
LEMMA ReceiveBoundaryCases ==
  ASSUME SessionInv, NEW t \in Tab, ReceiveBoundary(t)
  PROVE  \E open \in SUBSET (Tab \ {t}) :
           /\ \/ Head(inbox[t]).phase = "start" /\ open = tab[t].external \cup {Head(inbox[t]).from}
              \/ Head(inbox[t]).phase = "settled" /\ open = tab[t].external \ {Head(inbox[t]).from}
              \/ Head(inbox[t]).phase = "boundary" /\ open = {}
           /\ tab' = [tab EXCEPT ![t] = IF open = {} THEN StartMe(Waiting(tab[t], open), "reconcile")
                                        ELSE Waiting(tab[t], open)]
<1>. DEFINE m == Head(inbox[t])
            open == CASE m.phase = "start" -> tab[t].external \cup {m.from}
                      [] m.phase = "settled" -> tab[t].external \ {m.from}
                      [] m.phase = "boundary" -> {}
<1>0. Types /\ inbox[t] \in Seq(Message) /\ inbox[t] # <<>> /\ tab[t].external \in SUBSET (Tab \ {t})
  BY DEF SessionInv, Types, ReceiveBoundary, TabState
<1>1. m \in Message /\ m.from # t
  <2>1. m = inbox[t][1] /\ 1 \in DOMAIN inbox[t] /\ m \in Message
    BY <1>0
  <2>. QED
    BY <1>0, <2>1 DEF Types
<1>. HIDE DEF m
<1>2. m.phase \in {"start", "settled", "boundary"} /\ m.from \in Tab
  BY <1>1 DEF Message
<1>3. \/ m.phase = "start" /\ open = tab[t].external \cup {m.from}
      \/ m.phase = "settled" /\ open = tab[t].external \ {m.from}
      \/ m.phase = "boundary" /\ open = {}
  BY <1>2
<1>4. tab' = [tab EXCEPT ![t] = IF open = {} THEN StartMe(Waiting(tab[t], open), "reconcile")
                                ELSE Waiting(tab[t], open)]
  BY DEF ReceiveBoundary, Waiting, m
<1>. HIDE DEF open
<1>5. open \in SUBSET (Tab \ {t})
  BY <1>0, <1>1, <1>2, <1>3
<1>. QED
  BY <1>3, <1>4, <1>5 DEF m

\* The boxes after the oldest message is taken.
LEMMA TailDelivers ==
  ASSUME Types, NEW t \in Tab, inbox[t] # <<>>, inbox' = [inbox EXCEPT ![t] = Tail(@)]
  PROVE  Delivered(t, inbox') /\ inbox'[t] = Tail(inbox[t])
<1>1. inbox \in [Tab -> Seq(Message)] /\ inbox[t] \in Seq(Message)
  BY DEF Types
<1>2. Tail(inbox[t]) \in Seq(Message)
      /\ \A k \in DOMAIN Tail(inbox[t]) : k + 1 \in DOMAIN inbox[t] /\ Tail(inbox[t])[k] = inbox[t][k + 1]
  BY <1>1
<1>3. inbox'[t] = Tail(inbox[t]) /\ \A q \in Tab \ {t} : inbox'[q] = inbox[q]
  BY <1>1
<1>4. inbox' \in [Tab -> Seq(Message)]
  BY <1>1, <1>2
<1>5. \A q \in Tab : \A k \in DOMAIN inbox'[q] : inbox'[q][k].from # q
  BY <1>2, <1>3 DEF Types
<1>. QED
  BY <1>3, <1>4, <1>5 DEF Delivered

\* A boundary message: the tab forgets whatever it knew.
LEMMA ReceiveBoundaryKeeps ==
  ASSUME SessionInv, NEW t \in Tab, ReceiveBoundary(t), UNCHANGED scope
  PROVE  SessionInv'
<1>0. /\ Types /\ Good(tab[t]) /\ Idle(t) /\ inbox[t] # <<>>
      /\ inbox' = [inbox EXCEPT ![t] = Tail(@)] /\ UNCHANGED <<lock, cookie, spent>>
  BY DEF SessionInv, ReceiveBoundary
<1>1. Free(tab[t]) /\ tab[t].open = TRUE /\ Grows /\ Delivered(t, inbox')
  BY <1>0, IdleFree, SpendGrows, TailDelivers
<1>2. PICK open \in SUBSET (Tab \ {t}) :
        tab' = [tab EXCEPT ![t] = IF open = {} THEN StartMe(Waiting(tab[t], open), "reconcile")
                                  ELSE Waiting(tab[t], open)]
  BY ReceiveBoundaryCases
<1>3. PICK s : s = Waiting(tab[t], open)
  OBVIOUS
<1>4. /\ Calm(tab[t], s) /\ Forgetful(s) /\ Free(s)
      /\ s \in TabState /\ s.external = open
  <2>1. open \in SUBSET Tab
    BY <1>2
  <2>. QED
    BY <1>0, <1>1, <1>3, <2>1, WaitingForgets
<1>5. PICK n : n = IF open = {} THEN StartMe(s, "reconcile") ELSE s
  OBVIOUS
<1>6. Calm(tab[t], n) /\ Forgetful(n) /\ n.external = open
  <2>1. CASE open = {}
    <3>1. "reconcile" \in Why
      BY DEF Why
    <3>2. Calm(s, n) /\ SameFace(s, n)
      BY <1>4, <1>5, <2>1, <3>1, StartMeCalm DEF Calm
    <3>3. Forgetful(n)
      BY <1>4, <3>2, CalmKeeps DEF Calm
    <3>. QED
      BY <1>4, <3>2, <3>3, CalmTwice DEF SameFace
  <2>2. CASE open # {}
    BY <1>4, <1>5, <2>2
  <2>. QED
    BY <2>1, <2>2
<1>7. tab' = [tab EXCEPT ![t] = n] /\ t \notin n.external
  BY <1>2, <1>3, <1>5, <1>6
<1>8. Good(n) /\ n.open = TRUE /\ (Sending(n) <=> Sending(tab[t])) /\ (Announcing(n) => Announcing(tab[t]))
  BY <1>1, <1>6 DEF Calm
<1>9. ClosedSound(n, inbox'[t])
  BY <1>8 DEF ClosedSound
<1>10. Agree(n, cookie, Names)
  BY <1>6, ForgetfulAgrees
<1>. QED
  BY <1>0, <1>1, <1>6, <1>7, <1>8, <1>9, <1>10, StepKeeps

\* A transition that was announced and never reported.
LEMMA WatchdogKeeps ==
  ASSUME SessionInv, NEW t \in Tab, NEW p \in Tab, Watchdog(t, p), UNCHANGED scope
  PROVE  SessionInv'
<1>. DEFINE s == [tab[t] EXCEPT !.external = @ \ {p}]
<1>0. /\ Types /\ Good(tab[t]) /\ Idle(t) /\ t \notin tab[t].external /\ tab[t] \in TabState
      /\ inbox' = inbox /\ UNCHANGED <<lock, cookie, spent>>
  BY DEF SessionInv, Types, Watchdog
<1>1. Free(tab[t]) /\ tab[t].open = TRUE /\ Grows /\ Delivered(t, inbox')
  BY <1>0, IdleFree, SpendGrows, SameBoxes
<1>2. /\ s \in TabState /\ s.ops = tab[t].ops /\ s.open = tab[t].open /\ s.status = tab[t].status
      /\ s.user = tab[t].user /\ s.challenge = tab[t].challenge /\ s.poll = tab[t].poll
      /\ s.external = tab[t].external \ {p}
  BY <1>0 DEF TabState
<1>3. tab' = [tab EXCEPT ![t] = IF s.external = {} THEN StartMe(s, "reconcile") ELSE s]
  BY DEF Watchdog
<1>. HIDE DEF s
<1>4. Calm(tab[t], s) /\ Free(s)
  BY <1>0, <1>1, <1>2, SameOpsCalm DEF Free
<1>5. PICK n : n = IF s.external = {} THEN StartMe(s, "reconcile") ELSE s
  OBVIOUS
<1>6. Calm(tab[t], n) /\ n.external = s.external
  <2>1. CASE s.external = {}
    <3>1. "reconcile" \in Why
      BY DEF Why
    <3>2. Calm(s, n) /\ SameFace(s, n)
      BY <1>4, <1>5, <2>1, <3>1, StartMeCalm DEF Calm
    <3>. QED
      BY <1>4, <3>2, CalmTwice DEF SameFace
  <2>2. CASE s.external # {}
    BY <1>4, <1>5, <2>2
  <2>. QED
    BY <2>1, <2>2
<1>7. tab' = [tab EXCEPT ![t] = n] /\ t \notin n.external
  BY <1>0, <1>2, <1>3, <1>5, <1>6
<1>. QED
  BY <1>0, <1>1, <1>6, <1>7, CalmStepKeeps

-----------------------------------------------------------------------------
(* The request pipeline                                                      *)

\* One operation is under way or answered, and the rest of the tab allows it.
MayBeOut(s, x) ==
  /\ x \in Op /\ OpSound(x) /\ Out(x)
  /\ \A a \in s.ops : ~Out(a)
  /\ x.kind \in Changes /\ x.phase = "sent" => s.status # "authenticated" /\ s.poll.epoch = FALSE
  /\ x.kind = "logout" =>
       s.status # "authenticated" /\ s.challenge = FALSE /\ \A a \in s.ops : a.kind # "logout"
  /\ x.kind \in Asks /\ x.gen = TRUE =>
       \A a \in s.ops : ~(a.kind \in Changes /\ a.phase = "queued")

\* Such a tab is sound.
LEMMA OutGood ==
  ASSUME NEW s, Good(s), Free(s), NEW x, MayBeOut(s, x)
  PROVE  Good(Plus(s, x))
<1>. DEFINE n == Plus(s, x)
<1>0. s \in TabState /\ x \in Op
  BY DEF Good, MayBeOut
<1>1. n \in TabState /\ SameFace(s, n) /\ n.poll = s.poll /\ n.ops = s.ops \cup {x}
  BY <1>0, PlusFields
<1>. HIDE DEF n
<1>2. OpsSound(n)
  <2>1. IsFiniteSet(n.ops)
    BY <1>1, FS_AddElement DEF Good, OpsSound
  <2>2. \A o \in n.ops : OpSound(o)
    BY <1>1 DEF Good, OpsSound, MayBeOut
  <2>3. \A o, p \in n.ops : Out(o) /\ Out(p) => o = p
    BY <1>1 DEF MayBeOut
  <2>4. \A o, p \in n.ops : o.kind = "logout" /\ p.kind = "logout" => o = p
    BY <1>1 DEF Good, OpsSound, MayBeOut
  <2>. QED
    BY <2>1, <2>2, <2>3, <2>4 DEF OpsSound
<1>3. QueueSound(n)
  <2>1. ASSUME NEW a \in n.ops, NEW o \in n.ops, o # a
        PROVE  /\ a.kind \in Changes /\ a.phase = "queued" /\ o.kind \in Asks /\ o.gen = TRUE =>
                    o.phase = "barrier" \/ (o.phase = "queued" /\ o.seat > a.seat)
               /\ a.kind = "logout" /\ a.phase = "barrier" => o.gen = FALSE /\ o.local = FALSE
    <3>1. CASE a \in s.ops /\ o \in s.ops
      BY <2>1, <3>1 DEF Good, QueueSound
    <3>2. CASE a \in s.ops /\ o = x
      BY <3>2 DEF MayBeOut, Free
    <3>3. CASE a = x
      BY <3>3 DEF MayBeOut, Out
    <3>. QED
      BY <1>1, <2>1, <3>1, <3>2, <3>3
  <2>. QED
    BY <2>1 DEF QueueSound
<1>4. PendingSound(n)
  <2>1. ASSUME NEW o \in n.ops
        PROVE  /\ o.kind \in Changes /\ o.phase # "answered" => n.status # "authenticated"
               /\ o.kind = "logout" => n.status # "authenticated" /\ n.challenge = FALSE
               /\ o.kind \in Changes /\ o.phase = "sent" => n.poll.epoch = FALSE
    <3>1. CASE o \in s.ops
      BY <1>1, <3>1 DEF Good, PendingSound, SameFace
    <3>2. CASE o = x
      BY <1>1, <3>2 DEF MayBeOut, SameFace, Out
    <3>. QED
      BY <1>1, <3>1, <3>2
  <2>. QED
    BY <1>1, <2>1 DEF Good, PendingSound, SameFace
<1>. QED
  BY <1>1, <1>2, <1>3, <1>4 DEF Good, n

\* A closed tab shows nobody.
LEMMA ClosedForgets ==
  ASSUME NEW s, NEW box, ClosedSound(s, box), s.open = FALSE
  PROVE  Forgetful(s)
BY DEF ClosedSound, Forgetful, NoPoll

\* A request goes out: it is the only one, and the first of the tab's queue. A change of
\* identity is announced to every peer before it is sent.
LEMMA SendKeeps ==
  ASSUME SessionInv, NEW t \in Tab, NEW o \in tab[t].ops, Send(t, o), UNCHANGED scope
  PROVE  SessionInv'
<1>. DEFINE w == Without(tab[t], o)
            x == [o EXCEPT !.phase = "sent", !.epoch = TRUE]
<1>0. /\ Types /\ Good(tab[t]) /\ t \notin tab[t].external /\ tab[t] \in TabState /\ Idle(t)
      /\ o.phase = "queued" /\ o \in Op /\ tab[t].open = TRUE /\ Free(tab[t]) /\ lock = NoTab
      /\ Agrees(t)
  BY BusyOpen, IdleFree DEF SessionInv, Types, Send
<1>1. PICK s : s = IF Broadcasts(o.kind) THEN Advance(w, {"epoch"}) ELSE w
  OBVIOUS
<1>2. /\ tab' = [tab EXCEPT ![t] = Plus(s, x)] /\ lock' = t /\ UNCHANGED <<cookie, spent>>
      /\ inbox' = IF Broadcasts(o.kind) THEN Post(t, inbox, "start") ELSE inbox
  BY <1>1 DEF Send, Plus
<1>3. Calm(tab[t], w) /\ w \in TabState /\ w.ops = tab[t].ops \ {o} /\ SameFace(tab[t], w) /\ Free(w)
  BY <1>0, WithoutCalm, WithoutFields DEF Free
<1>4. /\ Calm(tab[t], s) /\ s \in TabState /\ SameFace(tab[t], s) /\ Free(s)
      /\ \A a \in s.ops : \E p \in tab[t].ops \ {o} : SameRequest(p, a)
      /\ Broadcasts(o.kind) => s.poll.epoch = FALSE
  <2>1. CASE Broadcasts(o.kind)
    <3>1. Good(w)
      BY <1>3 DEF Calm
    <3>2. /\ Calm(w, s) /\ SameFace(w, s) /\ s \in TabState /\ Free(s)
          /\ OlderPoll(w, s, {"epoch"})
      BY <1>1, <1>3, <2>1, <3>1, AdvanceCalm, AdvanceFields, AdvanceFree
    <3>3. \A a \in s.ops : \E p \in tab[t].ops \ {o} : SameRequest(p, a)
      BY <1>1, <1>3, <2>1, AdvanceFrom
    <3>4. s.poll.epoch \in BOOLEAN /\ s.poll.epoch # TRUE
      BY <3>2 DEF OlderPoll, TabState, Poll
    <3>5. Calm(tab[t], s) /\ SameFace(tab[t], s)
      BY <1>3, <3>2, CalmTwice DEF SameFace
    <3>. QED
      BY <3>2, <3>3, <3>4, <3>5
  <2>2. CASE ~Broadcasts(o.kind)
    <3>1. \A a \in s.ops : \E p \in tab[t].ops \ {o} : SameRequest(p, a)
      BY <1>1, <1>3, <2>2 DEF SameRequest
    <3>. QED
      BY <1>1, <1>3, <2>2, <3>1
  <2>. QED
    BY <2>1, <2>2
<1>5. /\ x \in Op /\ x.phase = "sent" /\ x.kind = o.kind /\ x.answer = o.answer /\ x.user = o.user
  BY <1>0 DEF Op, Phase
<1>6. x.gen = o.gen
  BY <1>0 DEF Op
<1>. HIDE DEF w, x
<1>7. MayBeOut(s, x)
  <2>1. OpSound(o)
    BY <1>0 DEF Good, OpsSound
  <2>2. OpSound(x) /\ Out(x)
    BY <1>0, <1>5, <2>1 DEF OpSound, Out
  <2>3. \A p \in tab[t].ops : p.phase # "sent" /\ p.phase # "answered"
    <3>1. ~Sending(tab[t])
      <4>1. lock # t
        BY <1>0, SessionAssumption
      <4>. QED
        BY <4>1 DEF SessionInv
    <3>. QED
      BY <3>1 DEF Send, Sending
  <2>4. \A a \in s.ops : ~Out(a)
    BY <1>4, <2>3 DEF Out, SameRequest
  <2>5. x.kind \in Changes => s.status # "authenticated" /\ s.poll.epoch = FALSE
    <3>1. x.kind \in Changes => Broadcasts(o.kind)
      BY <1>5 DEF Changes, AllIdentityKind, Broadcasts
    <3>2. x.kind \in Changes => tab[t].status # "authenticated"
      BY <1>0, <1>5 DEF Good, PendingSound
    <3>. QED
      BY <1>4, <3>1, <3>2 DEF SameFace
  <2>6. x.kind = "logout" =>
          s.status # "authenticated" /\ s.challenge = FALSE /\ \A a \in s.ops : a.kind # "logout"
    <3>1. x.kind = "logout" => tab[t].status # "authenticated" /\ tab[t].challenge = FALSE
      BY <1>0, <1>5 DEF Good, PendingSound
    <3>2. x.kind = "logout" => \A p \in tab[t].ops \ {o} : p.kind # "logout"
      BY <1>0, <1>5 DEF Good, OpsSound
    <3>. QED
      BY <1>4, <3>1, <3>2 DEF SameFace, SameRequest
  <2>7. ASSUME x.kind \in Asks, x.gen = TRUE, NEW a \in s.ops, a.kind \in Changes, a.phase = "queued"
        PROVE  FALSE
    <3>1. PICK p \in tab[t].ops \ {o} : SameRequest(p, a)
      BY <1>4
    <3>2. p.kind \in Changes /\ p.phase = "queued" /\ p # o /\ o.kind \in Asks /\ o.gen = TRUE
      BY <1>5, <1>6, <2>7, <3>1 DEF SameRequest
    <3>3. o.seat > p.seat
      BY <1>0, <3>1, <3>2 DEF Good, QueueSound
    <3>4. o.seat <= p.seat
      BY <3>1, <3>2 DEF Send
    <3>5. o.seat \in Nat /\ p.seat \in Nat
      BY <1>0, <3>1 DEF TabState, Op
    <3>. QED
      BY <3>3, <3>4, <3>5
  <2>. QED
    BY <1>5, <2>2, <2>4, <2>5, <2>6, <2>7 DEF MayBeOut
<1>8. PICK n : n = Plus(s, x)
  OBVIOUS
<1>9. Good(n) /\ n \in TabState /\ SameFace(s, n) /\ n.poll = s.poll /\ n.ops = s.ops \cup {x}
  BY <1>4, <1>5, <1>7, <1>8, OutGood, PlusFields DEF Calm
<1>10. tab' = [tab EXCEPT ![t] = n]
  BY <1>2, <1>8
<1>11. tab'[t] = n /\ \A q \in Tab : q # t => tab'[q] = tab[q]
  BY <1>0, <1>10 DEF Types
<1>12. Delivered(t, inbox') /\ inbox'[t] = inbox[t] /\ Grows
       /\ (Broadcasts(o.kind) => \A q \in Tab \ {t} : tab[q].open = TRUE => inbox'[q] # <<>>)
  <2>1. Delivered(t, inbox) /\ Grows
    BY <1>0, <1>2, SameBoxes, SpendGrows
  <2>. QED
    BY <1>0, <1>2, <2>1, PostDelivers
<1>13. t \notin n.external
  BY <1>0, <1>4, <1>9 DEF SameFace
<1>14. Types'
  BY <1>0, <1>2, <1>9, <1>10, <1>12, <1>13 DEF Types, Delivered, Grows
<1>15. ASSUME NEW q \in Tab PROVE Good(tab'[q]) /\ ClosedSound(tab'[q], inbox'[q])
  <2>1. CASE q = t
    <3>1. n.open = TRUE
      BY <1>0, <1>4, <1>9 DEF SameFace
    <3>. QED
      BY <1>9, <1>11, <2>1, <3>1 DEF ClosedSound
  <2>2. CASE q # t
    <3>1. tab'[q] = tab[q] /\ Good(tab[q]) /\ ClosedSound(tab[q], inbox[q])
      BY <1>11, <2>2 DEF SessionInv
    <3>2. inbox'[q] = inbox[q] \/ tab[q].open = TRUE
      BY <1>12, <2>2 DEF Delivered
    <3>. QED
      BY <3>1, <3>2 DEF ClosedSound
  <2>. QED
    BY <2>1, <2>2
<1>16. \A q \in Tab : q # t => ~Sending(tab[q])
  BY <1>0, SessionAssumption DEF SessionInv
<1>17. ASSUME NEW q \in Tab PROVE lock' = q <=> Sending(tab'[q])
  <2>1. Sending(n)
    BY <1>5, <1>9 DEF Sending
  <2>. QED
    BY <1>2, <1>11, <1>16, <2>1
<1>18. ASSUME NEW q \in Tab PROVE Agrees(q)'
  <2>1. Names' = Names
    BY <1>2 DEF Names, Unseen
  <2>2. CASE q = t
    <3>1. ASSUME inbox'[t] = <<>> PROVE Agree(n, cookie, Names)
      <4>1. Agree(s, cookie, Names)
        BY <1>0, <1>4, <1>12, <3>1, CalmKeeps DEF Agrees
      <4>2. ~Live(x)
        BY <1>5 DEF Live
      <4>. QED
        BY <1>9, <4>1, <4>2 DEF Agree, SameFace
    <3>. QED
      BY <1>2, <1>11, <2>1, <2>2, <3>1 DEF Agrees
  <2>3. CASE q # t
    <3>1. inbox'[q] = <<>> => inbox[q] = <<>>
      BY <1>12, <2>3 DEF Delivered
    <3>2. Agrees(q) /\ tab'[q] = tab[q]
      BY <1>11, <2>3 DEF SessionInv
    <3>. QED
      BY <1>2, <2>1, <3>1, <3>2 DEF Agrees
  <2>. QED
    BY <2>2, <2>3
<1>19. ASSUME NEW p \in Tab, Announcing(tab'[p]), NEW q \in Tab \ {p} PROVE Forgot(q)'
  <2>1. p = t
    BY <1>11, <1>16, <1>19 DEF Announcing, Sending
  <2>2. Broadcasts(o.kind)
    <3>1. PICK y \in n.ops : y.phase = "sent" /\ Broadcasts(y.kind)
      BY <1>11, <1>19, <2>1 DEF Announcing
    <3>2. y = x
      BY <1>7, <1>9, <3>1 DEF MayBeOut, Out
    <3>. QED
      BY <1>5, <3>1, <3>2
  <2>3. tab'[q] = tab[q] /\ ClosedSound(tab[q], inbox[q]) /\ tab[q].open \in BOOLEAN
    BY <1>0, <1>11, <2>1 DEF SessionInv, Types, TabState
  <2>4. CASE tab[q].open = TRUE
    BY <1>12, <2>1, <2>2, <2>4 DEF Forgot
  <2>5. CASE tab[q].open = FALSE
    BY <2>3, <2>5, ClosedForgets DEF Forgot
  <2>. QED
    BY <2>3, <2>4, <2>5
<1>. QED
  BY <1>14, <1>15, <1>17, <1>18, <1>19 DEF SessionInv

\* What an answer says of the cookie.
OutcomeSound(o, answer, c) ==
  /\ answer \in Answer \ {"none"} /\ c \in Account
  /\ answer = "session" => c \in User
  /\ o.kind = "me" =>
       /\ c = cookie /\ answer \in {"session", "anonymous", "lost"}
       /\ answer = "anonymous" => cookie = NoUser
  /\ o.kind \in AllIdentityKind =>
       /\ answer \in {"session", "mfa", "password", "choose", "refused", "lost"}
       /\ answer \in {"password", "choose"} => c = NoUser
  /\ o.kind \in {"rotate", "reset"} => c = cookie \/ (c = NoUser /\ answer \in {"ok", "lost"})
  /\ o.kind \in {"logout", "rotate", "reset"} => answer # "session"

\* Every answer the server gives, and every lost one, is of that kind.
LEMMA OutcomesSound ==
  ASSUME cookie \in Account, NEW o \in Op, OpSound(o), NEW out \in Outcome(o) \cup Lost(o)
  PROVE  OutcomeSound(o, out[1], out[2])
<1>0. o.kind \in Kind /\ NoUser \in Account /\ User \subseteq Account
      /\ (cookie # NoUser => cookie \in User)
  BY DEF Op, Account
<1>1. CASE out \in Lost(o)
  <2>1. out[1] = "lost" /\ (out[2] = cookie \/ (o.kind # "me" /\ out[2] = NoUser))
    BY <1>1 DEF Lost
  <2>. QED
    BY <1>0, <2>1 DEF OutcomeSound, Answer
<1>2. CASE out \in Outcome(o)
  <2>1. CASE o.kind = "me"
    <3>1. Outcome(o) = {IF cookie = NoUser THEN <<"anonymous", NoUser>> ELSE <<"session", cookie>>}
      BY <2>1 DEF Outcome
    <3>2. \/ out[1] = "anonymous" /\ out[2] = NoUser /\ cookie = NoUser
          \/ out[1] = "session" /\ out[2] = cookie /\ cookie # NoUser
      BY <1>2, <3>1
    <3>. QED
      BY <1>0, <2>1, <3>2 DEF OutcomeSound, Answer, AllIdentityKind
  <2>2. CASE o.kind \in AllIdentityKind
    <3>1. o.user \in User
      BY <2>2 DEF OpSound
    <3>2. CASE o.kind = "login"
      <4>1. Outcome(o) = {<<"session", o.user>>, <<"mfa", cookie>>, <<"password", NoUser>>,
                          <<"choose", NoUser>>, <<"refused", cookie>>}
        BY <3>2 DEF Outcome
      <4>2. \/ out[1] = "session" /\ out[2] = o.user
            \/ out[1] \in {"mfa", "refused"} /\ out[2] = cookie
            \/ out[1] \in {"password", "choose"} /\ out[2] = NoUser
        BY <1>2, <4>1
      <4>. QED
        BY <1>0, <3>1, <3>2, <4>2 DEF OutcomeSound, Answer, AllIdentityKind
    <3>3. CASE o.kind = "temporary"
      <4>1. Outcome(o) = {<<"session", o.user>>, <<"mfa", cookie>>, <<"refused", cookie>>}
        BY <3>3 DEF Outcome
      <4>2. \/ out[1] = "session" /\ out[2] = o.user
            \/ out[1] \in {"mfa", "refused"} /\ out[2] = cookie
        BY <1>2, <4>1
      <4>. QED
        BY <1>0, <3>1, <3>3, <4>2 DEF OutcomeSound, Answer, AllIdentityKind
    <3>4. CASE o.kind = "mfa"
      <4>1. Outcome(o) = {<<"session", o.user>>, <<"refused", cookie>>}
        BY <3>4 DEF Outcome
      <4>2. \/ out[1] = "session" /\ out[2] = o.user
            \/ out[1] = "refused" /\ out[2] = cookie
        BY <1>2, <4>1
      <4>. QED
        BY <1>0, <3>1, <3>4, <4>2 DEF OutcomeSound, Answer, AllIdentityKind
    <3>. QED
      BY <2>2, <3>2, <3>3, <3>4 DEF AllIdentityKind
  <2>3. CASE o.kind = "logout"
    <3>1. Outcome(o) = {<<"ok", NoUser>>}
      BY <2>3 DEF Outcome
    <3>2. out[1] = "ok" /\ out[2] = NoUser
      BY <1>2, <3>1
    <3>. QED
      BY <1>0, <2>3, <3>2 DEF OutcomeSound, Answer, AllIdentityKind
  <2>4. CASE o.kind = "rotate"
    <3>1. Outcome(o) = IF cookie = NoUser THEN {<<"anonymous", NoUser>>}
                       ELSE {<<"ok", cookie>>, <<"ok", NoUser>>, <<"refused", cookie>>}
      BY <2>4 DEF Outcome
    <3>2. \/ out[1] = "anonymous" /\ out[2] = NoUser /\ cookie = NoUser
          \/ out[1] = "ok" /\ out[2] \in {cookie, NoUser}
          \/ out[1] = "refused" /\ out[2] = cookie
      BY <1>2, <3>1
    <3>. QED
      BY <1>0, <2>4, <3>2 DEF OutcomeSound, Answer, AllIdentityKind
  <2>5. CASE o.kind = "reset"
    <3>1. Outcome(o) = {<<"ok", IF cookie = o.user THEN NoUser ELSE cookie>>, <<"refused", cookie>>}
      BY <2>5 DEF Outcome
    <3>2. \/ out[1] = "ok" /\ out[2] \in {cookie, NoUser}
          \/ out[1] = "refused" /\ out[2] = cookie
      BY <1>2, <3>1
    <3>. QED
      BY <1>0, <2>5, <3>2 DEF OutcomeSound, Answer, AllIdentityKind
  <2>. QED
    BY <1>0, <2>1, <2>2, <2>3, <2>4, <2>5 DEF Kind
<1>. QED
  BY <1>1, <1>2

\* A tab agrees with the cookie as it did while the cookie stays, and when a session ends
\* without the tabs being told.
LEMMA CookieEnds ==
  ASSUME Types, Grows, cookie' = cookie \/ (cookie' = NoUser /\ Unseen'),
         NEW s \in TabState, Agree(s, cookie, Names)
  PROVE  Agree(s, cookie', Names')
<1>1. CASE cookie' = cookie
  <2>1. Names \subseteq Names'
    BY <1>1, NamesGrow
  <2>. QED
    BY <1>1, <2>1 DEF Agree
<1>2. CASE cookie' = NoUser /\ Unseen'
  <2>1. Names' = Account
    BY <1>2 DEF Names, Account
  <2>2. s.user \in Account /\ \A o \in s.ops : Says(o) \in Account
    BY DEF TabState, Op, Says, Account
  <2>. QED
    BY <1>2, <2>1, <2>2 DEF Agree
<1>. QED
  BY <1>1, <1>2

Answered(o, answer, c) ==
  [o EXCEPT !.phase = "answered", !.answer = answer, !.seat = 0,
            !.user = IF answer = "session" THEN c ELSE o.user]

\* The tab when an answer has arrived, before anyone is told.
LEMMA AnsweredGood ==
  ASSUME SessionInv, NEW t \in Tab, NEW o \in tab[t].ops, Idle(t), o.phase = "sent",
         NEW answer, NEW c, OutcomeSound(o, answer, c)
  PROVE  LET x == Answered(o, answer, c)
             s == Plus(Without(tab[t], o), x)
         IN
         /\ x \in Op /\ x.phase = "answered" /\ x.answer = answer /\ x.kind = o.kind
         /\ x.user = (IF answer = "session" THEN c ELSE o.user) /\ x.gen = o.gen
         /\ x.why = o.why /\ x.epoch = o.epoch /\ x.intent = o.intent
         /\ Good(s) /\ Free(s) /\ s \in TabState /\ SameFace(tab[t], s) /\ s.poll = tab[t].poll
         /\ s.ops = (tab[t].ops \ {o}) \cup {x}
         /\ ~Sending(s)
<1>. DEFINE w == Without(tab[t], o)
            x == Answered(o, answer, c)
            s == Plus(w, x)
<1>0. /\ Types /\ Good(tab[t]) /\ tab[t] \in TabState /\ o \in Op /\ Free(tab[t])
  BY BusyOpen, IdleFree DEF SessionInv, Types
<1>1. /\ Good(w) /\ w \in TabState /\ w.ops = tab[t].ops \ {o} /\ SameFace(tab[t], w) /\ Free(w)
      /\ w.poll = tab[t].poll
  BY <1>0, WithoutGood, WithoutFields DEF Free
<1>2. /\ x \in Op /\ x.phase = "answered" /\ x.answer = answer /\ x.kind = o.kind
      /\ x.user = (IF answer = "session" THEN c ELSE o.user)
  <2>1. answer \in Answer /\ (IF answer = "session" THEN c ELSE o.user) \in Account
    BY <1>0 DEF OutcomeSound, Op
  <2>. QED
    BY <1>0, <2>1 DEF Answered, Op, Phase
<1>3. x.gen = o.gen /\ x.epoch = o.epoch /\ x.intent = o.intent /\ x.why = o.why
  BY <1>0 DEF Answered, Op
<1>. HIDE DEF x, w
<1>4. \A a \in w.ops : ~Out(a)
  BY <1>0, <1>1 DEF Good, OpsSound, Out
<1>5. MayBeOut(w, x)
  <2>1. OpSound(o)
    BY <1>0 DEF Good, OpsSound
  <2>2. OpSound(x) /\ Out(x)
    BY <1>2, <2>1 DEF OpSound, Out, OutcomeSound
  <2>3. x.kind = "logout" =>
          w.status # "authenticated" /\ w.challenge = FALSE /\ \A a \in w.ops : a.kind # "logout"
    <3>1. x.kind = "logout" => tab[t].status # "authenticated" /\ tab[t].challenge = FALSE
      BY <1>0, <1>2 DEF Good, PendingSound
    <3>2. x.kind = "logout" => \A p \in tab[t].ops \ {o} : p.kind # "logout"
      BY <1>0, <1>2 DEF Good, OpsSound
    <3>. QED
      BY <1>1, <3>1, <3>2 DEF SameFace
  <2>4. ASSUME x.kind \in Asks, x.gen = TRUE, NEW a \in w.ops, a.kind \in Changes, a.phase = "queued"
        PROVE  FALSE
    <3>1. a \in tab[t].ops /\ a # o /\ o.kind \in Asks /\ o.gen = TRUE
      BY <1>1, <1>2, <1>3, <2>4
    <3>. QED
      BY <1>0, <2>4, <3>1 DEF Good, QueueSound
  <2>. QED
    BY <1>2, <1>4, <2>2, <2>3, <2>4 DEF MayBeOut
<1>6. Good(s) /\ s \in TabState /\ SameFace(w, s) /\ s.poll = w.poll /\ s.ops = w.ops \cup {x}
  BY <1>1, <1>2, <1>5, OutGood, PlusFields
<1>. HIDE DEF s
<1>7. Free(s)
  BY <1>1, <1>2, <1>6 DEF Free
<1>8. ~Sending(s)
  BY <1>2, <1>4, <1>6 DEF Sending, Out
<1>9. SameFace(tab[t], s) /\ s.poll = tab[t].poll /\ s.ops = (tab[t].ops \ {o}) \cup {x}
  BY <1>1, <1>6 DEF SameFace
<1>. QED
  BY <1>2, <1>3, <1>6, <1>7, <1>8, <1>9 DEF s, w, x

\* The tab after an answer arrived: a rotation that succeeded makes it ask again.
Arrived(s, kind, boundary) ==
  LET s1 == IF boundary THEN StartMe(Waiting(s, {}), "reconcile") ELSE s
  IN  IF Broadcasts(kind) THEN Advance(s1, {"epoch"}) ELSE s1

\* It is told nothing but that answer.
LEMMA ArrivedCalm ==
  ASSUME NEW s, Good(s), Free(s), NEW kind, NEW boundary \in BOOLEAN
  PROVE  LET n == Arrived(s, kind, boundary) IN
         /\ Calm(s, n) /\ Free(n)
         /\ boundary => Forgetful(n) /\ n.external = {} /\ n.status = "loading" /\ n.user = NoUser
         /\ ~boundary => SameFace(s, n)
<1>1. PICK s1 : s1 = IF boundary THEN StartMe(Waiting(s, {}), "reconcile") ELSE s
  OBVIOUS
<1>2. /\ Calm(s, s1) /\ Free(s1)
      /\ boundary => /\ Forgetful(s1) /\ s1.external = {} /\ s1.status = "loading"
                     /\ s1.user = NoUser
      /\ ~boundary => SameFace(s, s1)
  <2>1. CASE boundary
    <3>1. PICK w : w = Waiting(s, {})
      OBVIOUS
    <3>2. {} \in SUBSET Tab /\ "reconcile" \in Why
      BY DEF Why
    <3>3. /\ Calm(s, w) /\ Forgetful(w) /\ Free(w) /\ w \in TabState
          /\ w.status = "loading" /\ w.external = {} /\ w.user = NoUser
      BY <3>1, <3>2, WaitingForgets
    <3>4. Good(w)
      BY <3>3 DEF Calm
    <3>5. s1 = StartMe(w, "reconcile")
      BY <1>1, <2>1, <3>1
    <3>6. /\ Calm(w, s1) /\ SameFace(w, s1)
          /\ \E x \in Op : Fresh(x, "reconcile") /\ s1.ops = Advance(w, {"gen"}).ops \cup {x}
      BY <3>2, <3>3, <3>4, <3>5, StartMeCalm
    <3>7. Forgetful(s1)
      BY <3>3, <3>4, <3>6, CalmKeeps DEF Calm
    <3>8. Free(s1)
      <4>1. Free(Advance(w, {"gen"}))
        BY <3>3, AdvanceFree
      <4>. QED
        BY <3>6, <4>1 DEF Free, Fresh
    <3>. QED
      BY <2>1, <3>3, <3>6, <3>7, <3>8, CalmTwice DEF SameFace
  <2>2. CASE ~boundary
    <3>1. s1 = s
      BY <1>1, <2>2
    <3>2. Calm(s, s)
      BY DEF Calm, Calmer
    <3>. QED
      BY <2>2, <3>1, <3>2 DEF SameFace
  <2>. QED
    BY <2>1, <2>2
<1>3. PICK n : n = Arrived(s, kind, boundary)
  OBVIOUS
<1>4. n = IF Broadcasts(kind) THEN Advance(s1, {"epoch"}) ELSE s1
  BY <1>1, <1>3 DEF Arrived
<1>5. CASE Broadcasts(kind)
  <2>1. Good(s1) /\ s1 \in TabState
    BY <1>2 DEF Calm, Good
  <2>2. Calm(s1, n) /\ SameFace(s1, n) /\ Free(n)
    BY <1>2, <1>4, <1>5, <2>1, AdvanceCalm, AdvanceFields, AdvanceFree
  <2>3. Forgetful(s1) => Forgetful(n)
    BY <2>1, <2>2, CalmKeeps DEF Calm
  <2>. QED
    BY <1>2, <1>3, <2>2, <2>3, CalmTwice DEF SameFace
<1>6. CASE ~Broadcasts(kind)
  BY <1>2, <1>3, <1>4, <1>6
<1>. QED
  BY <1>5, <1>6

\* What the arrival of an answer does.
LEMMA ReceiveShape ==
  ASSUME SessionInv, NEW t \in Tab, NEW o \in tab[t].ops, NEW out, Receive(t, o, out)
  PROVE  /\ Idle(t) /\ o.phase = "sent" /\ cookie' = out[2] /\ lock' = NoTab
         /\ IF out[1] = "lost" THEN Spend("lost") ELSE UNCHANGED spent
         /\ \E boundary \in BOOLEAN :
              /\ boundary <=> Advances(o.kind) /\ out[1] = "ok"
              /\ tab' = [tab EXCEPT ![t] = Arrived(Plus(Without(tab[t], o), Answered(o, out[1], out[2])),
                                                   o.kind, boundary)]
              /\ inbox' = Settled(t, o, out[1], IF boundary THEN Post(t, inbox, "boundary") ELSE inbox)
<1>1. PICK boundary \in BOOLEAN : boundary = (Advances(o.kind) /\ out[1] = "ok")
  OBVIOUS
<1>2. tab[t] \in TabState
  BY DEF SessionInv, Types
<1>3. PICK x : x = Answered(o, out[1], out[2])
  OBVIOUS
<1>4. Replace(tab[t], o, x) = Plus(Without(tab[t], o), x)
  BY <1>2 DEF Replace, Plus, Without, TabState
<1>5. tab' = [tab EXCEPT ![t] = Arrived(Plus(Without(tab[t], o), x), o.kind, boundary)]
  BY <1>1, <1>3, <1>4 DEF Receive, Answered, Arrived, Waiting
<1>6. inbox' = Settled(t, o, out[1], IF boundary THEN Post(t, inbox, "boundary") ELSE inbox)
  BY <1>1 DEF Receive
<1>7. /\ Idle(t) /\ o.phase = "sent" /\ cookie' = out[2] /\ lock' = NoTab
      /\ IF out[1] = "lost" THEN Spend("lost") ELSE UNCHANGED spent
  BY DEF Receive
<1>. QED
  BY <1>1, <1>3, <1>5, <1>6, <1>7

\* The arrival of an answer: the tab knows whom the cookie names, and its peers forgot or
\* will be told, unless the cookie stays or a session ended with a lost answer.
LEMMA ReceiveKeeps ==
  ASSUME SessionInv, NEW t \in Tab, NEW o \in tab[t].ops, NEW out \in Outcome(o) \cup Lost(o),
         Receive(t, o, out), UNCHANGED scope
  PROVE  SessionInv'
<1>0. /\ Types /\ Good(tab[t]) /\ t \notin tab[t].external /\ tab[t] \in TabState
      /\ o \in Op /\ tab[t].open = TRUE /\ Agrees(t) /\ cookie \in Account
  BY BusyOpen DEF SessionInv, Types
<1>1. PICK boundary \in BOOLEAN :
        /\ boundary <=> Advances(o.kind) /\ out[1] = "ok"
        /\ tab' = [tab EXCEPT ![t] = Arrived(Plus(Without(tab[t], o), Answered(o, out[1], out[2])),
                                             o.kind, boundary)]
        /\ inbox' = Settled(t, o, out[1], IF boundary THEN Post(t, inbox, "boundary") ELSE inbox)
  BY ReceiveShape
<1>2. /\ Idle(t) /\ o.phase = "sent" /\ cookie' = out[2] /\ lock' = NoTab
      /\ IF out[1] = "lost" THEN Spend("lost") ELSE UNCHANGED spent
  BY ReceiveShape
<1>3. OpSound(o)
  BY <1>0 DEF Good, OpsSound
<1>4. OutcomeSound(o, out[1], out[2])
  BY <1>0, <1>3, OutcomesSound
<1>5. PICK x : x = Answered(o, out[1], out[2])
  OBVIOUS
<1>6. PICK s : s = Plus(Without(tab[t], o), x)
  OBVIOUS
<1>7. /\ x \in Op /\ x.phase = "answered" /\ x.answer = out[1] /\ x.kind = o.kind
      /\ x.user = (IF out[1] = "session" THEN out[2] ELSE o.user)
      /\ Good(s) /\ Free(s) /\ s \in TabState /\ SameFace(tab[t], s) /\ s.poll = tab[t].poll
      /\ s.ops = (tab[t].ops \ {o}) \cup {x}
      /\ ~Sending(s)
  BY <1>2, <1>4, <1>5, <1>6, AnsweredGood
<1>8. PICK n : n = Arrived(s, o.kind, boundary)
  OBVIOUS
<1>9. /\ Calm(s, n)
      /\ boundary => Forgetful(n) /\ n.external = {} /\ n.status = "loading"
      /\ ~boundary => SameFace(s, n)
  BY <1>7, <1>8, ArrivedCalm
<1>10. tab' = [tab EXCEPT ![t] = n]
  BY <1>1, <1>5, <1>6, <1>8
<1>11. tab'[t] = n /\ \A q \in Tab : q # t => tab'[q] = tab[q]
  BY <1>0, <1>10 DEF Types
<1>12. Grows /\ (out[1] = "lost" => spent'.lost > 0)
  <2>1. "lost" \in Event
    BY DEF Event
  <2>2. Grows
    BY <1>0, <1>2, <2>1, SpendGrows
  <2>3. out[1] = "lost" => spent'["lost"] = spent["lost"] + 1
    BY <1>0, <1>2, <2>1 DEF Spend, Types
  <2>4. spent["lost"] \in Nat
    BY <1>0, <2>1 DEF Types
  <2>. QED
    BY <2>2, <2>3, <2>4
<1>13. PICK box : box = IF boundary THEN Post(t, inbox, "boundary") ELSE inbox
  OBVIOUS
<1>14. /\ Delivered(t, box) /\ box[t] = inbox[t]
       /\ boundary => \A q \in Tab \ {t} : tab[q].open = TRUE => box[q] # <<>>
  BY <1>0, <1>13, SameBoxes, PostDelivers
<1>15. /\ Delivered(t, inbox') /\ inbox'[t] = inbox[t]
       /\ boundary \/ Broadcasts(o.kind) => \A q \in Tab \ {t} : tab[q].open = TRUE => inbox'[q] # <<>>
  <2>1. inbox' = IF Broadcasts(o.kind) THEN Post(t, box, "settled") ELSE box
    BY <1>1, <1>13 DEF Settled
  <2>2. CASE Broadcasts(o.kind)
    BY <1>0, <1>14, <2>1, <2>2, PostDelivers
  <2>3. CASE ~Broadcasts(o.kind)
    BY <1>14, <2>1, <2>3
  <2>. QED
    BY <2>2, <2>3
<1>16. /\ Good(n) /\ n.open = TRUE /\ t \notin n.external /\ ~Sending(n)
  <2>1. n.open = s.open /\ Good(n) /\ ~Sending(n)
    BY <1>7, <1>9 DEF Calm
  <2>2. s.open = TRUE /\ s.external = tab[t].external
    BY <1>0, <1>7 DEF SameFace
  <2>. QED
    BY <1>0, <1>9, <2>1, <2>2 DEF SameFace
<1>17. Types'
  <2>1. n \in TabState
    BY <1>16 DEF Good
  <2>2. out[2] \in Account
    BY <1>4 DEF OutcomeSound
  <2>. QED
    BY <1>0, <1>2, <1>10, <1>12, <1>15, <1>16, <2>1, <2>2 DEF Types, Delivered, Grows
<1>18. ASSUME NEW q \in Tab PROVE Good(tab'[q]) /\ ClosedSound(tab'[q], inbox'[q])
  <2>1. CASE q = t
    BY <1>11, <1>16, <2>1 DEF ClosedSound
  <2>2. CASE q # t
    <3>1. tab'[q] = tab[q] /\ Good(tab[q]) /\ ClosedSound(tab[q], inbox[q])
      BY <1>11, <2>2 DEF SessionInv
    <3>2. inbox'[q] = inbox[q] \/ tab[q].open = TRUE
      BY <1>15, <2>2 DEF Delivered
    <3>. QED
      BY <3>1, <3>2 DEF ClosedSound
  <2>. QED
    BY <2>1, <2>2
<1>19. lock = t /\ \A q \in Tab : q # t => ~Sending(tab[q])
  <2>1. Sending(tab[t])
    BY <1>2 DEF Sending
  <2>. QED
    BY <2>1 DEF SessionInv
<1>20. \A q \in Tab : ~Sending(tab'[q])
  BY <1>11, <1>16, <1>19
<1>21. ASSUME NEW q \in Tab PROVE lock' = q <=> Sending(tab'[q])
  BY <1>2, <1>20, SessionAssumption
<1>22. \/ o.kind \in Changes
       \/ boundary
       \/ cookie' = cookie \/ (cookie' = NoUser /\ Unseen')
  <2>1. o.kind \in Kind
    BY <1>0 DEF Op
  <2>2. CASE o.kind = "me"
    BY <1>2, <1>4, <2>2 DEF OutcomeSound
  <2>3. CASE o.kind \in {"rotate", "reset"}
    <3>1. out[1] = "ok" => boundary
      BY <1>1, <2>3 DEF Advances
    <3>2. cookie' = cookie \/ (cookie' = NoUser /\ out[1] \in {"ok", "lost"})
      BY <1>2, <1>4, <2>3 DEF OutcomeSound
    <3>. QED
      BY <1>12, <3>1, <3>2 DEF Unseen
  <2>. QED
    BY <2>1, <2>2, <2>3 DEF Kind, Changes
<1>23. cookie' \in Names' /\ cookie' \in Account
  BY <1>2, <1>4 DEF Names, OutcomeSound
<1>24. ASSUME inbox'[t] = <<>> PROVE Agree(n, cookie', Names')
  <2>1. CASE boundary
    BY <1>9, <2>1, ForgetfulAgrees
  <2>2. CASE ~boundary
    <3>1. Agree(tab[t], cookie, Names)
      BY <1>0, <1>15, <1>24 DEF Agrees
    <3>2. Live(x) => Says(x) \in Names'
      <4>1. ASSUME Live(x) PROVE Says(x) = cookie'
        <5>1. CASE x.answer = "session"
          BY <1>2, <1>7, <5>1 DEF Says
        <5>2. CASE x.answer # "session"
          <6>1. (o.kind = "me" /\ out[1] = "anonymous")
                \/ (o.kind \in AllIdentityKind /\ out[1] \in {"password", "choose"})
            BY <1>7, <4>1, <5>2 DEF Live
          <6>2. cookie' = NoUser
            BY <1>2, <1>4, <6>1 DEF OutcomeSound
          <6>. QED
            BY <5>2, <6>2 DEF Says
        <5>. QED
          BY <5>1, <5>2
      <4>. QED
        BY <1>23, <4>1
    <3>3. \A a \in tab[t].ops \ {o} : ~Live(a)
      BY <1>0, <1>2 DEF Good, OpsSound, Out, Live
    <3>4. tab[t].status = "authenticated" => tab[t].user \in Names'
      <4>1. CASE o.kind \in Changes
        BY <1>0, <1>2, <4>1 DEF Good, PendingSound
      <4>2. CASE cookie' = cookie \/ (cookie' = NoUser /\ Unseen')
        <5>1. Agree(tab[t], cookie', Names')
          BY <1>0, <1>12, <3>1, <4>2, CookieEnds
        <5>. QED
          BY <5>1 DEF Agree
      <4>. QED
        BY <1>22, <2>2, <4>1, <4>2
    <3>5. tab[t].poll.phase = "denied" /\ tab[t].poll.epoch = TRUE => cookie' = NoUser
      <4>1. CASE o.kind \in Changes
        BY <1>0, <1>2, <4>1 DEF Good, PendingSound
      <4>2. CASE cookie' = cookie \/ (cookie' = NoUser /\ Unseen')
        BY <3>1, <4>2 DEF Agree
      <4>. QED
        BY <1>22, <2>2, <4>1, <4>2
    <3>6. Agree(s, cookie', Names')
      BY <1>7, <3>2, <3>3, <3>4, <3>5 DEF Agree, SameFace
    <3>. QED
      BY <1>9, <3>6, CalmKeeps
  <2>. QED
    BY <2>1, <2>2
<1>25. ASSUME NEW q \in Tab PROVE Agrees(q)'
  <2>1. CASE q = t
    BY <1>11, <1>24, <2>1 DEF Agrees
  <2>2. CASE q # t
    <3>0. tab'[q] = tab[q] /\ Agrees(q) /\ ClosedSound(tab[q], inbox[q]) /\ tab[q] \in TabState
      BY <1>0, <1>11, <2>2 DEF SessionInv, Types
    <3>1. SUFFICES ASSUME inbox'[q] = <<>> PROVE Agree(tab[q], cookie', Names')
      BY <3>0 DEF Agrees
    <3>2. inbox[q] = <<>>
      BY <1>15, <2>2, <3>1 DEF Delivered
    <3>3. CASE boundary \/ Broadcasts(o.kind)
      <4>1. tab[q].open = FALSE
        <5>1. tab[q].open \in BOOLEAN /\ tab[q].open # TRUE
          BY <1>15, <2>2, <3>0, <3>1, <3>3 DEF TabState
        <5>. QED
          BY <5>1
      <4>2. Forgetful(tab[q])
        BY <3>0, <4>1, ClosedForgets
      <4>. QED
        BY <4>2, ForgetfulAgrees
    <3>4. CASE ~boundary /\ ~Broadcasts(o.kind)
      <4>1. cookie' = cookie \/ (cookie' = NoUser /\ Unseen')
        BY <1>22, <3>4 DEF Changes, AllIdentityKind, Broadcasts
      <4>2. Agree(tab[q], cookie, Names)
        BY <3>0, <3>2 DEF Agrees
      <4>. QED
        BY <1>0, <1>12, <3>0, <4>1, <4>2, CookieEnds
    <3>. QED
      BY <3>3, <3>4
  <2>. QED
    BY <2>1, <2>2
<1>26. \A p \in Tab : ~Announcing(tab'[p])
  BY <1>20 DEF Announcing, Sending
<1>. QED
  BY <1>17, <1>18, <1>21, <1>25, <1>26 DEF SessionInv

-----------------------------------------------------------------------------
(* The server and the browser                                                *)

\* The server ends the session by itself.
LEMMA EndSessionKeeps ==
  ASSUME SessionInv, EndSession, UNCHANGED scope
  PROVE  SessionInv'
<1>0. Types /\ cookie' = NoUser /\ tab' = tab /\ inbox' = inbox /\ lock' = lock /\ Spend("ended")
  BY DEF SessionInv, EndSession
<1>1. "ended" \in Event
  BY DEF Event
<1>2. Grows
  BY <1>0, <1>1, SpendGrows
<1>3. Unseen'
  <2>1. spent["ended"] \in Nat /\ spent'["ended"] = spent["ended"] + 1
    BY <1>0, <1>1 DEF Types, Spend
  <2>. QED
    BY <1>0, <2>1 DEF Unseen
<1>4. Types'
  BY <1>0, <1>2 DEF Types, Grows, Account
<1>5. ASSUME NEW q \in Tab PROVE Agrees(q)'
  <2>1. Agrees(q) /\ tab[q] \in TabState
    BY <1>0 DEF SessionInv, Types
  <2>2. Agree(tab[q], cookie, Names) => Agree(tab[q], cookie', Names')
    BY <1>0, <1>2, <1>3, <2>1, CookieEnds
  <2>. QED
    BY <1>0, <2>1, <2>2 DEF Agrees
<1>6. /\ \A t \in Tab : Good(tab'[t]) /\ ClosedSound(tab'[t], inbox'[t])
      /\ \A t \in Tab : lock' = t <=> Sending(tab'[t])
      /\ \A p \in Tab : Announcing(tab'[p]) => \A t \in Tab \ {p} : Forgot(t)'
  BY <1>0 DEF SessionInv, Forgot
<1>. QED
  BY <1>4, <1>5, <1>6 DEF SessionInv

\* A tab is closed; what it sent may still change the cookie, which its peers forgot.
LEMMA CloseTabKeeps ==
  ASSUME SessionInv, NEW t \in Tab, CloseTab(t), UNCHANGED scope
  PROVE  SessionInv'
<1>. DEFINE n == [tab[t] EXCEPT !.open = FALSE, !.status = "anonymous", !.user = NoUser,
                                !.ops = {}, !.poll = NoPoll, !.external = {}]
<1>0. Types /\ tab[t] \in TabState /\ Spend("closed") /\ cookie \in Account
  BY DEF SessionInv, Types, CloseTab
<1>1. tab' = [tab EXCEPT ![t] = n] /\ inbox' = [inbox EXCEPT ![t] = <<>>]
      /\ lock' = IF lock = t THEN NoTab ELSE lock
  BY <1>0 DEF CloseTab, Types
<1>2. /\ n \in TabState /\ n.open = FALSE /\ n.status = "anonymous" /\ n.user = NoUser
      /\ n.ops = {} /\ n.poll = NoPoll /\ n.external = {}
  BY <1>0 DEF TabState, NoPoll, Poll, Account
<1>. HIDE DEF n
<1>3. tab'[t] = n /\ inbox'[t] = <<>> /\ \A q \in Tab : q # t => tab'[q] = tab[q] /\ inbox'[q] = inbox[q]
  BY <1>0, <1>1 DEF Types
<1>4. Grows /\ spent'.closed > 0
  <2>1. "closed" \in Event
    BY DEF Event
  <2>2. spent["closed"] \in Nat /\ spent'["closed"] = spent["closed"] + 1
    BY <1>0, <2>1 DEF Types, Spend
  <2>. QED
    BY <1>0, <2>1, <2>2, SpendGrows
<1>5. /\ cookie' \in Account
      /\ \/ Announcing(tab[t])
         \/ cookie' = cookie \/ (cookie' = NoUser /\ Unseen')
  <2>1. CASE cookie' = cookie
    BY <1>0, <2>1
  <2>2. CASE \E o \in tab[t].ops : o.phase = "sent" /\ \E out \in Outcome(o) : cookie' = out[2]
    <3>1. PICK o \in tab[t].ops : o.phase = "sent" /\ \E out \in Outcome(o) : cookie' = out[2]
      BY <2>2
    <3>2. PICK out \in Outcome(o) : cookie' = out[2]
      BY <3>1
    <3>3. OpSound(o) /\ o \in Op
      BY <1>0 DEF SessionInv, Good, OpsSound, TabState
    <3>4. OutcomeSound(o, out[1], out[2])
      BY <1>0, <3>3, OutcomesSound
    <3>5. CASE o.kind = "me"
      BY <1>0, <3>2, <3>4, <3>5 DEF OutcomeSound
    <3>6. CASE o.kind \in {"rotate", "reset"}
      BY <1>4, <3>2, <3>4, <3>6 DEF OutcomeSound, Unseen
    <3>7. CASE o.kind \in AllIdentityKind \cup {"logout"}
      <4>1. Broadcasts(o.kind)
        BY <3>7 DEF AllIdentityKind, Broadcasts
      <4>. QED
        BY <3>1, <3>2, <3>4, <4>1 DEF Announcing, OutcomeSound
    <3>8. o.kind \in Kind
      BY <3>3 DEF Op
    <3>. QED
      BY <3>5, <3>6, <3>7, <3>8 DEF Kind
  <2>. QED
    BY <2>1, <2>2 DEF CloseTab
<1>6. Forgetful(n) /\ ClosedSound(n, <<>>)
  BY <1>2 DEF Forgetful, ClosedSound, NoPoll
<1>7. Good(n)
  <2>1. IsFiniteSet(n.ops)
    BY <1>2, FS_EmptySet
  <2>2. n.poll.epoch = FALSE
    BY <1>6 DEF Forgetful
  <2>. QED
    BY <1>2, <2>1, <2>2 DEF Good, OpsSound, QueueSound, PendingSound
<1>8. Types'
  <2>1. inbox' \in [Tab -> Seq(Message)]
    BY <1>0, <1>1 DEF Types
  <2>2. \A q \in Tab : \A k \in DOMAIN inbox'[q] : inbox'[q][k].from # q
    <3>1. DOMAIN inbox'[t] = {}
      BY <1>3
    <3>. QED
      BY <1>0, <1>3, <3>1 DEF Types
  <2>3. \A q \in Tab : q \notin tab'[q].external
    BY <1>0, <1>2, <1>3 DEF Types
  <2>4. tab' \in [Tab -> TabState]
    BY <1>0, <1>1, <1>2 DEF Types
  <2>. QED
    BY <1>0, <1>1, <1>4, <1>5, <2>1, <2>2, <2>3, <2>4 DEF Types, Grows
<1>9. ASSUME NEW q \in Tab PROVE Good(tab'[q]) /\ ClosedSound(tab'[q], inbox'[q])
  BY <1>3, <1>6, <1>7 DEF SessionInv
<1>10. ASSUME NEW q \in Tab PROVE lock' = q <=> Sending(tab'[q])
  <2>1. ~Sending(n)
    BY <1>2 DEF Sending
  <2>2. lock = q <=> Sending(tab[q])
    BY DEF SessionInv
  <2>. QED
    BY <1>1, <1>3, <2>1, <2>2, SessionAssumption
<1>11. ASSUME NEW q \in Tab PROVE Agrees(q)'
  <2>1. CASE q = t
    BY <1>3, <1>6, <2>1, ForgetfulAgrees DEF Agrees
  <2>2. CASE q # t
    <3>0. tab'[q] = tab[q] /\ inbox'[q] = inbox[q] /\ Agrees(q) /\ tab[q] \in TabState
      BY <1>0, <1>3, <2>2 DEF SessionInv, Types
    <3>1. CASE Announcing(tab[t])
      <4>1. Forgot(q)
        BY <2>2, <3>1 DEF SessionInv
      <4>. QED
        BY <3>0, <4>1, ForgetfulAgrees DEF Agrees, Forgot
    <3>2. CASE cookie' = cookie \/ (cookie' = NoUser /\ Unseen')
      <4>1. Agree(tab[q], cookie, Names) => Agree(tab[q], cookie', Names')
        BY <1>0, <1>4, <3>0, <3>2, CookieEnds
      <4>. QED
        BY <3>0, <4>1 DEF Agrees
    <3>. QED
      BY <1>5, <3>1, <3>2
  <2>. QED
    BY <2>1, <2>2
<1>12. ASSUME NEW p \in Tab, Announcing(tab'[p]), NEW q \in Tab \ {p} PROVE Forgot(q)'
  <2>1. p # t /\ Announcing(tab[p])
    BY <1>2, <1>3, <1>12 DEF Announcing
  <2>2. Forgot(q)
    BY <2>1 DEF SessionInv
  <2>. QED
    BY <1>3, <1>6, <2>2 DEF Forgot
<1>. QED
  BY <1>8, <1>9, <1>10, <1>11, <1>12 DEF SessionInv

-----------------------------------------------------------------------------
(* The invariant holds                                                       *)

\* In the beginning tabs ask, or have the answer the cookie gives.
LEMMA InitSession ==
  ASSUME Init
  PROVE  SessionInv
<1>. DEFINE L == [Blank EXCEPT !.status = "loading"]
<1>0. /\ scope \in Scopes /\ cookie \in Account /\ inbox = [t \in Tab |-> <<>>] /\ lock = NoTab
      /\ spent = [k \in Event |-> 0]
  BY DEF Init, Account
<1>1. /\ Blank \in TabState /\ Blank.open = TRUE /\ Blank.status = "anonymous" /\ Blank.user = NoUser
      /\ Blank.challenge = FALSE /\ Blank.external = {} /\ Blank.poll = NoPoll /\ Blank.ops = {}
  BY DEF Blank, TabState, NoPoll, Poll, Account
<1>2. /\ L \in TabState /\ L.open = TRUE /\ L.status = "loading" /\ L.user = NoUser
      /\ L.challenge = FALSE /\ L.external = {} /\ L.poll = NoPoll /\ L.ops = {}
  BY <1>1 DEF TabState
<1>3. NoPoll.epoch = FALSE /\ IsFiniteSet({})
  BY FS_EmptySet DEF NoPoll
<1>. HIDE DEF L
<1>4. Good(Blank) /\ Good(L)
  BY <1>1, <1>2, <1>3 DEF Good, OpsSound, QueueSound, PendingSound
<1>5. Forgetful(Blank) /\ Forgetful(L) /\ Free(L) /\ ~Sending(L) /\ ~Sending(Blank)
  BY <1>1, <1>2, <1>3 DEF Forgetful, Free, Sending
<1>6. PICK h : h = StartMe(L, "hydrate")
  OBVIOUS
<1>7. Calm(L, h) /\ SameFace(L, h) /\ h \in TabState
  <2>1. "hydrate" \in Why
    BY DEF Why
  <2>. QED
    BY <1>4, <1>5, <1>6, <2>1, StartMeCalm
<1>8. Forgetful(h) /\ Good(h) /\ h.open = TRUE /\ h.external = {} /\ ~Sending(h)
  BY <1>2, <1>4, <1>5, <1>7, CalmKeeps DEF Calm, SameFace
<1>9. ASSUME NEW t \in Tab
      PROVE  /\ tab[t] = h \/ tab[t] = Blank \/ (cookie # NoUser /\ tab[t] = ApplySession(Blank, cookie))
  <2>1. tab[t] = CASE t \in scope.hydrating -> h
                   [] t \notin scope.hydrating /\ cookie # NoUser -> ApplySession(Blank, cookie)
                   [] OTHER -> Blank
    BY <1>6 DEF Init, L
  <2>. QED
    BY <2>1
<1>10. ASSUME NEW t \in Tab
       PROVE  /\ Good(tab[t]) /\ tab[t].open = TRUE /\ tab[t].external = {} /\ ~Sending(tab[t])
              /\ Agree(tab[t], cookie, Names)
  <2>1. CASE tab[t] = h
    BY <1>8, <2>1, ForgetfulAgrees
  <2>2. CASE tab[t] = Blank
    BY <1>1, <1>4, <1>5, <2>2, ForgetfulAgrees
  <2>3. CASE cookie # NoUser /\ tab[t] = ApplySession(Blank, cookie)
    <3>1. cookie \in User
      BY <1>0, <2>3 DEF Account
    <3>2. /\ Good(tab[t]) /\ tab[t].ops = {} /\ tab[t].poll = NoPoll /\ tab[t].open = TRUE
          /\ tab[t].external = {} /\ tab[t].user = cookie
      BY <1>1, <1>4, <2>3, <3>1, ApplyGood
    <3>3. cookie \in Names
      BY <1>0 DEF Names
    <3>. QED
      BY <1>3, <3>2, <3>3 DEF Agree, Sending
  <2>. QED
    BY <1>9, <2>1, <2>2, <2>3
<1>11. Types
  <2>1. tab \in [Tab -> TabState]
    <3>1. DOMAIN tab = Tab /\ tab = [t \in Tab |-> tab[t]]
      BY DEF Init
    <3>. QED
      BY <1>10, <3>1 DEF Good
  <2>2. inbox \in [Tab -> Seq(Message)] /\ \A t \in Tab : DOMAIN inbox[t] = {}
    BY <1>0
  <2>3. spent \in [Event -> Nat]
    BY <1>0
  <2>. QED
    BY <1>0, <1>10, <2>1, <2>2, <2>3 DEF Types
<1>12. \A t \in Tab : ClosedSound(tab[t], inbox[t]) /\ (lock = t <=> Sending(tab[t])) /\ ~Announcing(tab[t])
  BY <1>0, <1>10, SessionAssumption DEF ClosedSound, Announcing, Sending
<1>. QED
  BY <1>10, <1>11, <1>12 DEF SessionInv, Agrees

\* Every step keeps the invariant.
LEMMA NextSession ==
  ASSUME SessionInv, [Next]_vars
  PROVE  SessionInv'
<1>1. CASE UNCHANGED vars
  BY <1>1 DEF vars, SessionInv, Types, Agrees, Forgot, Names, Unseen
<1>2. CASE UserNext /\ UNCHANGED scope
  <2>1. PICK t \in Tab :
          \/ Refresh(t) \/ Logout(t) \/ CloseTab(t)
          \/ \E u \in User :
               \/ \E kind \in scope.requests \cap AllIdentityKind : BeginIdentity(t, kind, u)
               \/ \E kind \in scope.requests \ AllIdentityKind : RotateSession(t, kind, u)
    BY <1>2 DEF UserNext
  <2>2. scope.requests \subseteq AllIdentityKind \cup {"rotate", "reset"}
    BY SessionAssumption DEF SessionInv, Types
  <2>3. CASE Refresh(t)
    BY <1>2, <2>3, RefreshKeeps
  <2>4. CASE Logout(t)
    BY <1>2, <2>4, LogoutKeeps
  <2>5. CASE CloseTab(t)
    BY <1>2, <2>5, CloseTabKeeps
  <2>6. ASSUME NEW u \in User, NEW kind \in scope.requests \cap AllIdentityKind,
               BeginIdentity(t, kind, u)
        PROVE  SessionInv'
    BY <1>2, <2>6, BeginIdentityKeeps
  <2>7. ASSUME NEW u \in User, NEW kind \in scope.requests \ AllIdentityKind,
               RotateSession(t, kind, u)
        PROVE  SessionInv'
    BY <1>2, <2>2, <2>7, RotateSessionKeeps
  <2>. QED
    BY <2>1, <2>3, <2>4, <2>5, <2>6, <2>7
<1>3. CASE EndSession /\ UNCHANGED scope
  BY <1>3, EndSessionKeeps
<1>4. ASSUME NEW t \in Tab, Step(t), UNCHANGED scope PROVE SessionInv'
  <2>1. ASSUME NEW o \in tab[t].ops,
               \/ PassBarrier(t, o) \/ Send(t, o) \/ Settle(t, o)
               \/ \E out \in Outcome(o) \cup Lost(o) : Receive(t, o, out)
        PROVE  SessionInv'
    BY <1>4, <2>1, PassBarrierKeeps, SendKeeps, ReceiveKeeps, SettleKeeps
  <2>2. CASE ReceiveBoundary(t)
    BY <1>4, <2>2, ReceiveBoundaryKeeps
  <2>3. ASSUME NEW p \in Tab, Watchdog(t, p) PROVE SessionInv'
    BY <1>4, <2>3, WatchdogKeeps
  <2>. QED
    BY <1>4, <2>1, <2>2, <2>3 DEF Step
<1>5. ASSUME NEW t \in Tab, Retry(t) \/ SendPoll(t) \/ AnswerPoll(t) \/ ReceivePoll(t), UNCHANGED scope
      PROVE  SessionInv'
  BY <1>5, RetryKeeps, SendPollKeeps, AnswerPollKeeps, ReceivePollKeeps
<1>. QED
  BY <1>1, <1>2, <1>3, <1>4, <1>5 DEF Next

\* The invariant of the browser's tabs holds in every reachable state.
THEOREM SessionSound == Spec => []SessionInv
<1>1. Init => SessionInv
  BY InitSession
<1>2. SessionInv /\ [Next]_vars => SessionInv'
  BY NextSession
<1>. QED
  BY <1>1, <1>2, PTL DEF Spec

\* Tabs, operations and messages hold values of their kinds, and the lock of the session
\* cookie is held exactly while its tab has a request under way (the request pipeline of
\* lib/api.ts).
THEOREM SessionTypeCorrect == Spec => []TypeOK
<1>1. SessionInv => TypeOK
  <2>. SUFFICES ASSUME SessionInv PROVE TypeOK
    OBVIOUS
  <2>1. Types /\ cookie \in User \cup {NoUser}
    BY DEF SessionInv, Types, Account
  <2>2. ASSUME NEW t \in Tab
        PROVE  /\ tab[t].status \in {"loading", "authenticated", "anonymous", "unavailable"}
               /\ tab[t].user \in User \cup {NoUser}
               /\ tab[t].status = "authenticated" => tab[t].user # NoUser
               /\ tab[t].external \subseteq Tab \ {t}
               /\ lock = t <=> \E o \in tab[t].ops : o.phase = "sent"
    <3>1. tab[t] \in TabState /\ t \notin tab[t].external /\ (lock = t <=> Sending(tab[t]))
          /\ PendingSound(tab[t])
      BY <2>1 DEF Types, SessionInv, Good
    <3>. QED
      BY <3>1, SessionAssumption DEF TabState, Account, Sending, PendingSound
  <2>3. ASSUME NEW t \in Tab, NEW o \in tab[t].ops
        PROVE  o.kind \in Kind /\ o.why \in Why /\ o.answer \in Answer
               /\ o.phase \in {"barrier", "queued", "sent", "answered"}
    <3>1. o \in Op
      BY BusyOpen
    <3>. QED
      BY <3>1 DEF Op, Phase
  <2>. QED
    BY <2>1, <2>2, <2>3 DEF TypeOK
<1>. QED
  BY <1>1, SessionSound, PTL

\* Once all requests and messages are done no tab shows an identity the cookie does not
\* carry, unless the server ended the session by itself or without its answer being seen.
THEOREM TabsAgreeAlways == Spec => []TabsAgreeWithCookie
<1>1. SessionInv => TabsAgreeWithCookie
  <2>. SUFFICES ASSUME SessionInv, Quiet, NEW t \in Tab, tab[t].status = "authenticated"
                PROVE  \/ tab[t].user = cookie
                       \/ cookie = NoUser /\ (spent.ended > 0 \/ spent.lost > 0 \/ spent.closed > 0)
    BY DEF TabsAgreeWithCookie
  <2>1. Agrees(t) /\ ClosedSound(tab[t], inbox[t]) /\ tab[t].open \in BOOLEAN
    BY DEF SessionInv, Types, TabState
  <2>2. tab[t].open = TRUE
    BY <2>1 DEF ClosedSound
  <2>3. inbox[t] = <<>>
    BY <2>2 DEF Quiet
  <2>4. tab[t].user \in Names
    BY <2>1, <2>3 DEF Agrees, Agree
  <2>. QED
    BY <2>4 DEF Names, Unseen
<1>. QED
  BY <1>1, SessionSound, PTL

-----------------------------------------------------------------------------
(* What a step may never do                                                  *)

\* The step of one tab that FollowsCookie speaks of.
Follows(t) ==
  /\ tab'[t].status = "authenticated" /\ tab[t].status # "authenticated" =>
       \/ tab'[t].user = cookie
       \/ inbox[t] # <<>>
       \/ spent.ended > 0 \/ spent.lost > 0 \/ spent.closed > 0
  /\ /\ tab[t].status = "authenticated" /\ tab'[t].status = "anonymous"
     /\ tab'[t].open
     /\ \A o \in tab'[t].ops : o.kind # "logout"
     => cookie = NoUser \/ inbox[t] # <<>>

\* Ways in which the next screen of a tab follows the cookie.
MayShow(t, n) ==
  \/ n.status = tab[t].status
  \/ n.status \in {"loading", "unavailable"}
  \/ /\ n.status = "anonymous"
     /\ \/ tab[t].status # "authenticated"
        \/ n.open = FALSE
        \/ \E o \in n.ops : o.kind = "logout"
        \/ cookie = NoUser
        \/ inbox[t] # <<>>
  \/ n.status = "authenticated" /\ (n.user = cookie \/ inbox[t] # <<>> \/ Unseen)

\* A step of one tab into such a state follows the cookie in every tab.
LEMMA ShowFollows ==
  ASSUME Types, NEW t \in Tab, NEW n, tab' = [tab EXCEPT ![t] = n], MayShow(t, n), NEW q \in Tab
  PROVE  Follows(q)
<1>1. CASE q = t
  <2>1. tab'[q] = n
    BY <1>1 DEF Types
  <2>. QED
    BY <1>1, <2>1 DEF MayShow, Follows, Unseen
<1>2. CASE q # t
  <2>1. tab'[q] = tab[q]
    BY <1>2 DEF Types
  <2>. QED
    BY <2>1 DEF Follows
<1>. QED
  BY <1>1, <1>2

\* Whoever an applied answer names is the user of the cookie.
LEMMA AppliedFollows ==
  ASSUME SessionInv, NEW t \in Tab, NEW o \in tab[t].ops, Live(o)
  PROVE  Says(o) = cookie \/ inbox[t] # <<>> \/ Unseen
BY LiveApplies DEF Names

\* What users and timers start.
LEMMA UserFollows ==
  ASSUME SessionInv, NEW t \in Tab, Refresh(t) \/ Retry(t) \/ Logout(t) \/ CloseTab(t)
  PROVE  \A q \in Tab : Follows(q)
<1>0. Types /\ Good(tab[t]) /\ tab[t] \in TabState
  BY DEF SessionInv, Types
<1>1. CASE Refresh(t)
  <2>1. Free(tab[t]) /\ tab' = [tab EXCEPT ![t] = StartMe(tab[t], "refresh")] /\ "refresh" \in Why
    BY <1>0, <1>1, IdleFree DEF Refresh, Why
  <2>2. StartMe(tab[t], "refresh").status = tab[t].status
    BY <1>0, <2>1, StartMeCalm DEF SameFace
  <2>. QED
    BY <1>0, <2>1, <2>2, ShowFollows DEF MayShow
<1>2. CASE Retry(t)
  <2>1. /\ Free(tab[t]) /\ "retry" \in Why
        /\ tab' = [tab EXCEPT ![t] = [StartMe(tab[t], "retry") EXCEPT !.status = "loading"]]
    BY <1>0, <1>2, IdleFree DEF Retry, Why
  <2>2. StartMe(tab[t], "retry") \in TabState
    BY <1>0, <2>1, StartMeCalm
  <2>3. [StartMe(tab[t], "retry") EXCEPT !.status = "loading"].status = "loading"
    BY <2>2 DEF TabState
  <2>. QED
    BY <1>0, <2>1, <2>3, ShowFollows DEF MayShow
<1>3. CASE Logout(t)
  <2>. DEFINE a == Advance(tab[t], {"local", "epoch"})
              s == ClearSessionState(a)
              x == Operation(NextId(s), 0, "logout", "user", NoUser)
              n == [s EXCEPT !.ops = @ \cup {x}]
  <2>1. tab' = [tab EXCEPT ![t] = n]
    BY <1>3 DEF Logout
  <2>2. a \in TabState
    BY <1>0, AdvanceFields
  <2>. HIDE DEF a
  <2>3. s \in TabState /\ s.status = "anonymous"
    BY <2>2, ClearFields
  <2>4. x.kind = "logout"
    BY DEF Operation
  <2>. HIDE DEF s, x
  <2>5. n.status = "anonymous" /\ x \in n.ops
    BY <2>3 DEF TabState
  <2>. HIDE DEF n
  <2>. QED
    BY <1>0, <2>1, <2>4, <2>5, ShowFollows DEF MayShow
<1>4. CASE CloseTab(t)
  <2>1. PICK n : n = [tab[t] EXCEPT !.open = FALSE, !.status = "anonymous", !.user = NoUser,
                                    !.ops = {}, !.poll = NoPoll, !.external = {}]
    OBVIOUS
  <2>2. tab' = [tab EXCEPT ![t] = n]
    BY <1>0, <1>4, <2>1 DEF CloseTab, Types, TabState
  <2>3. n.status = "anonymous" /\ n.open = FALSE
    BY <1>0, <2>1 DEF TabState
  <2>. QED
    BY <1>0, <2>2, <2>3, ShowFollows DEF MayShow
<1>. QED
  BY <1>1, <1>2, <1>3, <1>4

\* A request that begins or moves on leaves the screen as it is.
LEMMA RequestFollows ==
  ASSUME SessionInv, NEW t \in Tab,
         \/ \E kind, u : BeginIdentity(t, kind, u) \/ RotateSession(t, kind, u)
         \/ \E o \in tab[t].ops : PassBarrier(t, o) \/ Send(t, o)
         \/ SendPoll(t) \/ AnswerPoll(t)
  PROVE  \A q \in Tab : Follows(q)
<1>0. Types /\ tab[t] \in TabState
  BY DEF SessionInv, Types
<1>1. ASSUME NEW c, NEW X PROVE [Advance(tab[t], c) EXCEPT !.ops = X].status = tab[t].status
  <2>1. PICK a : a = Advance(tab[t], c)
    OBVIOUS
  <2>2. a \in TabState /\ a.status = tab[t].status
    BY <1>0, <2>1, AdvanceFields DEF SameFace
  <2>. QED
    BY <2>1, <2>2 DEF TabState
<1>2. ASSUME NEW n, n.status = tab[t].status, tab' = [tab EXCEPT ![t] = n]
      PROVE  \A q \in Tab : Follows(q)
  BY <1>0, <1>2, ShowFollows DEF MayShow
<1>3. ASSUME NEW kind, NEW u, BeginIdentity(t, kind, u) PROVE \A q \in Tab : Follows(q)
  <2>1. \E c, X : tab' = [tab EXCEPT ![t] = [Advance(tab[t], c) EXCEPT !.ops = X]]
    BY <1>3 DEF BeginIdentity
  <2>. QED
    BY <1>1, <1>2, <2>1
<1>4. ASSUME NEW kind, NEW u, RotateSession(t, kind, u) PROVE \A q \in Tab : Follows(q)
  <2>1. \E c, X : tab' = [tab EXCEPT ![t] = [Advance(tab[t], c) EXCEPT !.ops = X]]
    BY <1>4 DEF RotateSession
  <2>. QED
    BY <1>1, <1>2, <2>1
<1>5. ASSUME NEW o \in tab[t].ops
      PROVE  LET w == Without(tab[t], o) IN
             /\ w.status = tab[t].status
             /\ \A X : [w EXCEPT !.ops = X].status = tab[t].status
             /\ \A c, X : [Advance(w, c) EXCEPT !.ops = X].status = tab[t].status
             /\ \A p : Replace(tab[t], o, p).status = tab[t].status
  <2>1. PICK w : w = Without(tab[t], o)
    OBVIOUS
  <2>2. w \in TabState /\ w.status = tab[t].status
    BY <1>0, <2>1, WithoutFields DEF SameFace
  <2>3. \A X : [w EXCEPT !.ops = X].status = tab[t].status
    BY <2>2 DEF TabState
  <2>4. ASSUME NEW c, NEW X PROVE [Advance(w, c) EXCEPT !.ops = X].status = tab[t].status
    <3>1. PICK a : a = Advance(w, c)
      OBVIOUS
    <3>2. a \in TabState /\ a.status = w.status
      BY <2>2, <3>1, AdvanceFields DEF SameFace
    <3>. QED
      BY <2>2, <3>1, <3>2 DEF TabState
  <2>5. \A p : Replace(tab[t], o, p).status = tab[t].status
    BY <1>0 DEF Replace, TabState
  <2>. QED
    BY <2>1, <2>2, <2>3, <2>4, <2>5
<1>6. ASSUME NEW o \in tab[t].ops, PassBarrier(t, o) PROVE \A q \in Tab : Follows(q)
  <2>. DEFINE w == Without(tab[t], o)
  <2>1. \/ tab' = [tab EXCEPT ![t] = w]
        \/ \E p : tab' = [tab EXCEPT ![t] = Replace(tab[t], o, p)]
        \/ \E c, X : tab' = [tab EXCEPT ![t] = [Advance(w, c) EXCEPT !.ops = X]]
    BY <1>6 DEF PassBarrier
  <2>. HIDE DEF w
  <2>2. /\ w.status = tab[t].status
        /\ \A c, X : [Advance(w, c) EXCEPT !.ops = X].status = tab[t].status
        /\ \A p : Replace(tab[t], o, p).status = tab[t].status
    BY <1>5 DEF w
  <2>. QED
    BY <1>2, <2>1, <2>2
<1>7. ASSUME NEW o \in tab[t].ops, Send(t, o) PROVE \A q \in Tab : Follows(q)
  <2>. DEFINE w == Without(tab[t], o)
  <2>1. \/ \E X : tab' = [tab EXCEPT ![t] = [w EXCEPT !.ops = X]]
        \/ \E c, X : tab' = [tab EXCEPT ![t] = [Advance(w, c) EXCEPT !.ops = X]]
    BY <1>7 DEF Send
  <2>. HIDE DEF w
  <2>2. /\ \A X : [w EXCEPT !.ops = X].status = tab[t].status
        /\ \A c, X : [Advance(w, c) EXCEPT !.ops = X].status = tab[t].status
    BY <1>5 DEF w
  <2>. QED
    BY <1>2, <2>1, <2>2
<1>8. CASE SendPoll(t) \/ AnswerPoll(t)
  <2>1. \E p : tab' = [tab EXCEPT ![t] = [tab[t] EXCEPT !.poll = p]]
    BY <1>0, <1>8 DEF SendPoll, AnswerPoll, Types, TabState
  <2>2. \A p : [tab[t] EXCEPT !.poll = p].status = tab[t].status
    BY <1>0 DEF TabState
  <2>. QED
    BY <1>2, <2>1, <2>2
<1>. QED
  BY <1>3, <1>4, <1>6, <1>7, <1>8

\* An answer that arrives leaves the screen as it is, or starts a new session epoch.
LEMMA ReceiveFollows ==
  ASSUME SessionInv, NEW t \in Tab, NEW o \in tab[t].ops, NEW out \in Outcome(o) \cup Lost(o),
         Receive(t, o, out)
  PROVE  \A q \in Tab : Follows(q)
<1>0. Types /\ Good(tab[t]) /\ o \in Op /\ cookie \in Account
  BY BusyOpen DEF SessionInv, Types
<1>1. Idle(t) /\ o.phase = "sent"
  BY ReceiveShape
<1>2. PICK boundary \in BOOLEAN :
        tab' = [tab EXCEPT ![t] = Arrived(Plus(Without(tab[t], o), Answered(o, out[1], out[2])),
                                          o.kind, boundary)]
  BY ReceiveShape
<1>3. OutcomeSound(o, out[1], out[2])
  BY <1>0, OutcomesSound DEF Good, OpsSound
<1>4. PICK s : s = Plus(Without(tab[t], o), Answered(o, out[1], out[2]))
  OBVIOUS
<1>5. Good(s) /\ Free(s) /\ SameFace(tab[t], s)
  BY <1>1, <1>3, <1>4, AnsweredGood
<1>6. PICK n : n = Arrived(s, o.kind, boundary)
  OBVIOUS
<1>7. (boundary => n.status = "loading") /\ (~boundary => SameFace(s, n))
  BY <1>5, <1>6, ArrivedCalm
<1>8. MayShow(t, n)
  BY <1>5, <1>7 DEF SameFace, MayShow
<1>. QED
  BY <1>0, <1>2, <1>4, <1>6, <1>8, ShowFollows

\* Boundary messages and the watchdog only take a tab to its loading screen.
LEMMA MessageFollows ==
  ASSUME SessionInv, NEW t \in Tab, ReceiveBoundary(t) \/ \E p \in Tab : Watchdog(t, p)
  PROVE  \A q \in Tab : Follows(q)
<1>0. Types /\ Good(tab[t]) /\ tab[t] \in TabState /\ "reconcile" \in Why
  BY DEF SessionInv, Types, Why
<1>1. CASE ReceiveBoundary(t)
  <2>1. PICK open \in SUBSET (Tab \ {t}) :
          tab' = [tab EXCEPT ![t] = IF open = {} THEN StartMe(Waiting(tab[t], open), "reconcile")
                                    ELSE Waiting(tab[t], open)]
    BY <1>1, ReceiveBoundaryCases
  <2>2. PICK s : s = Waiting(tab[t], open)
    OBVIOUS
  <2>3. Free(tab[t]) /\ open \in SUBSET Tab
    BY <1>0, <1>1, <2>1, IdleFree DEF ReceiveBoundary
  <2>4. Calm(tab[t], s) /\ Free(s) /\ s.status = "loading"
    BY <1>0, <2>2, <2>3, WaitingForgets
  <2>5. SameFace(s, StartMe(s, "reconcile"))
    BY <1>0, <2>4, StartMeCalm DEF Calm
  <2>6. PICK n : n = IF open = {} THEN StartMe(s, "reconcile") ELSE s
    OBVIOUS
  <2>7. MayShow(t, n)
    BY <2>4, <2>5, <2>6 DEF MayShow, SameFace
  <2>. QED
    BY <1>0, <2>1, <2>2, <2>6, <2>7, ShowFollows
<1>2. ASSUME NEW p \in Tab, Watchdog(t, p) PROVE \A q \in Tab : Follows(q)
  <2>. DEFINE s == [tab[t] EXCEPT !.external = @ \ {p}]
  <2>1. tab' = [tab EXCEPT ![t] = IF s.external = {} THEN StartMe(s, "reconcile") ELSE s]
    BY <1>2 DEF Watchdog
  <2>2. Free(tab[t])
    BY <1>0, <1>2, IdleFree DEF Watchdog
  <2>3. /\ s \in TabState /\ s.ops = tab[t].ops /\ s.open = tab[t].open /\ s.status = tab[t].status
        /\ s.user = tab[t].user /\ s.challenge = tab[t].challenge /\ s.poll = tab[t].poll
    BY <1>0 DEF TabState
  <2>. HIDE DEF s
  <2>4. Good(s) /\ Free(s)
    BY <1>0, <2>2, <2>3, SameOpsCalm DEF Calm, Free
  <2>5. SameFace(s, StartMe(s, "reconcile"))
    BY <1>0, <2>4, StartMeCalm
  <2>6. PICK n : n = IF s.external = {} THEN StartMe(s, "reconcile") ELSE s
    OBVIOUS
  <2>7. MayShow(t, n)
    BY <2>3, <2>5, <2>6 DEF MayShow, SameFace
  <2>. QED
    BY <1>0, <2>1, <2>6, <2>7, ShowFollows
<1>. QED
  BY <1>1, <1>2

\* A denial ends the session only when it belongs to it, and then the session has ended.
LEMMA ReceivePollFollows ==
  ASSUME SessionInv, NEW t \in Tab, ReceivePoll(t)
  PROVE  \A q \in Tab : Follows(q)
<1>. DEFINE s == [tab[t] EXCEPT !.poll = NoPoll]
            a == Advance(s, {"epoch"})
<1>0. Types /\ Agrees(t) /\ tab[t] \in TabState
  BY DEF SessionInv, Types
<1>1. \/ /\ Expires(tab[t])
         /\ tab' = [tab EXCEPT ![t] = ClearSessionState(a)]
      \/ tab' = [tab EXCEPT ![t] = s]
  BY DEF ReceivePoll
<1>2. s \in TabState /\ s.status = tab[t].status
  BY <1>0 DEF TabState, NoPoll, Poll
<1>. HIDE DEF s
<1>3. CASE tab' = [tab EXCEPT ![t] = s]
  BY <1>0, <1>2, <1>3, ShowFollows DEF MayShow
<1>4. CASE Expires(tab[t]) /\ tab' = [tab EXCEPT ![t] = ClearSessionState(a)]
  <2>1. ClearSessionState(a).status = "anonymous"
    BY <1>2, AdvanceFields, ClearFields
  <2>2. tab[t].poll.phase = "denied" /\ tab[t].poll.epoch = TRUE
    <3>1. tab[t].poll.epoch \in BOOLEAN
      BY <1>0 DEF TabState, Poll
    <3>. QED
      BY <1>4, <3>1 DEF Expires
  <2>3. cookie = NoUser \/ inbox[t] # <<>>
    BY <1>0, <2>2 DEF Agrees, Agree
  <2>. HIDE DEF a
  <2>. QED
    BY <1>0, <1>4, <2>1, <2>3, ShowFollows DEF MayShow
<1>. QED
  BY <1>1, <1>3, <1>4

\* An answer that is applied is the current one.
LEMMA SettleFollows ==
  ASSUME SessionInv, NEW t \in Tab, NEW o \in tab[t].ops, Settle(t, o)
  PROVE  \A q \in Tab : Follows(q)
<1>. DEFINE w == Without(tab[t], o)
            a == Advance(w, {"epoch"})
<1>0. /\ Types /\ Good(tab[t]) /\ tab[t] \in TabState /\ o \in Op /\ OpSound(o) /\ Free(tab[t])
      /\ o.phase = "answered"
  BY BusyOpen, IdleFree DEF SessionInv, Types, Settle, Good, OpsSound
<1>1. w \in TabState /\ w.status = tab[t].status /\ w.user = tab[t].user /\ Good(w) /\ Free(w)
  <2>1. w.ops = tab[t].ops \ {o}
    BY <1>0, WithoutFields
  <2>. QED
    BY <1>0, <2>1, WithoutFields, WithoutGood DEF SameFace, Free
<1>2. a \in TabState
  BY <1>1, AdvanceFields
<1>3. \A s \in TabState : \A u : ApplySession(s, u).status = "authenticated" /\ ApplySession(s, u).user = u
  BY DEF ApplySession, TabState
<1>4. \A s \in TabState : ClearSessionState(s).status = "anonymous" /\ ClearSessionState(s) \in TabState
  BY ClearFields
<1>5. ASSUME NEW n, tab' = [tab EXCEPT ![t] = n], MayShow(t, n) PROVE \A q \in Tab : Follows(q)
  BY <1>0, <1>5, ShowFollows
<1>6. Live(o) /\ o.answer = "session" => o.user = cookie \/ inbox[t] # <<>> \/ Unseen
  BY AppliedFollows DEF Says
<1>7. Live(o) /\ o.answer # "session" => cookie = NoUser \/ inbox[t] # <<>>
  BY AppliedFollows DEF Says, Unseen
<1>. HIDE DEF w, a
<1>8. CASE o.kind = "me" /\ SettleMe(t, o)
  <2>1. \/ /\ o.answer = "session" /\ Live(o)
           /\ tab' = [tab EXCEPT ![t] = ApplySession(a, o.user)]
        \/ /\ o.answer # "session" /\ Live(o)
           /\ tab' = [tab EXCEPT ![t] = ClearSessionState(a)]
        \/ tab' = [tab EXCEPT ![t] = [w EXCEPT !.status = "unavailable"]]
        \/ tab' = [tab EXCEPT ![t] = w]
    BY <1>0, <1>8, SettleMeCases DEF Live, w, a
  <2>2. [w EXCEPT !.status = "unavailable"].status = "unavailable"
    BY <1>1 DEF TabState
  <2>3. CASE o.answer = "session" /\ Live(o) /\ tab' = [tab EXCEPT ![t] = ApplySession(a, o.user)]
    BY <1>2, <1>3, <1>5, <1>6, <2>3 DEF MayShow
  <2>4. CASE o.answer # "session" /\ Live(o) /\ tab' = [tab EXCEPT ![t] = ClearSessionState(a)]
    BY <1>2, <1>4, <1>5, <1>7, <2>4 DEF MayShow
  <2>5. CASE tab' = [tab EXCEPT ![t] = [w EXCEPT !.status = "unavailable"]]
    BY <1>5, <2>2, <2>5 DEF MayShow
  <2>6. CASE tab' = [tab EXCEPT ![t] = w]
    BY <1>1, <1>5, <2>6 DEF MayShow
  <2>. QED
    BY <2>1, <2>3, <2>4, <2>5, <2>6
<1>9. CASE o.kind \in AllIdentityKind /\ SettleIdentity(t, o)
  <2>. DEFINE paused == [w EXCEPT !.mfa = @ \/ o.answer = "mfa",
                                  !.challenge = @ /\ ~(o.kind = "temporary" /\ o.answer = "mfa")]
  <2>1. PICK pa : pa = paused
    OBVIOUS
  <2>2. pa.status = w.status /\ pa.user = w.user /\ [pa EXCEPT !.status = "anonymous"].status = "anonymous"
    BY <1>1, <2>1 DEF TabState
  <2>3. \/ tab' = [tab EXCEPT ![t] = StartMe(w, "reconcile")]
        \/ tab' = [tab EXCEPT ![t] = w]
        \/ /\ o.answer = "session" /\ Live(o)
           /\ tab' = [tab EXCEPT ![t] = [ApplySession(w, o.user) EXCEPT !.mfa = FALSE]]
        \/ /\ o.answer # "session" /\ Live(o)
           /\ \/ tab' = [tab EXCEPT ![t] = [ClearSessionState(w) EXCEPT !.challenge = TRUE]]
              \/ tab' = [tab EXCEPT ![t] = ClearSessionState(w)]
        \/ tab' = [tab EXCEPT ![t] = pa]
        \/ /\ pa.user = NoUser
           /\ tab' = [tab EXCEPT ![t] = [pa EXCEPT !.status = "anonymous"]]
    BY <1>0, <1>9, <2>1, SettleIdentityCases, ZenonT(40) DEF Live, w
  <2>. HIDE DEF paused
  <2>4. CASE tab' = [tab EXCEPT ![t] = StartMe(w, "reconcile")]
    <3>1. "reconcile" \in Why
      BY DEF Why
    <3>2. StartMe(w, "reconcile").status = w.status
      BY <1>1, <3>1, StartMeCalm DEF SameFace
    <3>. QED
      BY <1>1, <1>5, <2>4, <3>2 DEF MayShow
  <2>5. CASE tab' = [tab EXCEPT ![t] = w]
    BY <1>1, <1>5, <2>5 DEF MayShow
  <2>6. CASE /\ o.answer = "session" /\ Live(o)
             /\ tab' = [tab EXCEPT ![t] = [ApplySession(w, o.user) EXCEPT !.mfa = FALSE]]
    <3>1. PICK n : n = [ApplySession(w, o.user) EXCEPT !.mfa = FALSE]
      OBVIOUS
    <3>2. n.status = "authenticated" /\ n.user = o.user
      BY <1>1, <3>1 DEF ApplySession, TabState
    <3>. QED
      BY <1>5, <1>6, <2>6, <3>1, <3>2 DEF MayShow
  <2>7. CASE /\ o.answer # "session" /\ Live(o)
             /\ tab' = [tab EXCEPT ![t] = [ClearSessionState(w) EXCEPT !.challenge = TRUE]]
    <3>1. PICK n : n = [ClearSessionState(w) EXCEPT !.challenge = TRUE]
      OBVIOUS
    <3>2. n.status = "anonymous"
      BY <1>1, <1>4, <3>1 DEF TabState
    <3>. QED
      BY <1>5, <1>7, <2>7, <3>1, <3>2 DEF MayShow
  <2>8. CASE /\ o.answer # "session" /\ Live(o)
             /\ tab' = [tab EXCEPT ![t] = ClearSessionState(w)]
    BY <1>1, <1>4, <1>5, <1>7, <2>8 DEF MayShow
  <2>9. CASE tab' = [tab EXCEPT ![t] = pa]
    BY <1>1, <1>5, <2>2, <2>9 DEF MayShow
  <2>10. CASE pa.user = NoUser /\ tab' = [tab EXCEPT ![t] = [pa EXCEPT !.status = "anonymous"]]
    <3>1. tab[t].status # "authenticated"
      BY <1>0, <1>1, <2>2, <2>10, SessionAssumption DEF Good, PendingSound
    <3>. QED
      BY <1>5, <2>2, <2>10, <3>1 DEF MayShow
  <2>. QED
    BY <2>3, <2>4, <2>5, <2>6, <2>7, <2>8, <2>9, <2>10
<1>10. CASE tab' = [tab EXCEPT ![t] = Without(tab[t], o)]
  BY <1>1, <1>5, <1>10 DEF MayShow, w
<1>. QED
  BY <1>8, <1>9, <1>10 DEF Settle

\* No late answer changes who a tab takes itself for: it only becomes signed in as whoever
\* the cookie names, and only leaves its signed-in screen by itself when the session has
\* ended, unless a message that makes it ask again is on its way (the guards on generation,
\* epoch and intent in AuthContext.tsx and on the epoch of a 401 in lib/api.ts).
THEOREM FollowsCookieAlways == Spec => FollowsCookie
<1>1. ASSUME SessionInv, Next, NEW q \in Tab PROVE Follows(q)
  <2>1. CASE EndSession
    BY <2>1 DEF EndSession, Follows
  <2>2. CASE UserNext
    <3>1. PICK t \in Tab : \/ Refresh(t) \/ Logout(t) \/ CloseTab(t)
                           \/ \E kind, u : BeginIdentity(t, kind, u) \/ RotateSession(t, kind, u)
      BY <2>2 DEF UserNext
    <3>. QED
      BY <1>1, <3>1, UserFollows, RequestFollows
  <2>3. ASSUME NEW t \in Tab, Step(t) PROVE Follows(q)
    BY <1>1, <2>3, RequestFollows, ReceiveFollows, SettleFollows, MessageFollows DEF Step
  <2>4. ASSUME NEW t \in Tab, Retry(t) \/ SendPoll(t) \/ AnswerPoll(t) \/ ReceivePoll(t)
        PROVE  Follows(q)
    BY <1>1, <2>4, UserFollows, RequestFollows, ReceivePollFollows
  <2>. QED
    BY <1>1, <2>1, <2>2, <2>3, <2>4 DEF Next
<1>2. SessionInv /\ [Next]_vars => [\A t \in Tab : Follows(t)]_vars
  BY <1>1
<1>3. [][\A t \in Tab : Follows(t)]_vars => FollowsCookie
  BY PTL DEF FollowsCookie, Follows
<1>. QED
  BY <1>2, <1>3, SessionSound, PTL DEF Spec

-----------------------------------------------------------------------------
(* An announced transition is reported                                       *)

\* Word of the end of p's transition is still to come: its request is under way, a message
\* behind the first n says that it settled, or the tab closed and the watchdog will fire.
Reported(t, p, n) ==
  \/ tab[p].open = FALSE
  \/ Announcing(tab[p])
  \/ \E m \in DOMAIN inbox[t] : m > n /\ inbox[t][m] = [phase |-> "settled", from |-> p]

\* So it is for every transition a tab waits for or has yet to hear of.
ReportsInv ==
  /\ \A t \in Tab : \A p \in tab[t].external : Reported(t, p, 0)
  /\ \A t \in Tab : \A n \in DOMAIN inbox[t] :
       inbox[t][n].phase = "start" => Reported(t, inbox[t][n].from, n)

-----------------------------------------------------------------------------
(* The loading screen ends                                                   *)

\* An operation that ends the loading screen, or starts another one that does.
Drives(s, o) ==
  \/ o.kind = "me" /\ o.gen = TRUE /\ o.intent = TRUE /\ o.why # "refresh"
     /\ (o.epoch = TRUE \/ o.phase = "queued")
  \/ o.kind \in AllIdentityKind /\ o.phase = "barrier" /\ o.local = TRUE
     /\ (o.kind = "temporary" => s.challenge = TRUE)
  \/ o.kind \in AllIdentityKind /\ o.phase # "barrier" /\ (o.gen = TRUE \/ o.answer = "session")

Driven(s) == \E o \in s.ops : Drives(s, o)

\* A loading tab that remembers nobody has a message to read, waits for a peer, or asks.
Waits(s, box) ==
  s.status = "loading" /\ s.user = NoUser => box # <<>> \/ s.external # {} \/ Driven(s)

Unrotated(s) == \A o \in s.ops : ~Advances(o.kind)

\* Without a lost answer no tab is on its error screen, and a loading tab remembers nobody.
Untroubled(s) ==
  /\ s.status # "unavailable"
  /\ s.status = "loading" => s.user = NoUser
  /\ \A o \in s.ops : o.answer # "lost"

AwaitsInv ==
  /\ scope.requests \subseteq AllIdentityKind =>
       \A t \in Tab : Unrotated(tab[t]) /\ Waits(tab[t], inbox[t])
  /\ spent.lost = 0 => \A t \in Tab : Untroubled(tab[t])

LoadingInv == ReportsInv /\ AwaitsInv

\* The operations of the next state are those of this one or have just begun.
Heirs(s, n) ==
  \A a \in n.ops :
    \/ \E o \in s.ops : a.kind = o.kind /\ a.answer = o.answer
    \/ ~Advances(a.kind) /\ a.answer = "none"

\* The operations that stay, or stay with other snapshots.
LEMMA SameHeirs ==
  ASSUME NEW s, NEW n,
         \A a \in n.ops : a \in s.ops \/ \E o \in s.ops : SameRequest(o, a)
  PROVE  Heirs(s, n)
BY DEF Heirs, SameRequest

\* Steps compose.
LEMMA HeirsTwice ==
  ASSUME NEW s, NEW n, NEW m, Heirs(s, n), Heirs(n, m)
  PROVE  Heirs(s, m)
BY DEF Heirs

\* Counters that move on, and an identity that is forgotten, start no operation.
LEMMA AgedHeirs ==
  ASSUME NEW s \in TabState, NEW c
  PROVE  Heirs(s, Advance(s, c)) /\ Heirs(s, ClearSessionState(s))
<1>1. Heirs(s, Advance(s, c))
  BY AdvanceFrom, SameHeirs
<1>2. ClearSessionState(s).ops = Advance(s, {"gen", "intent"}).ops
  BY ClearFields
<1>3. Heirs(s, ClearSessionState(s))
  BY <1>2, AdvanceFrom, SameHeirs
<1>. QED
  BY <1>1, <1>3

\* A request of api.me other than a refresh ends the loading screen.
LEMMA StartMeDrives ==
  ASSUME NEW s, Good(s), Free(s), NEW why \in Why
  PROVE  /\ Heirs(s, StartMe(s, why))
         /\ why # "refresh" => Driven(StartMe(s, why))
<1>1. PICK n : n = StartMe(s, why)
  OBVIOUS
<1>2. PICK b : b = Advance(s, {"gen"})
  OBVIOUS
<1>3. PICK x \in Op : Fresh(x, why) /\ n.ops = b.ops \cup {x}
  BY <1>1, <1>2, StartMeCalm
<1>4. Good(n)
  BY <1>1, StartMeCalm DEF Calm
<1>5. x.kind = "me" /\ x.answer = "none" /\ ~Advances(x.kind)
  <2>1. OpSound(x)
    BY <1>3, <1>4 DEF Good, OpsSound
  <2>. QED
    BY <1>3, <2>1 DEF Fresh, OpSound, Advances
<1>6. \A a \in b.ops : \E o \in s.ops : SameRequest(o, a)
  BY <1>2, AdvanceFrom DEF Good
<1>7. Heirs(s, n)
  BY <1>3, <1>5, <1>6 DEF Heirs, SameRequest
<1>8. why # "refresh" => Drives(n, x)
  BY <1>3 DEF Fresh, Drives
<1>9. x \in n.ops
  BY <1>3
<1>. QED
  BY <1>1, <1>7, <1>8, <1>9 DEF Driven

\* How a step of a tab keeps the loading screen awaited.
Proceeds(t, n) ==
  /\ scope.requests \subseteq AllIdentityKind /\ Unrotated(tab[t]) /\ Waits(tab[t], inbox[t]) =>
       Unrotated(n) /\ Waits(n, inbox'[t])
  /\ spent'.lost = 0 /\ Untroubled(tab[t]) => Untroubled(n)

Screen(t, n) ==
  \/ n.status \in {"authenticated", "anonymous"}
  \/ n.status = "unavailable" /\ ~Untroubled(tab[t])
  \/ /\ \/ n.status = "loading" /\ (n.user = NoUser \/ ~Untroubled(tab[t]))
        \/ n.status = tab[t].status /\ n.user = tab[t].user
     /\ Unrotated(tab[t]) => Driven(n) \/ n.external # {}
  \/ /\ n.status = tab[t].status /\ n.user = tab[t].user /\ n.external = tab[t].external
     /\ Unrotated(tab[t]) /\ Driven(tab[t]) => Driven(n) \/ n.user # NoUser
     /\ inbox[t] # <<>> => inbox'[t] # <<>>

\* Each of these screens is one to proceed to.
LEMMA ScreenProceeds ==
  ASSUME NEW t \in Tab, NEW n, Heirs(tab[t], n), Screen(t, n)
  PROVE  Proceeds(t, n)
<1>1. Unrotated(tab[t]) => Unrotated(n)
  BY DEF Heirs, Unrotated
<1>2. (\A o \in tab[t].ops : o.answer # "lost") => \A o \in n.ops : o.answer # "lost"
  BY DEF Heirs
<1>3. Unrotated(tab[t]) /\ Waits(tab[t], inbox[t]) => Waits(n, inbox'[t])
  BY DEF Waits, Screen
<1>4. Untroubled(tab[t]) => Untroubled(n)
  BY <1>2 DEF Untroubled, Screen
<1>. QED
  BY <1>1, <1>3, <1>4 DEF Proceeds

\* Messages that are on their way stay, and no transition is announced.
Grown(q) ==
  /\ \A k \in DOMAIN inbox[q] : k \in DOMAIN inbox'[q] /\ inbox'[q][k] = inbox[q][k]
  /\ \A k \in DOMAIN inbox'[q] : k \in DOMAIN inbox[q] \/ inbox'[q][k].phase # "start"

Moves(t, n) ==
  /\ tab' = [tab EXCEPT ![t] = n]
  /\ tab[t].open = FALSE => n.open = FALSE
  /\ Announcing(tab[t]) => Announcing(n) \/ n.open = FALSE
  /\ n.external \subseteq tab[t].external
  /\ Proceeds(t, n)

\* A step of one tab that keeps the loading screens awaited.
LEMMA AwaitsKept ==
  ASSUME SessionInv, AwaitsInv, UNCHANGED scope, Grows, NEW t \in Tab, NEW n,
         tab' = [tab EXCEPT ![t] = n], Proceeds(t, n),
         \A q \in Tab \ {t} : inbox[q] # <<>> => inbox'[q] # <<>>
  PROVE  AwaitsInv'
<1>1. tab'[t] = n /\ \A q \in Tab : q # t => tab'[q] = tab[q]
  BY DEF SessionInv, Types
<1>2. spent'.lost = 0 => spent.lost = 0
  <2>1. "lost" \in Event /\ spent \in [Event -> Nat] /\ spent' \in [Event -> Nat]
    BY DEF Event, SessionInv, Types, Grows
  <2>2. spent.lost \in Nat /\ spent'.lost \in Nat
    BY <2>1
  <2>. QED
    BY <2>1, <2>2 DEF Grows
<1>3. ASSUME scope'.requests \subseteq AllIdentityKind, NEW q \in Tab
      PROVE  Unrotated(tab'[q]) /\ Waits(tab'[q], inbox'[q])
  <2>1. Unrotated(tab[q]) /\ Waits(tab[q], inbox[q]) /\ scope.requests \subseteq AllIdentityKind
    BY <1>3 DEF AwaitsInv
  <2>2. CASE q = t
    BY <1>1, <2>1, <2>2 DEF Proceeds
  <2>3. CASE q # t
    BY <1>1, <2>1, <2>3 DEF Waits
  <2>. QED
    BY <2>2, <2>3
<1>4. ASSUME spent'.lost = 0, NEW q \in Tab PROVE Untroubled(tab'[q])
  <2>1. Untroubled(tab[q])
    BY <1>2, <1>4 DEF AwaitsInv
  <2>. QED
    BY <1>1, <1>4, <2>1 DEF Proceeds
<1>. QED
  BY <1>3, <1>4 DEF AwaitsInv

\* A report that was to come still is, when nothing is lost from the box.
LEMMA ReportKept ==
  ASSUME SessionInv, NEW t \in Tab, NEW n, tab' = [tab EXCEPT ![t] = n],
         tab[t].open = FALSE => n.open = FALSE,
         Announcing(tab[t]) => Announcing(n) \/ n.open = FALSE,
         NEW q \in Tab, \A k \in DOMAIN inbox[q] : k \in DOMAIN inbox'[q] /\ inbox'[q][k] = inbox[q][k],
         NEW p \in Tab, NEW m, Reported(q, p, m)
  PROVE  Reported(q, p, m)'
<1>1. tab'[t] = n /\ \A r \in Tab : r # t => tab'[r] = tab[r]
  BY DEF SessionInv, Types
<1>2. CASE tab[p].open = FALSE
  BY <1>1, <1>2 DEF Reported
<1>3. CASE Announcing(tab[p])
  BY <1>1, <1>3 DEF Reported
<1>4. ASSUME NEW k \in DOMAIN inbox[q], k > m, inbox[q][k] = [phase |-> "settled", from |-> p]
      PROVE  Reported(q, p, m)'
  BY <1>4 DEF Reported
<1>. QED
  BY <1>2, <1>3, <1>4 DEF Reported

\* Transitions are those of tabs.
LEMMA SendersAreTabs ==
  ASSUME SessionInv, NEW q \in Tab
  PROVE  /\ tab[q].external \subseteq Tab \ {q}
         /\ \A k \in DOMAIN inbox[q] : inbox[q][k] \in Message /\ inbox[q][k].from \in Tab \ {q}
<1>1. inbox[q] \in Seq(Message) /\ tab[q].external \subseteq Tab \ {q}
  BY DEF SessionInv, Types, TabState
<1>2. ASSUME NEW k \in DOMAIN inbox[q]
      PROVE  inbox[q][k] \in Message /\ inbox[q][k].from \in Tab \ {q}
  <2>1. inbox[q][k] \in Message
    BY <1>1, <1>2
  <2>2. inbox[q][k].from # q
    BY DEF SessionInv, Types
  <2>. QED
    BY <2>1, <2>2 DEF Message
<1>. QED
  BY <1>1, <1>2

\* A step of one tab that announces nothing and leaves no announcement unreported.
LEMMA MovesKeep ==
  ASSUME SessionInv, LoadingInv, UNCHANGED scope, Grows, NEW t \in Tab, NEW n, Moves(t, n),
         \A q \in Tab : Grown(q)
  PROVE  LoadingInv'
<1>1. tab'[t] = n /\ \A q \in Tab : q # t => tab'[q] = tab[q]
  BY DEF SessionInv, Types, Moves
<1>2. ASSUME NEW q \in Tab, NEW p \in Tab, NEW m, Reported(q, p, m) PROVE Reported(q, p, m)'
  BY <1>2, ReportKept DEF Grown, Moves
<1>3. \A q \in Tab : tab[q].external \subseteq Tab /\ tab'[q].external \subseteq tab[q].external
  BY <1>1 DEF SessionInv, Types, TabState, Moves
<1>4. ASSUME NEW q \in Tab, NEW k \in DOMAIN inbox[q] PROVE inbox[q][k].from \in Tab
  BY <1>4, SendersAreTabs
<1>5. ReportsInv'
  <2>1. ASSUME NEW q \in Tab, NEW p \in tab'[q].external PROVE Reported(q, p, 0)'
    BY <1>2, <1>3, <2>1 DEF LoadingInv, ReportsInv
  <2>2. ASSUME NEW q \in Tab, NEW k \in DOMAIN inbox'[q], inbox'[q][k].phase = "start"
        PROVE  Reported(q, inbox[q][k].from, k)'
    <3>1. k \in DOMAIN inbox[q] /\ inbox'[q][k] = inbox[q][k]
      BY <2>2 DEF Grown
    <3>2. PICK p \in Tab : p = inbox[q][k].from
      BY <1>4, <3>1
    <3>3. Reported(q, p, k)
      BY <2>2, <3>1, <3>2 DEF LoadingInv, ReportsInv
    <3>4. Reported(q, p, k)'
      BY <1>2, <3>3
    <3>5. inbox'[q][k].from = p
      BY <3>1, <3>2
    <3>. QED
      BY <3>4, <3>5 DEF Reported
  <2>. QED
    BY <2>1, <2>2 DEF ReportsInv
<1>6. \A q \in Tab : inbox[q] # <<>> => inbox'[q] # <<>>
  <2>1. ASSUME NEW q \in Tab, inbox[q] # <<>> PROVE inbox'[q] # <<>>
    <3>1. inbox[q] \in Seq(Message)
      BY DEF SessionInv, Types
    <3>2. 1 \in DOMAIN inbox[q]
      BY <2>1, <3>1
    <3>. QED
      BY <3>2 DEF Grown
  <2>. QED
    BY <2>1
<1>7. AwaitsInv'
  BY <1>6, AwaitsKept DEF LoadingInv, Moves
<1>. QED
  BY <1>5, <1>7 DEF LoadingInv

\* What Post adds to the boxes.
LEMMA PostAdds ==
  ASSUME Types, NEW t \in Tab, NEW box \in [Tab -> Seq(Message)],
         NEW phase \in {"start", "settled", "boundary"}, NEW q \in Tab,
         NEW m, m = [phase |-> phase, from |-> t], NEW b, b = Post(t, box, phase)
  PROVE  /\ b \in [Tab -> Seq(Message)]
         /\ \A k \in DOMAIN box[q] : k \in DOMAIN b[q] /\ b[q][k] = box[q][k]
         /\ \A k \in DOMAIN b[q] : k \in DOMAIN box[q] \/ b[q][k] = m
         /\ q \in Peers(t) =>
              \E k \in DOMAIN b[q] : (\A j \in DOMAIN box[q] : k > j) /\ k > 0 /\ b[q][k] = m
<1>1. m \in Message
  BY DEF Message
<1>2. b = [p \in Tab |-> IF p \in Peers(t) THEN Append(box[p], m) ELSE box[p]]
  BY DEF Post
<1>3. box[q] \in Seq(Message) /\ b[q] = IF q \in Peers(t) THEN Append(box[q], m) ELSE box[q]
  BY <1>2
<1>4. b \in [Tab -> Seq(Message)]
  BY <1>1, <1>2
<1>5. CASE q \in Peers(t)
  <2>1. b[q] = Append(box[q], m)
    BY <1>3, <1>5
  <2>2. /\ DOMAIN b[q] = 1..(Len(box[q]) + 1) /\ DOMAIN box[q] = 1..Len(box[q]) /\ Len(box[q]) \in Nat
        /\ b[q][Len(box[q]) + 1] = m /\ \A k \in 1..Len(box[q]) : b[q][k] = box[q][k]
    BY <1>1, <1>3, <2>1
  <2>3. Len(box[q]) + 1 \in DOMAIN b[q] /\ (\A j \in DOMAIN box[q] : Len(box[q]) + 1 > j)
        /\ Len(box[q]) + 1 > 0
    BY <2>2
  <2>4. \A k \in DOMAIN b[q] : k \in DOMAIN box[q] \/ k = Len(box[q]) + 1
    BY <2>2
  <2>5. \A k \in DOMAIN box[q] : k \in DOMAIN b[q] /\ b[q][k] = box[q][k]
    BY <2>2
  <2>6. \A k \in DOMAIN b[q] : k \in DOMAIN box[q] \/ b[q][k] = m
    BY <2>2, <2>4
  <2>7. \E k \in DOMAIN b[q] : (\A j \in DOMAIN box[q] : k > j) /\ k > 0 /\ b[q][k] = m
    BY <2>2, <2>3
  <2>. QED
    BY <1>4, <2>5, <2>6, <2>7
<1>6. CASE q \notin Peers(t)
  <2>1. b[q] = box[q]
    BY <1>3, <1>6
  <2>. QED
    BY <1>4, <1>6, <2>1
<1>. QED
  BY <1>5, <1>6

\* The boxes grow when nothing or a boundary is posted.
LEMMA BoxesGrow ==
  ASSUME Types, NEW t \in Tab, inbox' = inbox \/ inbox' = Post(t, inbox, "boundary")
  PROVE  \A q \in Tab : Grown(q)
<1>1. CASE inbox' = inbox
  BY <1>1 DEF Grown
<1>2. CASE inbox' = Post(t, inbox, "boundary")
  <2>1. inbox \in [Tab -> Seq(Message)] /\ "boundary" \in {"start", "settled", "boundary"}
    BY DEF Types
  <2>2. ASSUME NEW q \in Tab PROVE Grown(q)
    <3>1. PICK m : m = [phase |-> "boundary", from |-> t]
      OBVIOUS
    <3>2. PICK b : b = Post(t, inbox, "boundary")
      OBVIOUS
    <3>3. /\ \A k \in DOMAIN inbox[q] : k \in DOMAIN b[q] /\ b[q][k] = inbox[q][k]
          /\ \A k \in DOMAIN b[q] : k \in DOMAIN inbox[q] \/ b[q][k] = m
      BY <2>1, <3>1, <3>2, PostAdds
    <3>4. m.phase = "boundary" /\ inbox' = b
      BY <1>2, <3>1, <3>2
    <3>. QED
      BY <3>3, <3>4 DEF Grown
  <2>. QED
    BY <2>2
<1>. QED
  BY <1>1, <1>2

\* Asking again.
LEMMA AskMoves ==
  ASSUME SessionInv, NEW t \in Tab, Refresh(t) \/ Retry(t)
  PROVE  \E n : Moves(t, n)
<1>0. Types /\ Good(tab[t]) /\ tab[t] \in TabState
  BY DEF SessionInv, Types
<1>1. CASE Refresh(t)
  <2>1. Free(tab[t]) /\ "refresh" \in Why /\ tab[t].status = "authenticated"
    BY <1>0, <1>1, IdleFree DEF Refresh, Why
  <2>2. PICK n : n = StartMe(tab[t], "refresh")
    OBVIOUS
  <2>3. Calm(tab[t], n) /\ SameFace(tab[t], n) /\ Heirs(tab[t], n)
    BY <1>0, <2>1, <2>2, StartMeCalm, StartMeDrives
  <2>4. Proceeds(t, n)
    BY <2>1, <2>3, ScreenProceeds DEF Screen, SameFace
  <2>. QED
    BY <1>1, <2>2, <2>3, <2>4 DEF Refresh, Moves, Calm, SameFace
<1>2. CASE Retry(t)
  <2>1. Free(tab[t]) /\ "retry" \in Why /\ tab[t].status = "unavailable"
    BY <1>0, <1>2, IdleFree DEF Retry, Why
  <2>2. PICK m : m = StartMe(tab[t], "retry")
    OBVIOUS
  <2>3. Calm(tab[t], m) /\ SameFace(tab[t], m) /\ Heirs(tab[t], m) /\ Driven(m) /\ m \in TabState
    BY <1>0, <2>1, <2>2, StartMeCalm, StartMeDrives
  <2>4. PICK n : n = [m EXCEPT !.status = "loading"]
    OBVIOUS
  <2>5. /\ n.ops = m.ops /\ n.open = m.open /\ n.status = "loading"
        /\ n.challenge = m.challenge /\ n.external = m.external
    BY <2>3, <2>4 DEF TabState
  <2>6. Heirs(tab[t], n) /\ Driven(n) /\ (Announcing(m) => Announcing(n))
    BY <2>3, <2>5 DEF Heirs, Driven, Drives, Announcing
  <2>7. ~Untroubled(tab[t])
    BY <2>1 DEF Untroubled
  <2>8. Proceeds(t, n)
    BY <2>5, <2>6, <2>7, ScreenProceeds DEF Screen
  <2>9. tab' = [tab EXCEPT ![t] = n]
    BY <1>2, <2>2, <2>4 DEF Retry
  <2>. QED
    BY <2>3, <2>5, <2>6, <2>8, <2>9 DEF Moves, Calm, SameFace
<1>. QED
  BY <1>1, <1>2

\* A sign-in that begins ends the loading screen; a sign-out and the change of a password
\* leave it alone.
LEMMA BeginMoves ==
  ASSUME SessionInv, NEW t \in Tab, NEW u,
         \/ \E kind \in AllIdentityKind : BeginIdentity(t, kind, u)
         \/ Logout(t)
         \/ \E kind \in scope.requests \ AllIdentityKind : RotateSession(t, kind, u)
  PROVE  \E n : Moves(t, n)
<1>0. Types /\ Good(tab[t]) /\ tab[t] \in TabState
  BY DEF SessionInv, Types
<1>1. ASSUME NEW s \in TabState, NEW x
      PROVE  LET n == [s EXCEPT !.ops = @ \cup {x}] IN
             SameFace(s, n) /\ n.ops = s.ops \cup {x}
  BY DEF TabState, SameFace
<1>2. ASSUME NEW kind \in AllIdentityKind, BeginIdentity(t, kind, u) PROVE \E n : Moves(t, n)
  <2>1. PICK s : s = Advance(tab[t], {"intent", "local", "epoch", "gen"})
    OBVIOUS
  <2>2. Calm(tab[t], s) /\ SameFace(tab[t], s) /\ Heirs(tab[t], s) /\ s \in TabState
    BY <1>0, <2>1, AdvanceCalm, AdvanceFields, AgedHeirs
  <2>3. PICK x : x = Operation(NextId(s), 0, kind, "user", u)
    OBVIOUS
  <2>4. x.kind = kind /\ x.phase = "barrier" /\ x.local = TRUE /\ x.answer = "none"
    BY <2>3 DEF Operation
  <2>5. PICK n : n = [s EXCEPT !.ops = @ \cup {x}]
    OBVIOUS
  <2>6. SameFace(s, n) /\ n.ops = s.ops \cup {x}
    BY <1>1, <2>2, <2>5
  <2>7. n.challenge = tab[t].challenge /\ (kind = "temporary" => tab[t].challenge = TRUE)
    <3>1. tab[t].challenge \in BOOLEAN
      BY <1>0 DEF TabState
    <3>2. kind = "temporary" => tab[t].challenge
      BY <1>2 DEF BeginIdentity
    <3>. QED
      BY <2>2, <2>6, <3>1, <3>2 DEF SameFace
  <2>8. Driven(n)
    <3>1. Drives(n, x)
      BY <2>4, <2>7 DEF Drives
    <3>. QED
      BY <2>6, <3>1 DEF Driven
  <2>9. Heirs(tab[t], n)
    <3>1. ~Advances(x.kind)
      BY <2>4 DEF Advances, AllIdentityKind
    <3>. QED
      BY <2>2, <2>4, <2>6, <3>1 DEF Heirs
  <2>10. Proceeds(t, n)
    BY <2>2, <2>6, <2>8, <2>9, ScreenProceeds DEF Screen, SameFace
  <2>11. tab' = [tab EXCEPT ![t] = n]
    BY <1>2, <2>1, <2>3, <2>5 DEF BeginIdentity
  <2>12. Announcing(tab[t]) => Announcing(n)
    BY <2>2, <2>6 DEF Calm, Announcing
  <2>. QED
    BY <2>2, <2>6, <2>10, <2>11, <2>12 DEF Moves, SameFace
<1>3. CASE Logout(t)
  <2>1. PICK a : a = Advance(tab[t], {"local", "epoch"})
    OBVIOUS
  <2>2. Calm(tab[t], a) /\ SameFace(tab[t], a) /\ Heirs(tab[t], a) /\ a \in TabState /\ Good(a)
    BY <1>0, <2>1, AdvanceCalm, AdvanceFields, AgedHeirs DEF Calm
  <2>3. PICK s : s = ClearSessionState(a)
    OBVIOUS
  <2>4. /\ Calm(a, s) /\ Heirs(a, s) /\ s \in TabState /\ s.status = "anonymous"
        /\ s.external = a.external
    BY <2>2, <2>3, ClearCalm, ClearFields, AgedHeirs
  <2>5. PICK x : x = Operation(NextId(s), 0, "logout", "user", NoUser)
    OBVIOUS
  <2>6. x.kind = "logout" /\ x.answer = "none" /\ ~Advances(x.kind)
    BY <2>5 DEF Operation, Advances
  <2>7. PICK n : n = [s EXCEPT !.ops = @ \cup {x}]
    OBVIOUS
  <2>8. SameFace(s, n) /\ n.ops = s.ops \cup {x}
    BY <1>1, <2>4, <2>7
  <2>9. Heirs(tab[t], s)
    BY <2>2, <2>4, HeirsTwice
  <2>10. Heirs(tab[t], n)
    BY <2>6, <2>8, <2>9 DEF Heirs
  <2>11. Proceeds(t, n)
    BY <2>4, <2>8, <2>10, ScreenProceeds DEF Screen, SameFace
  <2>12. tab' = [tab EXCEPT ![t] = n]
    BY <1>3, <2>1, <2>3, <2>5, <2>7 DEF Logout
  <2>13. Announcing(tab[t]) => Announcing(n)
    BY <2>2, <2>4, <2>8 DEF Calm, Announcing
  <2>14. n.open = tab[t].open /\ n.external = tab[t].external
    BY <2>2, <2>4, <2>8 DEF Calm, SameFace
  <2>. QED
    BY <2>11, <2>12, <2>13, <2>14 DEF Moves
<1>4. ASSUME NEW kind \in scope.requests \ AllIdentityKind, RotateSession(t, kind, u)
      PROVE  \E n : Moves(t, n)
  <2>1. PICK s : s = Advance(tab[t], {"epoch"})
    OBVIOUS
  <2>2. Calm(tab[t], s) /\ SameFace(tab[t], s) /\ Heirs(tab[t], s) /\ s \in TabState
    BY <1>0, <2>1, AdvanceCalm, AdvanceFields, AgedHeirs
  <2>3. PICK x : x = Operation(NextId(s), NextSeat(s), kind, "user", u)
    OBVIOUS
  <2>4. x.answer = "none"
    BY <2>3 DEF Operation
  <2>5. PICK n : n = [s EXCEPT !.ops = @ \cup {x}]
    OBVIOUS
  <2>6. SameFace(s, n) /\ n.ops = s.ops \cup {x}
    BY <1>1, <2>2, <2>5
  <2>7. Untroubled(tab[t]) => Untroubled(n)
    BY <2>2, <2>4, <2>6 DEF Untroubled, Heirs, SameFace
  <2>8. ~(scope.requests \subseteq AllIdentityKind)
    BY <1>4
  <2>9. Proceeds(t, n)
    BY <2>7, <2>8 DEF Proceeds
  <2>10. tab' = [tab EXCEPT ![t] = n]
    BY <1>4, <2>1, <2>3, <2>5 DEF RotateSession
  <2>11. Announcing(tab[t]) => Announcing(n)
    BY <2>2, <2>6 DEF Calm, Announcing
  <2>. QED
    BY <2>2, <2>6, <2>9, <2>10, <2>11 DEF Moves, SameFace
<1>. QED
  BY <1>2, <1>3, <1>4

\* A driver that stays drives on.
LEMMA DrivesOn ==
  ASSUME NEW s, NEW n, n.challenge = s.challenge, NEW o, Driven(s),
         \A d \in s.ops : d # o => d \in n.ops,
         ~Drives(s, o)
  PROVE  Driven(n)
<1>1. PICK d \in s.ops : Drives(s, d)
  BY DEF Driven
<1>2. d # o /\ d \in n.ops
  BY <1>1
<1>3. Drives(n, d)
  BY <1>1 DEF Drives
<1>. QED
  BY <1>2, <1>3 DEF Driven

\* The end of the barrier.
LEMMA PassBarrierMoves ==
  ASSUME SessionInv, NEW t \in Tab, NEW o \in tab[t].ops, PassBarrier(t, o)
  PROVE  \E n : Moves(t, n)
<1>. DEFINE w == Without(tab[t], o)
            s == Advance(w, {"epoch", "gen"})
            x == [o EXCEPT !.phase = "queued", !.seat = NextSeat(tab[t]), !.gen = TRUE,
                           !.epoch = TRUE, !.intent = TRUE]
<1>0. /\ Types /\ Good(tab[t]) /\ tab[t] \in TabState /\ o \in Op /\ o.phase = "barrier" /\ inbox' = inbox
  BY BusyOpen DEF SessionInv, Types, PassBarrier
<1>1. PICK l \in BOOLEAN, c \in BOOLEAN : o.local = l /\ tab[t].challenge = c
  BY <1>0 DEF Op, TabState
<1>2. \/ o.kind = "logout" /\ tab' = [tab EXCEPT ![t] = Plus(w, x)]
      \/ o.kind # "logout" /\ tab' = [tab EXCEPT ![t] = Plus(s, x)]
      \/ ~(l /\ (o.kind = "temporary" => c)) /\ tab' = [tab EXCEPT ![t] = w]
  <2>1. Replace(tab[t], o, x) = Plus(w, x)
    BY <1>0 DEF Replace, Plus, Without, TabState
  <2>2. tab' = [tab EXCEPT ![t] = IF o.kind = "logout" THEN Replace(tab[t], o, x)
                                  ELSE IF l /\ (o.kind = "temporary" => c) THEN Plus(s, x)
                                  ELSE w]
    BY <1>1 DEF PassBarrier, Plus
  <2>. QED
    BY <2>1, <2>2
<1>3. Calm(tab[t], w) /\ w \in TabState /\ w.ops = tab[t].ops \ {o} /\ SameFace(tab[t], w) /\ Good(w)
  BY <1>0, WithoutCalm, WithoutFields DEF Calm
<1>4. Calm(w, s) /\ s \in TabState /\ SameFace(w, s) /\ Heirs(w, s)
  BY <1>3, AdvanceCalm, AdvanceFields, AgedHeirs
<1>5. x.phase = "queued" /\ x.kind = o.kind /\ x.answer = o.answer
  BY <1>0 DEF Op
<1>6. x.gen = TRUE
  BY <1>0 DEF Op
<1>7. \A y \in TabState : SameFace(y, Plus(y, x)) /\ Plus(y, x).ops = y.ops \cup {x}
  BY DEF Plus, TabState, SameFace
<1>8. Heirs(tab[t], w)
  BY <1>3, SameHeirs
<1>. HIDE DEF w, s, x
<1>9. CASE o.kind = "logout" /\ tab' = [tab EXCEPT ![t] = Plus(w, x)]
  <2>1. PICK n : n = Plus(w, x)
    OBVIOUS
  <2>2. SameFace(tab[t], n) /\ n.ops = w.ops \cup {x}
    BY <1>3, <1>7, <2>1 DEF SameFace
  <2>3. Heirs(tab[t], n)
    BY <1>3, <1>5, <2>2 DEF Heirs
  <2>4. ~Drives(tab[t], o)
    BY <1>9 DEF Drives, AllIdentityKind
  <2>5. Driven(tab[t]) => Driven(n)
    BY <1>3, <2>2, <2>4, DrivesOn DEF SameFace
  <2>6. Proceeds(t, n)
    BY <1>0, <2>2, <2>3, <2>5, ScreenProceeds DEF Screen, SameFace
  <2>7. Announcing(tab[t]) => Announcing(n)
    BY <1>3, <2>2 DEF Calm, Announcing
  <2>. QED
    BY <1>9, <2>1, <2>2, <2>6, <2>7 DEF Moves, SameFace
<1>10. CASE o.kind # "logout" /\ tab' = [tab EXCEPT ![t] = Plus(s, x)]
  <2>1. PICK n : n = Plus(s, x)
    OBVIOUS
  <2>2. SameFace(tab[t], n) /\ n.ops = s.ops \cup {x}
    BY <1>3, <1>4, <1>7, <2>1 DEF SameFace
  <2>3. Heirs(tab[t], n)
    <3>1. Heirs(tab[t], s)
      BY <1>4, <1>8, HeirsTwice
    <3>. QED
      BY <1>5, <2>2, <3>1 DEF Heirs
  <2>4. Unrotated(tab[t]) => Driven(n)
    <3>1. OpSound(o) /\ o.kind \in Kind
      BY <1>0 DEF Good, OpsSound, Op
    <3>2. o.kind # "me"
      BY <1>0, <3>1 DEF OpSound
    <3>3. Unrotated(tab[t]) => o.kind \in AllIdentityKind
      BY <1>10, <3>1, <3>2 DEF Unrotated, Kind, Advances
    <3>4. Unrotated(tab[t]) => Drives(n, x)
      BY <1>5, <1>6, <3>3 DEF Drives
    <3>. QED
      BY <2>2, <3>4 DEF Driven
  <2>5. Proceeds(t, n)
    BY <2>2, <2>3, <2>4, ScreenProceeds DEF Screen, SameFace
  <2>6. Announcing(tab[t]) => Announcing(n)
    BY <1>3, <1>4, <2>2 DEF Calm, Announcing
  <2>. QED
    BY <1>10, <2>1, <2>2, <2>5, <2>6 DEF Moves, SameFace
<1>11. CASE ~(l /\ (o.kind = "temporary" => c)) /\ tab' = [tab EXCEPT ![t] = w]
  <2>1. ~Drives(tab[t], o)
    <3>1. OpSound(o)
      BY <1>0 DEF Good, OpsSound
    <3>2. o.kind # "me"
      BY <1>0, <3>1 DEF OpSound
    <3>3. ~(o.local = TRUE /\ (o.kind = "temporary" => tab[t].challenge = TRUE))
      BY <1>1, <1>11
    <3>. QED
      BY <1>0, <3>2, <3>3 DEF Drives
  <2>2. Driven(tab[t]) => Driven(w)
    BY <1>3, <2>1, DrivesOn DEF SameFace
  <2>3. Proceeds(t, w)
    BY <1>0, <1>3, <1>8, <2>2, ScreenProceeds DEF Screen, SameFace
  <2>. QED
    BY <1>3, <1>11, <2>3 DEF Moves, SameFace, Calm
<1>. QED
  BY <1>2, <1>9, <1>10, <1>11

\* Ordinary requests.
LEMMA PollMoves ==
  ASSUME SessionInv, NEW t \in Tab, SendPoll(t) \/ AnswerPoll(t) \/ ReceivePoll(t)
  PROVE  \E n : Moves(t, n) /\ (inbox' = inbox \/ inbox' = Post(t, inbox, "boundary"))
<1>0. Types /\ Good(tab[t]) /\ tab[t] \in TabState
  BY DEF SessionInv, Types
<1>1. ASSUME NEW p, NEW n, n = [tab[t] EXCEPT !.poll = p] PROVE SameFace(tab[t], n) /\ n.ops = tab[t].ops
  BY <1>0, <1>1 DEF TabState, SameFace
<1>2. ASSUME NEW p, tab' = [tab EXCEPT ![t] = [tab[t] EXCEPT !.poll = p]], inbox' = inbox
      PROVE  \E n : Moves(t, n)
  <2>1. PICK n : n = [tab[t] EXCEPT !.poll = p]
    OBVIOUS
  <2>2. SameFace(tab[t], n) /\ n.ops = tab[t].ops
    BY <1>1, <2>1
  <2>3. Heirs(tab[t], n) /\ (Announcing(tab[t]) => Announcing(n)) /\ (Driven(tab[t]) => Driven(n))
    BY <2>2 DEF Heirs, Announcing, Driven, Drives, SameFace
  <2>4. Proceeds(t, n)
    BY <1>2, <2>2, <2>3, ScreenProceeds DEF Screen, SameFace
  <2>. QED
    BY <1>2, <2>1, <2>2, <2>3, <2>4 DEF Moves, SameFace
<1>3. CASE SendPoll(t) \/ AnswerPoll(t)
  <2>1. (\E p : tab' = [tab EXCEPT ![t] = [tab[t] EXCEPT !.poll = p]]) /\ inbox' = inbox
    BY <1>0, <1>3 DEF SendPoll, AnswerPoll, Types, TabState
  <2>. QED
    BY <1>2, <2>1
<1>4. CASE ReceivePoll(t)
  <2>1. PICK s : s = [tab[t] EXCEPT !.poll = NoPoll]
    OBVIOUS
  <2>2. PICK a : a = Advance(s, {"epoch"})
    OBVIOUS
  <2>3. \/ /\ tab' = [tab EXCEPT ![t] = ClearSessionState(a)]
           /\ inbox' = Post(t, inbox, "boundary")
        \/ /\ tab' = [tab EXCEPT ![t] = [tab[t] EXCEPT !.poll = NoPoll]]
           /\ inbox' = inbox
    BY <1>4, <2>1, <2>2 DEF ReceivePoll
  <2>4. CASE tab' = [tab EXCEPT ![t] = ClearSessionState(a)] /\ inbox' = Post(t, inbox, "boundary")
    <3>1. SameFace(tab[t], s) /\ s.ops = tab[t].ops /\ s.poll = NoPoll /\ s \in TabState
      BY <1>0, <2>1 DEF TabState, SameFace, NoPoll, Poll
    <3>2. Calm(tab[t], s) /\ Heirs(tab[t], s)
      BY <1>0, <3>1, SameOpsCalm DEF SameFace, Heirs
    <3>3. Calm(s, a) /\ SameFace(s, a) /\ Heirs(s, a) /\ a \in TabState /\ Good(a)
      BY <2>2, <3>1, <3>2, AdvanceCalm, AdvanceFields, AgedHeirs DEF Calm
    <3>4. PICK n : n = ClearSessionState(a)
      OBVIOUS
    <3>5. Calm(a, n) /\ Heirs(a, n) /\ n.status = "anonymous" /\ n.external = a.external
      BY <3>3, <3>4, ClearCalm, ClearFields, AgedHeirs
    <3>6. Heirs(tab[t], a)
      BY <3>2, <3>3, HeirsTwice
    <3>7. Heirs(tab[t], n)
      BY <3>5, <3>6, HeirsTwice
    <3>8. Proceeds(t, n)
      BY <3>5, <3>7, ScreenProceeds DEF Screen
    <3>9. n.open = tab[t].open /\ n.external = tab[t].external /\ (Announcing(tab[t]) => Announcing(n))
      BY <3>1, <3>2, <3>3, <3>5 DEF SameFace, Calm
    <3>. QED
      BY <2>4, <3>4, <3>8, <3>9 DEF Moves
  <2>. QED
    BY <1>2, <2>3, <2>4
<1>. QED
  BY <1>3, <1>4

\* The watchdog.
LEMMA WatchdogMoves ==
  ASSUME SessionInv, NEW t \in Tab, NEW p \in Tab, Watchdog(t, p)
  PROVE  \E n : Moves(t, n)
<1>0. Types /\ Good(tab[t]) /\ tab[t] \in TabState /\ Free(tab[t]) /\ "reconcile" \in Why
  BY IdleFree DEF SessionInv, Types, Watchdog, Why
<1>1. PICK s : s = [tab[t] EXCEPT !.external = @ \ {p}]
  OBVIOUS
<1>2. /\ s \in TabState /\ s.ops = tab[t].ops /\ s.open = tab[t].open /\ s.status = tab[t].status
      /\ s.user = tab[t].user /\ s.challenge = tab[t].challenge /\ s.poll = tab[t].poll
      /\ s.external = tab[t].external \ {p}
  BY <1>0, <1>1 DEF TabState
<1>3. Calm(tab[t], s) /\ Heirs(tab[t], s) /\ Free(s) /\ Good(s)
  BY <1>0, <1>2, SameOpsCalm DEF Heirs, Free, Calm
<1>4. PICK m : m = StartMe(s, "reconcile")
  OBVIOUS
<1>5. Calm(s, m) /\ SameFace(s, m) /\ Heirs(s, m) /\ Driven(m)
  BY <1>0, <1>3, <1>4, StartMeCalm, StartMeDrives
<1>6. PICK n : n = IF s.external = {} THEN m ELSE s
  OBVIOUS
<1>7. /\ Heirs(tab[t], n) /\ n.status = tab[t].status /\ n.user = tab[t].user /\ n.open = tab[t].open
      /\ n.external = s.external /\ (Driven(n) \/ n.external # {})
      /\ (Announcing(tab[t]) => Announcing(n))
  <2>1. CASE s.external = {}
    <3>1. Heirs(tab[t], m)
      BY <1>3, <1>5, HeirsTwice
    <3>. QED
      BY <1>2, <1>3, <1>5, <1>6, <2>1, <3>1 DEF SameFace, Calm
  <2>2. CASE s.external # {}
    BY <1>2, <1>3, <1>6, <2>2 DEF Calm
  <2>. QED
    BY <2>1, <2>2
<1>8. Proceeds(t, n)
  BY <1>7, ScreenProceeds DEF Screen
<1>9. tab' = [tab EXCEPT ![t] = n]
  BY <1>1, <1>4, <1>6 DEF Watchdog
<1>. QED
  BY <1>2, <1>7, <1>8, <1>9 DEF Moves

\* An answer that is used ends the loading screen; one that is not was not to end it.
LEMMA SettleMoves ==
  ASSUME SessionInv, NEW t \in Tab, NEW o \in tab[t].ops, Settle(t, o)
  PROVE  \E n : Moves(t, n) /\ (inbox' = inbox \/ inbox' = Post(t, inbox, "boundary"))
<1>. DEFINE w == Without(tab[t], o)
            a == Advance(w, {"epoch"})
<1>0. /\ Types /\ Good(tab[t]) /\ tab[t] \in TabState /\ o \in Op /\ OpSound(o) /\ Free(tab[t])
      /\ o.phase = "answered" /\ "reconcile" \in Why
  BY BusyOpen, IdleFree DEF SessionInv, Types, Settle, Good, OpsSound, Why
<1>1. Calm(tab[t], w) /\ w \in TabState /\ SameFace(tab[t], w) /\ w.ops = tab[t].ops \ {o} /\ Good(w)
  BY <1>0, WithoutFields, WithoutCalm DEF Calm
<1>2. Free(w) /\ Heirs(tab[t], w)
  BY <1>0, <1>1, SameHeirs DEF Free
<1>3. Calm(w, a) /\ a \in TabState /\ SameFace(w, a) /\ Heirs(w, a) /\ Good(a)
  BY <1>1, AdvanceCalm, AdvanceFields, AgedHeirs DEF Calm
<1>4. Calm(tab[t], a) /\ Heirs(tab[t], a) /\ SameFace(tab[t], a)
  <2>. HIDE DEF a
  <2>. QED
    BY <1>1, <1>2, <1>3, CalmTwice, HeirsTwice DEF SameFace
<1>. HIDE DEF w, a
<1>5. ASSUME NEW n, tab' = [tab EXCEPT ![t] = n], Heirs(tab[t], n), Screen(t, n),
             n.open = tab[t].open, n.external = tab[t].external, Announcing(tab[t]) => Announcing(n)
      PROVE  \E m : Moves(t, m)
  BY <1>5, ScreenProceeds DEF Moves
<1>6. ASSUME tab' = [tab EXCEPT ![t] = w], ~Drives(tab[t], o), inbox' = inbox PROVE \E m : Moves(t, m)
  <2>1. Driven(tab[t]) => Driven(w)
    BY <1>1, <1>6, DrivesOn DEF SameFace
  <2>2. Screen(t, w)
    BY <1>1, <1>6, <2>1 DEF Screen, SameFace
  <2>. QED
    BY <1>1, <1>2, <1>5, <1>6, <2>2 DEF SameFace, Calm
<1>7. ASSUME NEW b, Good(b), b \in TabState, Heirs(tab[t], b), Calm(tab[t], b), SameFace(tab[t], b),
             tab' = [tab EXCEPT ![t] = ClearSessionState(b)]
      PROVE  \E m : Moves(t, m)
  <2>1. PICK n : n = ClearSessionState(b)
    OBVIOUS
  <2>2. Calm(b, n) /\ Heirs(b, n) /\ n.status = "anonymous" /\ n.external = b.external
    BY <1>7, <2>1, ClearCalm, ClearFields, AgedHeirs
  <2>3. Heirs(tab[t], n)
    BY <1>7, <2>2, HeirsTwice
  <2>4. n.open = tab[t].open /\ n.external = tab[t].external /\ (Announcing(tab[t]) => Announcing(n))
    BY <1>7, <2>2 DEF Calm, SameFace
  <2>5. Screen(t, n)
    BY <2>2 DEF Screen
  <2>. QED
    BY <1>5, <1>7, <2>1, <2>3, <2>4, <2>5
<1>8. ASSUME NEW b, b \in TabState, Heirs(tab[t], b), Calm(tab[t], b), SameFace(tab[t], b),
             NEW n, n.ops = b.ops, n.open = b.open, n.external = b.external,
             tab' = [tab EXCEPT ![t] = n], Screen(t, n)
      PROVE  \E m : Moves(t, m)
  <2>1. Heirs(tab[t], n)
    BY <1>8 DEF Heirs
  <2>2. n.open = tab[t].open /\ n.external = tab[t].external /\ (Announcing(tab[t]) => Announcing(n))
    BY <1>8 DEF Calm, SameFace, Announcing
  <2>. QED
    BY <1>5, <1>8, <2>1, <2>2
<1>9. CASE o.kind = "me" /\ SettleMe(t, o)
  <2>0. o.answer \in {"session", "anonymous", "lost"}
    BY <1>0, <1>9 DEF OpSound
  <2>1. \/ tab' = [tab EXCEPT ![t] = ApplySession(a, o.user)] /\ inbox' = inbox
        \/ /\ tab' = [tab EXCEPT ![t] = ClearSessionState(a)]
           /\ inbox' = inbox \/ inbox' = Post(t, inbox, "boundary")
        \/ /\ o.answer = "lost"
           /\ tab' = [tab EXCEPT ![t] = [w EXCEPT !.status = "unavailable"]] /\ inbox' = inbox
        \/ /\ ~Drives(tab[t], o)
           /\ tab' = [tab EXCEPT ![t] = w] /\ inbox' = inbox
    <3>1. o.phase # "queued" /\ o.kind \notin AllIdentityKind
      BY <1>0, <1>9 DEF AllIdentityKind
    <3>2. Drives(tab[t], o) <=>
            o.gen = TRUE /\ o.epoch = TRUE /\ o.intent = TRUE /\ o.why # "refresh"
      BY <1>9, <3>1 DEF Drives
    <3>. QED
      BY <1>0, <1>9, <2>0, <3>2, SettleMeCases DEF w, a
  <2>2. CASE tab' = [tab EXCEPT ![t] = ApplySession(a, o.user)] /\ inbox' = inbox
    <3>1. PICK n : n = ApplySession(a, o.user)
      OBVIOUS
    <3>2. n.ops = a.ops /\ n.open = a.open /\ n.external = a.external /\ n.status = "authenticated"
      BY <1>3, <3>1 DEF ApplySession, TabState
    <3>3. Screen(t, n)
      BY <3>2 DEF Screen
    <3>. QED
      BY <1>3, <1>4, <1>8, <2>2, <3>1, <3>2, <3>3
  <2>3. CASE /\ tab' = [tab EXCEPT ![t] = ClearSessionState(a)]
             /\ inbox' = inbox \/ inbox' = Post(t, inbox, "boundary")
    BY <1>3, <1>4, <1>7, <2>3
  <2>4. CASE /\ o.answer = "lost"
             /\ tab' = [tab EXCEPT ![t] = [w EXCEPT !.status = "unavailable"]] /\ inbox' = inbox
    <3>1. PICK n : n = [w EXCEPT !.status = "unavailable"]
      OBVIOUS
    <3>2. n.ops = w.ops /\ n.open = w.open /\ n.external = w.external /\ n.status = "unavailable"
      BY <1>1, <3>1 DEF TabState
    <3>3. Screen(t, n)
      BY <2>4, <3>2 DEF Screen, Untroubled
    <3>. QED
      BY <1>1, <1>2, <1>8, <2>4, <3>1, <3>2, <3>3
  <2>5. CASE ~Drives(tab[t], o) /\ tab' = [tab EXCEPT ![t] = w] /\ inbox' = inbox
    BY <1>6, <2>5
  <2>. QED
    BY <2>1, <2>2, <2>3, <2>4, <2>5
<1>10. CASE o.kind \in AllIdentityKind /\ SettleIdentity(t, o)
  <2>. DEFINE paused == [w EXCEPT !.mfa = @ \/ o.answer = "mfa",
                                  !.challenge = @ /\ ~(o.kind = "temporary" /\ o.answer = "mfa")]
  <2>1. PICK pa : pa = paused
    OBVIOUS
  <2>2. /\ pa.status = w.status /\ pa.user = w.user /\ pa.ops = w.ops /\ pa.open = w.open
        /\ pa.external = w.external
        /\ ~(o.kind = "temporary" /\ o.answer = "mfa") => pa.challenge = w.challenge
    <3>1. PICK c \in BOOLEAN, m \in BOOLEAN :
            /\ c = (w.challenge /\ ~(o.kind = "temporary" /\ o.answer = "mfa"))
            /\ m = (w.mfa \/ o.answer = "mfa")
      OBVIOUS
    <3>2. pa = [w EXCEPT !.mfa = m, !.challenge = c] /\ w.challenge \in BOOLEAN
      BY <1>1, <2>1, <3>1 DEF TabState
    <3>3. ~(o.kind = "temporary" /\ o.answer = "mfa") => c = w.challenge
      BY <3>1, <3>2
    <3>. QED
      BY <1>1, <3>2, <3>3 DEF TabState
  <2>3. PICK pn : pn = [pa EXCEPT !.status = "anonymous"]
    OBVIOUS
  <2>4. pn.ops = w.ops /\ pn.open = w.open /\ pn.external = w.external /\ pn.status = "anonymous"
    <3>1. pn = [w EXCEPT !.mfa = @ \/ o.answer = "mfa",
                         !.challenge = @ /\ ~(o.kind = "temporary" /\ o.answer = "mfa"),
                         !.status = "anonymous"]
      BY <1>1, <2>1, <2>3 DEF TabState
    <3>. QED
      BY <1>1, <3>1 DEF TabState
  <2>5. /\ inbox' = inbox
        /\ \/ tab' = [tab EXCEPT ![t] = StartMe(w, "reconcile")]
           \/ ~Drives(tab[t], o) /\ tab' = [tab EXCEPT ![t] = w]
           \/ tab' = [tab EXCEPT ![t] = [ApplySession(w, o.user) EXCEPT !.mfa = FALSE]]
           \/ tab' = [tab EXCEPT ![t] = [ClearSessionState(w) EXCEPT !.challenge = TRUE]]
           \/ tab' = [tab EXCEPT ![t] = ClearSessionState(w)]
           \/ /\ \/ ~Drives(tab[t], o) /\ ~(o.kind = "temporary" /\ o.answer = "mfa")
                 \/ pa.user # NoUser
              /\ tab' = [tab EXCEPT ![t] = pa]
           \/ tab' = [tab EXCEPT ![t] = pn]
    <3>1. o.phase # "barrier" /\ o.kind # "me"
      BY <1>0, <1>10 DEF AllIdentityKind
    <3>2. o.gen = FALSE /\ o.answer # "session" => ~Drives(tab[t], o)
      BY <3>1 DEF Drives
    <3>. QED
      BY <1>0, <1>10, <2>1, <2>3, <3>2, SettleIdentityCases, ZenonT(40) DEF w
  <2>. HIDE DEF paused
  <2>6. CASE tab' = [tab EXCEPT ![t] = StartMe(w, "reconcile")]
    <3>1. PICK n : n = StartMe(w, "reconcile")
      OBVIOUS
    <3>2. Calm(w, n) /\ SameFace(w, n) /\ Heirs(w, n) /\ Driven(n)
      BY <1>0, <1>1, <1>2, <3>1, StartMeCalm, StartMeDrives
    <3>3. Heirs(tab[t], n)
      BY <1>2, <3>2, HeirsTwice
    <3>4. Screen(t, n)
      BY <1>1, <3>2 DEF Screen, SameFace
    <3>. QED
      BY <1>1, <1>5, <2>5, <2>6, <3>1, <3>2, <3>3, <3>4 DEF Calm, SameFace
  <2>7. CASE ~Drives(tab[t], o) /\ tab' = [tab EXCEPT ![t] = w]
    BY <1>6, <2>5, <2>7
  <2>8. CASE tab' = [tab EXCEPT ![t] = [ApplySession(w, o.user) EXCEPT !.mfa = FALSE]]
    <3>1. PICK n : n = [ApplySession(w, o.user) EXCEPT !.mfa = FALSE]
      OBVIOUS
    <3>2. n.ops = w.ops /\ n.open = w.open /\ n.external = w.external /\ n.status = "authenticated"
      BY <1>1, <3>1 DEF ApplySession, TabState
    <3>3. Screen(t, n)
      BY <3>2 DEF Screen
    <3>. QED
      BY <1>1, <1>2, <1>8, <2>5, <2>8, <3>1, <3>2, <3>3
  <2>9. CASE tab' = [tab EXCEPT ![t] = [ClearSessionState(w) EXCEPT !.challenge = TRUE]]
    <3>1. PICK b : b = ClearSessionState(w)
      OBVIOUS
    <3>2. /\ Calm(w, b) /\ Heirs(w, b) /\ b.status = "anonymous" /\ b.external = w.external
          /\ b \in TabState
      BY <1>1, <3>1, ClearCalm, ClearFields, AgedHeirs
    <3>3. PICK n : n = [b EXCEPT !.challenge = TRUE]
      OBVIOUS
    <3>4. n.ops = b.ops /\ n.open = b.open /\ n.external = b.external /\ n.status = "anonymous"
      BY <3>2, <3>3 DEF TabState
    <3>5. Heirs(tab[t], b) /\ Calm(tab[t], b)
      BY <1>1, <1>2, <3>2, HeirsTwice, CalmTwice
    <3>6. Heirs(tab[t], n) /\ (Announcing(tab[t]) => Announcing(n))
      BY <3>4, <3>5 DEF Heirs, Calm, Announcing
    <3>7. n.open = tab[t].open /\ n.external = tab[t].external
      BY <1>1, <3>2, <3>4 DEF Calm, SameFace
    <3>8. Screen(t, n)
      BY <3>4 DEF Screen
    <3>. QED
      BY <1>5, <2>5, <2>9, <3>1, <3>3, <3>6, <3>7, <3>8
  <2>10. CASE tab' = [tab EXCEPT ![t] = ClearSessionState(w)]
    BY <1>1, <1>2, <1>7, <2>5, <2>10
  <2>11. CASE /\ \/ ~Drives(tab[t], o) /\ ~(o.kind = "temporary" /\ o.answer = "mfa")
                 \/ pa.user # NoUser
              /\ tab' = [tab EXCEPT ![t] = pa]
    <3>1. Driven(tab[t]) => Driven(pa) \/ pa.user # NoUser
      BY <1>1, <2>2, <2>11, DrivesOn DEF SameFace
    <3>2. Screen(t, pa)
      BY <1>1, <2>2, <2>5, <3>1 DEF Screen, SameFace
    <3>. QED
      BY <1>1, <1>2, <1>8, <2>2, <2>5, <2>11, <3>2
  <2>12. CASE tab' = [tab EXCEPT ![t] = pn]
    <3>1. Screen(t, pn)
      BY <2>4 DEF Screen
    <3>. QED
      BY <1>1, <1>2, <1>8, <2>4, <2>5, <2>12, <3>1
  <2>. QED
    BY <2>5, <2>6, <2>7, <2>8, <2>9, <2>10, <2>11, <2>12
<1>11. CASE o.kind \in {"logout", "rotate", "reset"} /\ tab' = [tab EXCEPT ![t] = Without(tab[t], o)]
            /\ UNCHANGED inbox
  <2>1. ~Drives(tab[t], o)
    BY <1>11 DEF Drives, AllIdentityKind
  <2>. QED
    BY <1>6, <1>11, <2>1 DEF w
<1>. QED
  BY <1>9, <1>10, <1>11 DEF Settle

\* A boundary message: the announcements behind it keep their reports.
LEMMA ReceiveBoundaryAwaits ==
  ASSUME SessionInv, LoadingInv, NEW t \in Tab, ReceiveBoundary(t), UNCHANGED scope
  PROVE  LoadingInv'
<1>. DEFINE h == Head(inbox[t])
<1>0. /\ Types /\ Good(tab[t]) /\ tab[t] \in TabState /\ inbox[t] # <<>> /\ inbox[t] \in Seq(Message)
      /\ inbox' = [inbox EXCEPT ![t] = Tail(@)] /\ Grows /\ Free(tab[t]) /\ "reconcile" \in Why
  BY IdleFree, SpendGrows DEF SessionInv, Types, ReceiveBoundary, Why
<1>1. PICK open \in SUBSET (Tab \ {t}) :
        /\ \/ h.phase = "start" /\ open = tab[t].external \cup {h.from}
           \/ h.phase = "settled" /\ open = tab[t].external \ {h.from}
           \/ h.phase = "boundary" /\ open = {}
        /\ tab' = [tab EXCEPT ![t] = IF open = {} THEN StartMe(Waiting(tab[t], open), "reconcile")
                                     ELSE Waiting(tab[t], open)]
  BY ReceiveBoundaryCases
<1>2. /\ h = inbox[t][1] /\ 1 \in DOMAIN inbox[t]
      /\ \A k \in DOMAIN Tail(inbox[t]) : k + 1 \in DOMAIN inbox[t] /\ Tail(inbox[t])[k] = inbox[t][k + 1]
      /\ \A k \in DOMAIN inbox[t] :
           k > 1 => k - 1 \in DOMAIN Tail(inbox[t]) /\ Tail(inbox[t])[k - 1] = inbox[t][k]
      /\ DOMAIN inbox[t] \subseteq Nat /\ DOMAIN Tail(inbox[t]) \subseteq Nat \ {0}
      /\ \A k \in DOMAIN inbox[t] : k >= 1
  BY <1>0
<1>3. inbox'[t] = Tail(inbox[t]) /\ \A q \in Tab : q # t => inbox'[q] = inbox[q]
  BY <1>0 DEF Types
<1>. HIDE DEF h
<1>4. PICK s : s = Waiting(tab[t], open)
  OBVIOUS
<1>5. /\ Calm(tab[t], s) /\ Free(s) /\ s.status = "loading" /\ s.external = open /\ s.user = NoUser
      /\ s \in TabState /\ Good(s) /\ Heirs(tab[t], s)
  <2>1. open \in SUBSET Tab
    BY <1>1
  <2>2. /\ Calm(tab[t], s) /\ Free(s) /\ s.status = "loading" /\ s.external = open /\ s.user = NoUser
        /\ s \in TabState
    BY <1>0, <1>4, <2>1, WaitingForgets
  <2>3. PICK a : a = Advance(tab[t], {"epoch"})
    OBVIOUS
  <2>4. PICK c : c = ClearSessionState(a)
    OBVIOUS
  <2>5. a \in TabState /\ Heirs(tab[t], a) /\ Heirs(a, c) /\ c \in TabState
    BY <1>0, <2>3, <2>4, AdvanceFields, AgedHeirs, ClearFields
  <2>6. Heirs(tab[t], c)
    BY <2>5, HeirsTwice
  <2>7. s.ops = c.ops
    BY <1>4, <2>3, <2>4, <2>5 DEF Waiting, TabState
  <2>. QED
    BY <2>2, <2>6, <2>7 DEF Heirs, Calm
<1>6. PICK n : n = IF open = {} THEN StartMe(s, "reconcile") ELSE s
  OBVIOUS
<1>7. /\ n.open = tab[t].open /\ (Announcing(tab[t]) => Announcing(n)) /\ n.external = open
      /\ n.status = "loading" /\ n.user = NoUser /\ Heirs(tab[t], n) /\ (Driven(n) \/ n.external # {})
  <2>1. CASE open = {}
    <3>1. Calm(s, n) /\ SameFace(s, n) /\ Heirs(s, n) /\ Driven(n)
      BY <1>0, <1>5, <1>6, <2>1, StartMeCalm, StartMeDrives
    <3>2. Heirs(tab[t], n)
      BY <1>5, <3>1, HeirsTwice
    <3>. QED
      BY <1>5, <3>1, <3>2 DEF Calm, SameFace
  <2>2. CASE open # {}
    BY <1>5, <1>6, <2>2 DEF Calm
  <2>. QED
    BY <2>1, <2>2
<1>8. tab' = [tab EXCEPT ![t] = n] /\ Proceeds(t, n)
  <2>1. Proceeds(t, n)
    BY <1>7, ScreenProceeds DEF Screen
  <2>. QED
    BY <1>1, <1>4, <1>6, <2>1
<1>9. AwaitsInv'
  BY <1>0, <1>3, <1>8, AwaitsKept DEF LoadingInv
<1>10. tab'[t] = n /\ \A q \in Tab : q # t => tab'[q] = tab[q]
  BY <1>0, <1>8 DEF Types
<1>11. ASSUME NEW p \in Tab, NEW m \in Nat, NEW k \in Nat, Reported(t, p, m),
              k + 1 = m \/ (k = 0 /\ m = 0 /\ ~(h.phase = "settled" /\ h.from = p))
       PROVE  Reported(t, p, k)'
  <2>1. CASE tab[p].open = FALSE
    BY <1>7, <1>10, <2>1 DEF Reported
  <2>2. CASE Announcing(tab[p])
    BY <1>7, <1>10, <2>2 DEF Reported
  <2>3. ASSUME NEW j \in DOMAIN inbox[t], j > m, inbox[t][j] = [phase |-> "settled", from |-> p]
        PROVE  Reported(t, p, k)'
    <3>1. j \in Nat /\ j >= 1
      BY <1>2, <2>3
    <3>2. j # 1 \/ m # 0
      <4>1. CASE j = 1 /\ m = 0
        <5>1. k = 0 /\ ~(h.phase = "settled" /\ h.from = p)
          BY <1>11, <4>1
        <5>2. h.phase = "settled" /\ h.from = p
          BY <1>2, <2>3, <4>1
        <5>. QED
          BY <5>1, <5>2
      <4>. QED
        BY <4>1
    <3>3. j > 1 /\ j - 1 > k
      BY <1>11, <2>3, <3>1, <3>2
    <3>4. j - 1 \in DOMAIN inbox'[t] /\ inbox'[t][j - 1] = inbox[t][j]
      BY <1>2, <1>3, <2>3, <3>3
    <3>. QED
      BY <2>3, <3>3, <3>4 DEF Reported
  <2>. QED
    BY <1>11, <2>1, <2>2, <2>3 DEF Reported
<1>12. ASSUME NEW p \in open PROVE Reported(t, p, 0)'
  <2>0. p \in Tab
    BY <1>1
  <2>1. CASE h.phase = "start" /\ p = h.from
    <3>1. Reported(t, p, 1)
      BY <1>2, <2>1 DEF LoadingInv, ReportsInv
    <3>. QED
      BY <1>11, <2>0, <3>1
  <2>2. CASE p \in tab[t].external /\ ~(h.phase = "settled" /\ h.from = p)
    <3>1. Reported(t, p, 0)
      BY <2>2 DEF LoadingInv, ReportsInv
    <3>. QED
      BY <1>11, <2>0, <2>2, <3>1
  <2>. QED
    BY <1>1, <1>12, <2>1, <2>2
<1>13. ASSUME NEW k \in DOMAIN inbox'[t], inbox'[t][k].phase = "start"
       PROVE  Reported(t, inbox[t][k].from, k)'
  <2>1. /\ k \in Nat /\ k + 1 \in Nat /\ k + 1 \in DOMAIN inbox[t] /\ inbox'[t][k] = inbox[t][k + 1]
    BY <1>2, <1>3, <1>13
  <2>2. PICK p \in Tab : p = inbox[t][k + 1].from
    BY <2>1, SendersAreTabs
  <2>3. Reported(t, p, k + 1)
    BY <1>13, <2>1, <2>2 DEF LoadingInv, ReportsInv
  <2>4. Reported(t, p, k)'
    BY <1>11, <2>1, <2>3
  <2>5. inbox'[t][k].from = p
    BY <2>1, <2>2
  <2>. QED
    BY <2>4, <2>5 DEF Reported
<1>14. ASSUME NEW q \in Tab, q # t, NEW p \in Tab, NEW m, Reported(q, p, m) PROVE Reported(q, p, m)'
  BY <1>3, <1>7, <1>8, <1>14, ReportKept
<1>15. ReportsInv'
  <2>1. ASSUME NEW q \in Tab, NEW p \in tab'[q].external PROVE Reported(q, p, 0)'
    <3>1. CASE q = t
      BY <1>7, <1>10, <1>12, <2>1, <3>1
    <3>2. CASE q # t
      <4>1. p \in tab[q].external /\ p \in Tab
        BY <1>10, <2>1, <3>2, SendersAreTabs
      <4>2. Reported(q, p, 0)
        BY <4>1 DEF LoadingInv, ReportsInv
      <4>. QED
        BY <1>14, <3>2, <4>1, <4>2
    <3>. QED
      BY <3>1, <3>2
  <2>2. ASSUME NEW q \in Tab, NEW k \in DOMAIN inbox'[q], inbox'[q][k].phase = "start"
        PROVE  Reported(q, inbox[q][k].from, k)'
    <3>1. CASE q = t
      BY <1>13, <2>2, <3>1
    <3>2. CASE q # t
      <4>1. k \in DOMAIN inbox[q] /\ inbox'[q] = inbox[q]
        BY <1>3, <2>2, <3>2
      <4>2. PICK p \in Tab : p = inbox[q][k].from
        BY <4>1, SendersAreTabs
      <4>3. Reported(q, p, k)
        BY <2>2, <4>1, <4>2 DEF LoadingInv, ReportsInv
      <4>4. Reported(q, p, k)'
        BY <1>14, <3>2, <4>3
      <4>5. inbox'[q][k].from = p
        BY <4>1, <4>2
      <4>. QED
        BY <4>4, <4>5 DEF Reported
    <3>. QED
      BY <3>1, <3>2
  <2>. QED
    BY <2>1, <2>2 DEF ReportsInv
<1>. QED
  BY <1>9, <1>15 DEF LoadingInv

\* A tab that closes reports by being closed.
LEMMA CloseTabAwaits ==
  ASSUME SessionInv, LoadingInv, NEW t \in Tab, CloseTab(t), UNCHANGED scope
  PROVE  LoadingInv'
<1>0. /\ Types /\ tab[t] \in TabState /\ Grows /\ inbox' = [inbox EXCEPT ![t] = <<>>]
  BY SpendGrows DEF SessionInv, Types, CloseTab, Event
<1>1. PICK n : n = [tab[t] EXCEPT !.open = FALSE, !.status = "anonymous", !.user = NoUser,
                                  !.ops = {}, !.poll = NoPoll, !.external = {}]
  OBVIOUS
<1>2. tab' = [tab EXCEPT ![t] = n]
  BY <1>0, <1>1 DEF CloseTab, Types, TabState
<1>3. n.status = "anonymous" /\ n.open = FALSE /\ n.ops = {} /\ n.external = {}
  BY <1>0, <1>1 DEF TabState
<1>4. inbox'[t] = <<>> /\ \A q \in Tab : q # t => inbox'[q] = inbox[q]
  BY <1>0 DEF Types
<1>5. Proceeds(t, n)
  BY <1>3, ScreenProceeds DEF Screen, Heirs
<1>6. AwaitsInv'
  BY <1>0, <1>2, <1>4, <1>5, AwaitsKept DEF LoadingInv
<1>7. tab'[t] = n /\ \A q \in Tab : q # t => tab'[q] = tab[q]
  BY <1>0, <1>2 DEF Types
<1>8. ASSUME NEW q \in Tab, q # t, NEW p \in Tab, NEW m, Reported(q, p, m) PROVE Reported(q, p, m)'
  BY <1>2, <1>3, <1>4, <1>8, ReportKept
<1>9. ReportsInv'
  <2>1. ASSUME NEW q \in Tab, NEW p \in tab'[q].external PROVE Reported(q, p, 0)'
    <3>1. q # t
      BY <1>3, <1>7, <2>1
    <3>2. p \in tab[q].external /\ p \in Tab
      BY <1>7, <2>1, <3>1, SendersAreTabs
    <3>3. Reported(q, p, 0)
      BY <3>2 DEF LoadingInv, ReportsInv
    <3>. QED
      BY <1>8, <3>1, <3>2, <3>3
  <2>2. ASSUME NEW q \in Tab, NEW k \in DOMAIN inbox'[q], inbox'[q][k].phase = "start"
        PROVE  Reported(q, inbox[q][k].from, k)'
    <3>1. q # t
      BY <1>4, <2>2
    <3>2. k \in DOMAIN inbox[q] /\ inbox'[q] = inbox[q]
      BY <1>4, <2>2, <3>1
    <3>3. PICK p \in Tab : p = inbox[q][k].from
      BY <3>2, SendersAreTabs
    <3>4. Reported(q, p, k)
      BY <2>2, <3>2, <3>3 DEF LoadingInv, ReportsInv
    <3>5. Reported(q, p, k)'
      BY <1>8, <3>1, <3>4
    <3>6. inbox'[q][k].from = p
      BY <3>2, <3>3
    <3>. QED
      BY <3>5, <3>6 DEF Reported
  <2>. QED
    BY <2>1, <2>2 DEF ReportsInv
<1>. QED
  BY <1>6, <1>9 DEF LoadingInv

\* A new epoch leaves a driver that has yet to be sent one.
LEMMA EpochDrives ==
  ASSUME NEW s \in TabState, NEW d \in s.ops, Drives(s, d), d.kind = "me" => d.phase = "queued"
  PROVE  \E a \in Advance(s, {"epoch"}).ops : Drives(s, a)
<1>0. d \in Op
  BY DEF TabState
<1>1. PICK a : a = Aged(d, {"epoch"})
  OBVIOUS
<1>2. a \in Advance(s, {"epoch"}).ops
  BY <1>1, AdvanceFrom
<1>3. /\ a.kind = d.kind /\ a.why = d.why /\ a.phase = d.phase /\ a.answer = d.answer
  BY <1>0, <1>1, AgedOp
<1>4. (a.gen = TRUE <=> d.gen = TRUE) /\ (a.intent = TRUE <=> d.intent = TRUE)
      /\ (a.local = TRUE <=> d.local = TRUE)
  BY <1>0, <1>1, AgedOp
<1>5. Drives(s, a)
  BY <1>3, <1>4 DEF Drives
<1>. QED
  BY <1>2, <1>5

\* A request that is sent announces its transition.
LEMMA SendAwaits ==
  ASSUME SessionInv, LoadingInv, NEW t \in Tab, NEW o \in tab[t].ops, Send(t, o), UNCHANGED scope
  PROVE  LoadingInv'
<1>. DEFINE w == Without(tab[t], o)
            x == [o EXCEPT !.phase = "sent", !.epoch = TRUE]
<1>0. /\ Types /\ Good(tab[t]) /\ tab[t] \in TabState /\ o.phase = "queued" /\ o \in Op /\ lock = NoTab
      /\ Grows /\ tab[t].open = TRUE
  BY BusyOpen, SpendGrows DEF SessionInv, Types, Send
<1>1. PICK s : s = IF Broadcasts(o.kind) THEN Advance(w, {"epoch"}) ELSE w
  OBVIOUS
<1>2. /\ tab' = [tab EXCEPT ![t] = Plus(s, x)]
      /\ inbox' = IF Broadcasts(o.kind) THEN Post(t, inbox, "start") ELSE inbox
  BY <1>1 DEF Send, Plus
<1>3. Calm(tab[t], w) /\ w \in TabState /\ w.ops = tab[t].ops \ {o} /\ SameFace(tab[t], w) /\ Good(w)
  BY <1>0, WithoutCalm, WithoutFields DEF Calm
<1>4. Heirs(tab[t], w)
  BY <1>3, SameHeirs
<1>5. /\ x.phase = "sent" /\ x.kind = o.kind /\ x.answer = o.answer /\ x.why = o.why
  BY <1>0 DEF Op
<1>6. x.gen = o.gen /\ x.intent = o.intent /\ x.epoch = TRUE
  BY <1>0 DEF Op
<1>. HIDE DEF w, x
<1>7. Heirs(tab[t], s) /\ s \in TabState /\ SameFace(tab[t], s) /\ Calm(tab[t], s)
  <2>1. CASE Broadcasts(o.kind)
    <3>1. Heirs(w, s) /\ s \in TabState /\ SameFace(w, s) /\ Calm(w, s)
      BY <1>1, <1>3, <2>1, AdvanceCalm, AdvanceFields, AgedHeirs
    <3>. QED
      BY <1>3, <1>4, <3>1, HeirsTwice, CalmTwice DEF SameFace
  <2>2. CASE ~Broadcasts(o.kind)
    BY <1>1, <1>3, <1>4, <2>2
  <2>. QED
    BY <2>1, <2>2
<1>8. PICK n : n = Plus(s, x)
  OBVIOUS
<1>9. SameFace(s, n) /\ n.ops = s.ops \cup {x}
  BY <1>7, <1>8 DEF Plus, TabState, SameFace
<1>10. Heirs(tab[t], n)
  BY <1>5, <1>7, <1>9 DEF Heirs
<1>11. \A d \in tab[t].ops : d.phase # "sent" /\ d.phase # "answered"
  <2>1. ~Sending(tab[t])
    <3>1. lock # t
      BY <1>0, SessionAssumption
    <3>. QED
      BY <3>1 DEF SessionInv
  <2>. QED
    BY <2>1 DEF Send, Sending
<1>12. ASSUME Driven(tab[t]) PROVE Driven(n)
  <2>0. n.challenge = tab[t].challenge
    BY <1>7, <1>9 DEF SameFace
  <2>1. PICK d \in tab[t].ops : Drives(tab[t], d)
    BY <1>12 DEF Driven
  <2>2. CASE d = o
    <3>1. Drives(n, x)
      BY <1>0, <1>5, <1>6, <2>1, <2>2 DEF Drives
    <3>. QED
      BY <1>9, <3>1 DEF Driven
  <2>3. CASE d # o
    <3>1. d \in w.ops /\ Drives(w, d)
      BY <1>3, <2>1, <2>3 DEF Drives, SameFace
    <3>2. d.kind = "me" => d.phase = "queued"
      <4>1. d.phase \in Phase /\ OpSound(d)
        BY <1>0, <2>1 DEF Good, OpsSound, TabState, Op
      <4>2. d.phase # "sent" /\ d.phase # "answered"
        BY <1>11, <2>1
      <4>. QED
        BY <4>1, <4>2 DEF OpSound, Phase
    <3>3. \E a \in s.ops : Drives(w, a)
      BY <1>1, <1>3, <3>1, <3>2, EpochDrives
    <3>4. \E a \in n.ops : Drives(n, a)
      BY <1>3, <1>9, <2>0, <3>3 DEF Drives, SameFace
    <3>. QED
      BY <3>4 DEF Driven
  <2>. QED
    BY <2>2, <2>3
<1>13. PICK m : m = [phase |-> "start", from |-> t]
  OBVIOUS
<1>14. ASSUME NEW q \in Tab
       PROVE  /\ \A k \in DOMAIN inbox[q] : k \in DOMAIN inbox'[q] /\ inbox'[q][k] = inbox[q][k]
              /\ \A k \in DOMAIN inbox'[q] :
                   k \in DOMAIN inbox[q] \/ (Broadcasts(o.kind) /\ inbox'[q][k] = m)
  <2>1. CASE Broadcasts(o.kind)
    <3>1. PICK b : b = Post(t, inbox, "start")
      OBVIOUS
    <3>2. inbox \in [Tab -> Seq(Message)] /\ "start" \in {"start", "settled", "boundary"}
      BY <1>0 DEF Types
    <3>3. /\ \A k \in DOMAIN inbox[q] : k \in DOMAIN b[q] /\ b[q][k] = inbox[q][k]
          /\ \A k \in DOMAIN b[q] : k \in DOMAIN inbox[q] \/ b[q][k] = m
      BY <1>0, <1>13, <3>1, <3>2, PostAdds
    <3>. QED
      BY <1>2, <2>1, <3>1, <3>3
  <2>2. CASE ~Broadcasts(o.kind)
    BY <1>2, <2>2
  <2>. QED
    BY <2>1, <2>2
<1>15. \A q \in Tab : inbox[q] # <<>> => inbox'[q] # <<>>
  <2>1. ASSUME NEW q \in Tab, inbox[q] # <<>> PROVE inbox'[q] # <<>>
    <3>1. inbox[q] \in Seq(Message)
      BY <1>0 DEF Types
    <3>2. 1 \in DOMAIN inbox[q]
      BY <2>1, <3>1
    <3>. QED
      BY <1>14, <3>2
  <2>. QED
    BY <2>1
<1>16. tab' = [tab EXCEPT ![t] = n]
  BY <1>2, <1>8
<1>17. Proceeds(t, n)
  <2>1. Screen(t, n)
    BY <1>7, <1>9, <1>12, <1>15 DEF Screen, SameFace
  <2>. QED
    BY <1>10, <2>1, ScreenProceeds
<1>18. AwaitsInv'
  BY <1>0, <1>15, <1>16, <1>17, AwaitsKept DEF LoadingInv
<1>19. tab'[t] = n /\ \A q \in Tab : q # t => tab'[q] = tab[q]
  BY <1>0, <1>16 DEF Types
<1>20. n.open = tab[t].open /\ n.external = tab[t].external /\ (Announcing(tab[t]) => Announcing(n))
       /\ (Broadcasts(o.kind) => Announcing(n))
  BY <1>5, <1>7, <1>9 DEF SameFace, Calm, Announcing
<1>21. ASSUME NEW q \in Tab, NEW p \in Tab, NEW k, Reported(q, p, k) PROVE Reported(q, p, k)'
  BY <1>14, <1>16, <1>20, <1>21, ReportKept
<1>22. ReportsInv'
  <2>1. ASSUME NEW q \in Tab, NEW p \in tab'[q].external PROVE Reported(q, p, 0)'
    <3>1. p \in tab[q].external /\ p \in Tab
      BY <1>19, <1>20, <2>1, SendersAreTabs
    <3>2. Reported(q, p, 0)
      BY <3>1 DEF LoadingInv, ReportsInv
    <3>. QED
      BY <1>21, <3>1, <3>2
  <2>2. ASSUME NEW q \in Tab, NEW k \in DOMAIN inbox'[q], inbox'[q][k].phase = "start"
        PROVE  Reported(q, inbox[q][k].from, k)'
    <3>1. CASE k \in DOMAIN inbox[q]
      <4>1. inbox'[q][k] = inbox[q][k]
        BY <1>14, <3>1
      <4>2. PICK p \in Tab : p = inbox[q][k].from
        BY <3>1, SendersAreTabs
      <4>3. Reported(q, p, k)
        BY <2>2, <3>1, <4>1, <4>2 DEF LoadingInv, ReportsInv
      <4>4. Reported(q, p, k)'
        BY <1>21, <4>3
      <4>5. inbox'[q][k].from = p
        BY <4>1, <4>2
      <4>. QED
        BY <4>4, <4>5 DEF Reported
    <3>2. CASE k \notin DOMAIN inbox[q]
      <4>1. Broadcasts(o.kind) /\ inbox'[q][k] = m
        BY <1>14, <2>2, <3>2
      <4>2. inbox'[q][k].from = t /\ Announcing(tab'[t])
        BY <1>13, <1>19, <1>20, <4>1
      <4>. QED
        BY <4>2 DEF Reported
    <3>. QED
      BY <3>1, <3>2
  <2>. QED
    BY <2>1, <2>2 DEF ReportsInv
<1>. QED
  BY <1>18, <1>22 DEF LoadingInv

\* An answer that arrives is reported to the tabs the request was announced to.
LEMMA ReceiveAwaits ==
  ASSUME SessionInv, LoadingInv, NEW t \in Tab, NEW o \in tab[t].ops,
         NEW out \in Outcome(o) \cup Lost(o), Receive(t, o, out), UNCHANGED scope
  PROVE  LoadingInv'
<1>0. /\ Types /\ Good(tab[t]) /\ tab[t] \in TabState /\ o \in Op /\ tab[t].open = TRUE
      /\ cookie \in Account /\ OpSound(o)
  BY BusyOpen DEF SessionInv, Types, Good, OpsSound
<1>1. PICK boundary \in BOOLEAN :
        /\ boundary <=> Advances(o.kind) /\ out[1] = "ok"
        /\ tab' = [tab EXCEPT ![t] = Arrived(Plus(Without(tab[t], o), Answered(o, out[1], out[2])),
                                             o.kind, boundary)]
        /\ inbox' = Settled(t, o, out[1], IF boundary THEN Post(t, inbox, "boundary") ELSE inbox)
  BY ReceiveShape
<1>2. /\ Idle(t) /\ o.phase = "sent"
      /\ IF out[1] = "lost" THEN Spend("lost") ELSE UNCHANGED spent
  BY ReceiveShape
<1>3. OutcomeSound(o, out[1], out[2])
  BY <1>0, OutcomesSound
<1>4. Grows /\ (out[1] = "lost" => spent'.lost # 0)
  <2>1. "lost" \in Event
    BY DEF Event
  <2>2. Grows
    BY <1>0, <1>2, <2>1, SpendGrows
  <2>3. out[1] = "lost" => spent'["lost"] = spent["lost"] + 1
    BY <1>0, <1>2, <2>1 DEF Spend, Types
  <2>4. spent["lost"] \in Nat
    BY <1>0, <2>1 DEF Types
  <2>. QED
    BY <2>2, <2>3, <2>4
<1>5. PICK x : x = Answered(o, out[1], out[2])
  OBVIOUS
<1>6. PICK s : s = Plus(Without(tab[t], o), x)
  OBVIOUS
<1>7. /\ x \in Op /\ x.phase = "answered" /\ x.answer = out[1] /\ x.kind = o.kind
      /\ Good(s) /\ Free(s) /\ s \in TabState /\ SameFace(tab[t], s)
      /\ s.ops = (tab[t].ops \ {o}) \cup {x}
  BY <1>2, <1>3, <1>5, <1>6, AnsweredGood
<1>8. x.gen = o.gen /\ x.why = o.why /\ x.epoch = o.epoch /\ x.intent = o.intent
  BY <1>2, <1>3, <1>5, AnsweredGood
<1>9. PICK n : n = Arrived(s, o.kind, boundary)
  OBVIOUS
<1>10. /\ Calm(s, n)
       /\ boundary => n.external = {} /\ n.status = "loading" /\ n.user = NoUser
       /\ ~boundary => SameFace(s, n)
  BY <1>7, <1>9, ArrivedCalm
<1>11. tab' = [tab EXCEPT ![t] = n]
  BY <1>1, <1>5, <1>6, <1>9
<1>12. tab'[t] = n /\ \A q \in Tab : q # t => tab'[q] = tab[q]
  BY <1>0, <1>11 DEF Types
<1>13. n.open = tab[t].open /\ n.external \subseteq tab[t].external
  BY <1>7, <1>10 DEF Calm, SameFace
<1>14. Heirs(s, n)
  <2>1. PICK c : c = IF boundary THEN StartMe(Waiting(s, {}), "reconcile") ELSE s
    OBVIOUS
  <2>2. c \in TabState /\ Heirs(s, c)
    <3>1. CASE boundary
      <4>1. PICK v : v = Waiting(s, {})
        OBVIOUS
      <4>2. {} \in SUBSET Tab /\ "reconcile" \in Why
        BY DEF Why
      <4>3. Calm(s, v) /\ Free(v) /\ v \in TabState /\ Good(v)
        BY <1>7, <4>1, <4>2, WaitingForgets DEF Calm
      <4>4. PICK a : a = Advance(s, {"epoch"})
        OBVIOUS
      <4>5. PICK e : e = ClearSessionState(a)
        OBVIOUS
      <4>6. a \in TabState /\ Heirs(s, a) /\ Heirs(a, e) /\ e \in TabState
        BY <1>7, <4>4, <4>5, AdvanceFields, AgedHeirs, ClearFields
      <4>7. v.ops = e.ops
        BY <4>1, <4>4, <4>5, <4>6 DEF Waiting, TabState
      <4>8. Heirs(s, e)
        BY <4>6, HeirsTwice
      <4>9. Heirs(s, v)
        BY <4>7, <4>8 DEF Heirs
      <4>10. c = StartMe(v, "reconcile")
        BY <2>1, <3>1, <4>1
      <4>11. Heirs(v, c) /\ c \in TabState
        BY <4>2, <4>3, <4>10, StartMeCalm, StartMeDrives
      <4>. QED
        BY <4>9, <4>11, HeirsTwice
    <3>2. CASE ~boundary
      BY <1>7, <2>1, <3>2, SameHeirs
    <3>. QED
      BY <3>1, <3>2
  <2>3. n = IF Broadcasts(o.kind) THEN Advance(c, {"epoch"}) ELSE c
    BY <1>9, <2>1 DEF Arrived
  <2>4. Heirs(c, Advance(c, {"epoch"}))
    BY <2>2, AgedHeirs
  <2>. QED
    BY <2>2, <2>3, <2>4, HeirsTwice
<1>15. Unrotated(tab[t]) => Unrotated(n)
  BY <1>7, <1>14 DEF Heirs, Unrotated
<1>16. spent'.lost = 0 /\ Untroubled(tab[t]) => Untroubled(n)
  <2>1. spent'.lost = 0 /\ Untroubled(tab[t]) => \A a \in n.ops : a.answer # "lost"
    BY <1>4, <1>7, <1>14 DEF Heirs, Untroubled
  <2>. QED
    BY <1>7, <1>10, <2>1 DEF Untroubled, SameFace
<1>17. ASSUME ~boundary, Driven(tab[t]) PROVE Driven(n)
  <2>0. /\ n.challenge = tab[t].challenge /\ s.challenge = tab[t].challenge
        /\ n = IF Broadcasts(o.kind) THEN Advance(s, {"epoch"}) ELSE s
    BY <1>7, <1>9, <1>10, <1>17 DEF SameFace, Arrived
  <2>1. PICK d \in tab[t].ops : Drives(tab[t], d)
    BY <1>17 DEF Driven
  <2>2. \E e \in s.ops : Drives(s, e) /\ (Broadcasts(o.kind) => (e.kind = "me" => e.phase = "queued"))
    <3>1. CASE d = o
      <4>1. o.answer = "none"
        BY <1>0, <1>2 DEF OpSound
      <4>2. Drives(s, x)
        BY <1>2, <1>7, <1>8, <2>1, <3>1, <4>1 DEF Drives
      <4>3. Broadcasts(o.kind) => x.kind # "me"
        BY <1>7 DEF Broadcasts
      <4>. QED
        BY <1>7, <4>2, <4>3
    <3>2. CASE d # o
      <4>1. d \in s.ops /\ Drives(s, d)
        BY <1>7, <2>0, <2>1, <3>2 DEF Drives
      <4>2. d.phase \in Phase /\ OpSound(d) /\ ~Out(d)
        BY <1>0, <1>2, <2>1, <3>2 DEF Good, OpsSound, TabState, Op, Out
      <4>3. d.kind = "me" => d.phase = "queued"
        BY <4>2 DEF OpSound, Phase, Out
      <4>. QED
        BY <4>1, <4>3
    <3>. QED
      BY <3>1, <3>2
  <2>3. PICK e \in s.ops :
          Drives(s, e) /\ (Broadcasts(o.kind) => (e.kind = "me" => e.phase = "queued"))
    BY <2>2
  <2>4. \E a \in n.ops : Drives(s, a)
    BY <1>7, <2>0, <2>3, EpochDrives
  <2>5. \E a \in n.ops : Drives(n, a)
    BY <2>0, <2>4 DEF Drives
  <2>. QED
    BY <2>5 DEF Driven
<1>18. PICK box : box = IF boundary THEN Post(t, inbox, "boundary") ELSE inbox
  OBVIOUS
<1>19. PICK mb : mb = [phase |-> "boundary", from |-> t]
  OBVIOUS
<1>20. PICK ms : ms = [phase |-> "settled", from |-> t]
  OBVIOUS
<1>21. ASSUME NEW q \in Tab
       PROVE  /\ box \in [Tab -> Seq(Message)]
              /\ \A k \in DOMAIN inbox[q] : k \in DOMAIN box[q] /\ box[q][k] = inbox[q][k]
              /\ \A k \in DOMAIN box[q] : k \in DOMAIN inbox[q] \/ box[q][k] = mb
  <2>1. inbox \in [Tab -> Seq(Message)] /\ "boundary" \in {"start", "settled", "boundary"}
    BY <1>0 DEF Types
  <2>2. CASE boundary
    <3>1. box = Post(t, inbox, "boundary")
      BY <1>18, <2>2
    <3>. QED
      BY <1>0, <1>19, <2>1, <3>1, PostAdds
  <2>3. CASE ~boundary
    BY <1>18, <2>1, <2>3
  <2>. QED
    BY <2>2, <2>3
<1>22. ASSUME NEW q \in Tab
       PROVE  /\ \A k \in DOMAIN inbox[q] : k \in DOMAIN inbox'[q] /\ inbox'[q][k] = inbox[q][k]
              /\ \A k \in DOMAIN inbox'[q] :
                   k \in DOMAIN inbox[q] \/ inbox'[q][k] = mb \/ inbox'[q][k] = ms
              /\ Broadcasts(o.kind) /\ q \in Peers(t) =>
                   \E k \in DOMAIN inbox'[q] :
                     (\A j \in DOMAIN inbox[q] : k > j) /\ k > 0 /\ inbox'[q][k] = ms
  <2>1. "settled" \in {"start", "settled", "boundary"} /\ box \in [Tab -> Seq(Message)]
    BY <1>21
  <2>2. inbox' = IF Broadcasts(o.kind) THEN Post(t, box, "settled") ELSE box
    BY <1>1, <1>18 DEF Settled
  <2>3. CASE Broadcasts(o.kind)
    <3>1. PICK b : b = Post(t, box, "settled")
      OBVIOUS
    <3>2. /\ \A k \in DOMAIN box[q] : k \in DOMAIN b[q] /\ b[q][k] = box[q][k]
          /\ \A k \in DOMAIN b[q] : k \in DOMAIN box[q] \/ b[q][k] = ms
          /\ q \in Peers(t) =>
               \E k \in DOMAIN b[q] : (\A j \in DOMAIN box[q] : k > j) /\ k > 0 /\ b[q][k] = ms
      BY <1>0, <1>20, <2>1, <3>1, PostAdds
    <3>3. inbox' = b
      BY <2>2, <2>3, <3>1
    <3>. QED
      BY <1>21, <3>2, <3>3
  <2>4. CASE ~Broadcasts(o.kind)
    BY <1>21, <2>2, <2>4
  <2>. QED
    BY <2>3, <2>4
<1>23. \A q \in Tab : inbox[q] # <<>> => inbox'[q] # <<>>
  <2>1. ASSUME NEW q \in Tab, inbox[q] # <<>> PROVE inbox'[q] # <<>>
    <3>1. inbox[q] \in Seq(Message)
      BY <1>0 DEF Types
    <3>2. 1 \in DOMAIN inbox[q]
      BY <2>1, <3>1
    <3>. QED
      BY <1>22, <3>2
  <2>. QED
    BY <2>1
<1>24. Proceeds(t, n)
  <2>1. CASE boundary
    <3>1. ~Unrotated(tab[t])
      BY <1>1, <2>1 DEF Unrotated
    <3>. QED
      BY <1>16, <3>1 DEF Proceeds
  <2>2. CASE ~boundary
    <3>1. n.status = tab[t].status /\ n.user = tab[t].user /\ n.external = tab[t].external
      BY <1>7, <1>10, <2>2 DEF SameFace
    <3>2. Waits(tab[t], inbox[t]) => Waits(n, inbox'[t])
      BY <1>17, <1>23, <2>2, <3>1 DEF Waits
    <3>. QED
      BY <1>15, <1>16, <3>2 DEF Proceeds
  <2>. QED
    BY <2>1, <2>2
<1>25. AwaitsInv'
  BY <1>4, <1>11, <1>23, <1>24, AwaitsKept DEF LoadingInv
<1>26. ASSUME NEW q \in Tab, NEW p \in Tab \ {q}, NEW m, m = 0 \/ m \in DOMAIN inbox[q], Reported(q, p, m),
              tab[q].open = TRUE
       PROVE  Reported(q, p, m)'
  <2>1. CASE tab[p].open = FALSE
    BY <1>12, <1>13, <2>1 DEF Reported
  <2>2. CASE Announcing(tab[p]) /\ p # t
    BY <1>12, <2>2 DEF Reported
  <2>3. CASE Announcing(tab[p]) /\ p = t
    <3>1. PICK e \in tab[t].ops : e.phase = "sent" /\ Broadcasts(e.kind)
      BY <2>3 DEF Announcing
    <3>2. e = o
      BY <1>0, <1>2, <3>1 DEF Good, OpsSound, Out
    <3>3. q \in Peers(t)
      BY <1>26, <2>3 DEF Peers
    <3>4. PICK k \in DOMAIN inbox'[q] :
            (\A j \in DOMAIN inbox[q] : k > j) /\ k > 0 /\ inbox'[q][k] = ms
      BY <1>22, <3>1, <3>2, <3>3
    <3>5. k > m
      BY <1>26, <3>4
    <3>. QED
      BY <1>20, <2>3, <3>4, <3>5 DEF Reported
  <2>4. ASSUME NEW j \in DOMAIN inbox[q], j > m, inbox[q][j] = [phase |-> "settled", from |-> p]
        PROVE  Reported(q, p, m)'
    <3>1. j \in DOMAIN inbox'[q] /\ inbox'[q][j] = inbox[q][j]
      BY <1>22, <2>4
    <3>. QED
      BY <2>4, <3>1 DEF Reported
  <2>. QED
    BY <1>26, <2>1, <2>2, <2>3, <2>4 DEF Reported
<1>27. ASSUME NEW q \in Tab, tab[q].external # {} \/ inbox[q] # <<>> PROVE tab[q].open = TRUE
  <2>1. ClosedSound(tab[q], inbox[q]) /\ tab[q].open \in BOOLEAN
    BY DEF SessionInv, Types, TabState
  <2>. QED
    BY <1>27, <2>1 DEF ClosedSound
<1>28. ReportsInv'
  <2>1. ASSUME NEW q \in Tab, NEW p \in tab'[q].external PROVE Reported(q, p, 0)'
    <3>1. p \in tab[q].external /\ p \in Tab \ {q}
      BY <1>12, <1>13, <2>1, SendersAreTabs
    <3>2. Reported(q, p, 0) /\ tab[q].open = TRUE
      BY <1>27, <3>1 DEF LoadingInv, ReportsInv
    <3>. QED
      BY <1>26, <3>1, <3>2
  <2>2. ASSUME NEW q \in Tab, NEW k \in DOMAIN inbox'[q], inbox'[q][k].phase = "start"
        PROVE  Reported(q, inbox[q][k].from, k)'
    <3>1. k \in DOMAIN inbox[q] /\ inbox'[q][k] = inbox[q][k]
      <4>1. mb.phase = "boundary" /\ ms.phase = "settled"
        BY <1>19, <1>20
      <4>. QED
        BY <1>22, <2>2, <4>1
    <3>2. PICK p \in Tab \ {q} : p = inbox[q][k].from
      BY <3>1, SendersAreTabs
    <3>3. Reported(q, p, k)
      BY <2>2, <3>1, <3>2 DEF LoadingInv, ReportsInv
    <3>4. tab[q].open = TRUE
      <4>1. inbox[q] # <<>>
        BY <3>1
      <4>. QED
        BY <1>27, <4>1
    <3>5. Reported(q, p, k)'
      BY <1>26, <3>1, <3>3, <3>4
    <3>6. inbox'[q][k].from = p
      BY <3>1, <3>2
    <3>. QED
      BY <3>5, <3>6 DEF Reported
  <2>. QED
    BY <2>1, <2>2 DEF ReportsInv
<1>. QED
  BY <1>25, <1>28 DEF LoadingInv

\* A session that ends at the server touches no tab.
LEMMA EndSessionAwaits ==
  ASSUME SessionInv, LoadingInv, EndSession, UNCHANGED scope
  PROVE  LoadingInv'
<1>1. Types /\ UNCHANGED <<tab, inbox, scope>> /\ Grows
  BY SpendGrows DEF SessionInv, EndSession, Event
<1>2. spent'.lost = 0 => spent.lost = 0
  <2>1. "lost" \in Event /\ spent \in [Event -> Nat] /\ spent' \in [Event -> Nat]
    BY <1>1 DEF Event, Types, Grows
  <2>2. spent.lost \in Nat /\ spent'.lost \in Nat
    BY <2>1
  <2>. QED
    BY <1>1, <2>1, <2>2 DEF Grows
<1>3. ReportsInv'
  BY <1>1 DEF LoadingInv, ReportsInv, Reported
<1>4. AwaitsInv'
  BY <1>1, <1>2 DEF LoadingInv, AwaitsInv
<1>. QED
  BY <1>3, <1>4 DEF LoadingInv

\* A tab that is loading in the beginning has asked.
LEMMA InitLoading ==
  ASSUME Init
  PROVE  LoadingInv
<1>. DEFINE L == [Blank EXCEPT !.status = "loading"]
<1>1. /\ Blank \in TabState /\ Blank.status = "anonymous" /\ Blank.user = NoUser
      /\ Blank.external = {} /\ Blank.poll = NoPoll /\ Blank.ops = {}
  BY DEF Blank, TabState, NoPoll, Poll, Account
<1>2. /\ L \in TabState /\ L.status = "loading" /\ L.user = NoUser
      /\ L.external = {} /\ L.poll = NoPoll /\ L.ops = {}
  BY <1>1 DEF TabState
<1>3. NoPoll.epoch = FALSE /\ IsFiniteSet({}) /\ "hydrate" \in Why /\ "hydrate" # "refresh"
  BY FS_EmptySet DEF NoPoll, Why
<1>. HIDE DEF L
<1>4. Good(L) /\ Free(L)
  BY <1>2, <1>3 DEF Good, OpsSound, QueueSound, PendingSound, Free
<1>5. PICK h : h = StartMe(L, "hydrate")
  OBVIOUS
<1>6. SameFace(L, h) /\ Heirs(L, h) /\ Driven(h)
  BY <1>3, <1>4, <1>5, StartMeCalm, StartMeDrives
<1>7. /\ h.status = "loading" /\ h.user = NoUser /\ h.external = {} /\ Driven(h)
      /\ Unrotated(h) /\ \A a \in h.ops : a.answer # "lost"
  BY <1>2, <1>6 DEF SameFace, Heirs, Unrotated
<1>8. PICK b : b = ApplySession(Blank, cookie)
  OBVIOUS
<1>9. b.status = "authenticated" /\ b.external = {} /\ b.ops = {}
  BY <1>1, <1>8 DEF ApplySession, TabState
<1>10. ASSUME NEW t \in Tab PROVE tab[t] = h \/ tab[t] = Blank \/ tab[t] = b
  <2>1. tab[t] = CASE t \in scope.hydrating -> h
                   [] t \notin scope.hydrating /\ cookie # NoUser -> b
                   [] OTHER -> Blank
    BY <1>5, <1>8 DEF Init, L
  <2>. QED
    BY <2>1
<1>11. ASSUME NEW t \in Tab
       PROVE  /\ tab[t].external = {} /\ Unrotated(tab[t]) /\ Waits(tab[t], inbox[t])
              /\ Untroubled(tab[t]) /\ DOMAIN inbox[t] = {}
  <2>1. DOMAIN inbox[t] = {}
    BY DEF Init
  <2>2. CASE tab[t] = h
    BY <1>7, <2>1, <2>2 DEF Waits, Untroubled
  <2>3. CASE tab[t] = Blank
    BY <1>1, <2>1, <2>3 DEF Waits, Untroubled, Unrotated
  <2>4. CASE tab[t] = b
    BY <1>9, <2>1, <2>4 DEF Waits, Untroubled, Unrotated
  <2>. QED
    BY <1>10, <2>2, <2>3, <2>4
<1>. QED
  BY <1>11 DEF LoadingInv, ReportsInv, AwaitsInv

\* Every step keeps the loading screens awaited.
LEMMA NextLoading ==
  ASSUME SessionInv, LoadingInv, [Next]_vars
  PROVE  LoadingInv'
<1>0. Types
  BY DEF SessionInv
<1>1. CASE UNCHANGED vars
  BY <1>1 DEF vars, LoadingInv, ReportsInv, Reported, AwaitsInv
<1>2. ASSUME NEW t \in Tab, \E n : Moves(t, n), UNCHANGED scope, Grows,
             inbox' = inbox \/ inbox' = Post(t, inbox, "boundary")
      PROVE  LoadingInv'
  BY <1>0, <1>2, BoxesGrow, MovesKeep
<1>3. CASE UserNext /\ UNCHANGED scope
  <2>1. PICK t \in Tab :
          \/ Refresh(t) \/ Logout(t) \/ CloseTab(t)
          \/ \E u \in User :
               \/ \E kind \in scope.requests \cap AllIdentityKind : BeginIdentity(t, kind, u)
               \/ \E kind \in scope.requests \ AllIdentityKind : RotateSession(t, kind, u)
    BY <1>3 DEF UserNext
  <2>2. CASE Refresh(t)
    <3>1. Grows /\ inbox' = inbox
      BY <1>0, <2>2, SpendGrows DEF Refresh, Event
    <3>. QED
      BY <1>2, <1>3, <2>2, <3>1, AskMoves
  <2>3. CASE CloseTab(t)
    BY <1>3, <2>3, CloseTabAwaits
  <2>4. CASE Logout(t)
    <3>1. Grows /\ inbox' = inbox
      BY <1>0, <2>4, SpendGrows DEF Logout, Event
    <3>. QED
      BY <1>2, <1>3, <2>4, <3>1, BeginMoves
  <2>5. ASSUME NEW u \in User, NEW kind \in scope.requests \cap AllIdentityKind,
               BeginIdentity(t, kind, u)
        PROVE  LoadingInv'
    <3>1. Grows /\ inbox' = inbox
      BY <1>0, <2>5, SpendGrows DEF BeginIdentity, Event
    <3>. QED
      BY <1>2, <1>3, <2>5, <3>1, BeginMoves
  <2>6. ASSUME NEW u \in User, NEW kind \in scope.requests \ AllIdentityKind,
               RotateSession(t, kind, u)
        PROVE  LoadingInv'
    <3>1. Grows /\ inbox' = inbox
      BY <1>0, <2>6, SpendGrows DEF RotateSession, Event
    <3>. QED
      BY <1>2, <1>3, <2>6, <3>1, BeginMoves
  <2>. QED
    BY <2>1, <2>2, <2>3, <2>4, <2>5, <2>6
<1>4. CASE EndSession /\ UNCHANGED scope
  BY <1>4, EndSessionAwaits
<1>5. ASSUME NEW t \in Tab, Step(t), UNCHANGED scope PROVE LoadingInv'
  <2>1. ASSUME NEW o \in tab[t].ops, PassBarrier(t, o) PROVE LoadingInv'
    <3>1. Grows /\ inbox' = inbox
      BY <1>0, <2>1, SpendGrows DEF PassBarrier
    <3>. QED
      BY <1>2, <1>5, <2>1, <3>1, PassBarrierMoves
  <2>2. ASSUME NEW o \in tab[t].ops, Send(t, o) PROVE LoadingInv'
    BY <1>5, <2>2, SendAwaits
  <2>3. ASSUME NEW o \in tab[t].ops, NEW out \in Outcome(o) \cup Lost(o), Receive(t, o, out)
        PROVE  LoadingInv'
    BY <1>5, <2>3, ReceiveAwaits
  <2>4. ASSUME NEW o \in tab[t].ops, Settle(t, o) PROVE LoadingInv'
    <3>1. Grows
      BY <1>0, <2>4, SpendGrows DEF Settle
    <3>2. PICK n : Moves(t, n) /\ (inbox' = inbox \/ inbox' = Post(t, inbox, "boundary"))
      BY <2>4, SettleMoves
    <3>. QED
      BY <1>2, <1>5, <3>1, <3>2
  <2>5. CASE ReceiveBoundary(t)
    BY <1>5, <2>5, ReceiveBoundaryAwaits
  <2>6. ASSUME NEW p \in Tab, Watchdog(t, p) PROVE LoadingInv'
    <3>1. Grows /\ inbox' = inbox
      BY <1>0, <2>6, SpendGrows DEF Watchdog
    <3>. QED
      BY <1>2, <1>5, <2>6, <3>1, WatchdogMoves
  <2>. QED
    BY <1>5, <2>1, <2>2, <2>3, <2>4, <2>5, <2>6 DEF Step
<1>6. ASSUME NEW t \in Tab, Retry(t), UNCHANGED scope PROVE LoadingInv'
  <2>1. Grows /\ inbox' = inbox
    BY <1>0, <1>6, SpendGrows DEF Retry
  <2>. QED
    BY <1>2, <1>6, <2>1, AskMoves
<1>7. ASSUME NEW t \in Tab, SendPoll(t) \/ AnswerPoll(t) \/ ReceivePoll(t), UNCHANGED scope
      PROVE  LoadingInv'
  <2>1. Grows
    BY <1>0, <1>7, SpendGrows DEF SendPoll, AnswerPoll, ReceivePoll, Event
  <2>2. PICK n : Moves(t, n) /\ (inbox' = inbox \/ inbox' = Post(t, inbox, "boundary"))
    BY <1>7, PollMoves
  <2>. QED
    BY <1>2, <1>7, <2>1, <2>2
<1>. QED
  BY <1>1, <1>3, <1>4, <1>5, <1>6, <1>7 DEF Next

\* Something will end the loading screen of a tab.
Awaited(t) ==
  \/ inbox[t] # <<>>
  \/ \E o \in tab[t].ops : Ends(o)
  \/ \E p \in tab[t].external :
       WatchdogExpires(t, p) \/ \E o \in tab[p].ops : o.phase = "sent"

\* A tab that waits has a reason to.
LEMMA WaitsIsAwaited ==
  ASSUME SessionInv, LoadingInv, scope.requests \subseteq AllIdentityKind, NEW t \in Tab,
         tab[t].status = "loading", tab[t].user = NoUser
  PROVE  Awaited(t)
<1>1. inbox[t] # <<>> \/ tab[t].external # {} \/ Driven(tab[t])
  BY DEF LoadingInv, AwaitsInv, Waits
<1>2. CASE inbox[t] # <<>>
  BY <1>2 DEF Awaited
<1>3. CASE Driven(tab[t])
  <2>1. PICK o \in tab[t].ops : Drives(tab[t], o)
    BY <1>3 DEF Driven
  <2>2. Ends(o)
    BY <2>1 DEF Drives, Ends
  <2>. QED
    BY <2>1, <2>2 DEF Awaited
<1>4. CASE inbox[t] = <<>> /\ tab[t].external # {}
  <2>1. PICK p \in tab[t].external : Reported(t, p, 0)
    BY <1>4 DEF LoadingInv, ReportsInv
  <2>2. DOMAIN inbox[t] = {}
    BY <1>4
  <2>3. CASE tab[p].open = FALSE
    <3>1. WatchdogExpires(t, p)
      BY <2>1, <2>2, <2>3 DEF WatchdogExpires
    <3>. QED
      BY <2>1, <3>1 DEF Awaited
  <2>4. CASE Announcing(tab[p])
    BY <2>1, <2>4 DEF Announcing, Awaited
  <2>. QED
    BY <2>1, <2>2, <2>3, <2>4 DEF Reported
<1>. QED
  BY <1>1, <1>2, <1>3, <1>4

\* Every loading screen has something to end it as long as no answer was lost; after a
\* lost answer so has the loading screen of every tab that remembers no identity
\* (subscribeAuthSessionBoundary and the watchdog of AuthContext.tsx).
THEOREM LoadingAwaitedAlways == Spec => []LoadingIsAwaited
<1>1. Init => LoadingInv
  BY InitLoading
<1>2. SessionInv /\ LoadingInv /\ [Next]_vars => LoadingInv'
  BY NextLoading
<1>3. SessionInv /\ LoadingInv => LoadingIsAwaited
  <2>. SUFFICES ASSUME SessionInv, LoadingInv,
                       scope.requests \subseteq AllIdentityKind, NEW t \in Tab,
                       tab[t].status = "loading", spent.lost = 0 \/ tab[t].user = NoUser
                PROVE  Awaited(t)
    BY DEF LoadingIsAwaited, Awaited
  <2>1. tab[t].user = NoUser
    BY DEF LoadingInv, AwaitsInv, Untroubled
  <2>. QED
    BY <2>1, WaitsIsAwaited
<1>. QED
  BY <1>1, <1>2, <1>3, SessionSound, PTL DEF Spec
=============================================================================

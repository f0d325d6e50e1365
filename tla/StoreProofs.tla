---------------------------- MODULE StoreProofs -----------------------------
(***************************************************************************)
(* The two halves of the browser's store: the workspace of every client,   *)
(* under the current and the retired rules, for every number of clients,   *)
(* records, revisions and overlapping polls; and the promise of the offline*)
(* queue, for every number of tabs, captures, lost requests and sign-outs. *)
(***************************************************************************)
EXTENDS MCStore, TLAPS

-----------------------------------------------------------------------------
(* The workspace: the inductive invariant                                   *)

AnyRow == [version : Nat, status : Status]
Kind == {"create", "draft", "update", "finalize", "cancel"}
WriteRecord ==
  [phase : {"sent", "accepted", "refused"}, kind : Kind, entity : Entity, version : Nat,
   seen : Nat, aim : Aim, rows : [Entity -> AnyRow], shown : SUBSET Entity, rev : Nat]
Shown ==
  [rev : Nat, row : [Entity -> AnyRow], copies : [Entity -> Nat],
   form : [entity : Entity \cup {Nobody}, seen : Nat], capture : Call \cup {Nobody}]

\* The server's past: the version of a record never exceeds the number of revisions.
HistorySound ==
  /\ reach \in SyncScopes
  /\ history \in Seq([Entity -> AnyRow]) /\ rev \in 1 .. reach.revs
  /\ \A r \in 1 .. rev : \A e \in Entity : history[r][e].version <= r

\* A client shows what it was shown, its cursor and its polls name revisions that exist,
\* and it captures only a call of its list.
ClientSound(c) ==
  /\ store[c].rev \in 1 .. rev
  /\ \A e \in Entity :
       /\ known[c][e] >= store[c].row[e].version
       /\ store[c].row[e].version <= reach.revs
       /\ store[c].copies[e] > 0 => store[c].row[e].version # 0
       /\ Legacy => known[c][e] >= history[store[c].rev][e].version
  /\ store[c].capture # Nobody => store[c].copies[store[c].capture] > 0
  /\ store[c].form.entity # Nobody => ~Legacy
  /\ \A p \in poll[c] : p \in [asked : 1 .. rev, got : 0 .. rev]

\* The kinds of write that carry a version, and what each kind is about.
Checked == {"update", "finalize", "cancel"}
WellAimed(w) ==
  /\ w.kind \in {"draft", "finalize"} => w.entity \in Inspection
  /\ w.kind \in {"create", "cancel"} => w.entity \in Call
  /\ w.aim = "complete" => w.entity \in Inspection
  /\ Legacy => w.kind \in {"create", "draft", "cancel"}

\* A write was made on a version its client was sent, it is about a record its kind may
\* write, and one that is accepted is the revision it says; the answer of the retired
\* server has all that the revision changed.
WriteSound(c) ==
  write[c] # NoWrite =>
    LET w == write[c] IN
    /\ w \in WriteRecord
    /\ WellAimed(w)
    /\ known[c][w.entity] >= w.version
    /\ w.phase = "accepted" =>
         /\ w.rev \in 2 .. rev
         /\ w.rows = history[w.rev]
         /\ w.entity \in w.shown
         /\ Legacy => \A e \in Entity \ w.shown : history[w.rev][e] = history[w.rev - 1][e]
         /\ w.kind \in Checked /\ ~Legacy => w.rows[w.entity].version = w.version + 1

SyncInv ==
  /\ HistorySound
  /\ store \in [Client -> Shown] /\ known \in [Client -> [Entity -> Nat]]
  /\ DOMAIN poll = Client /\ DOMAIN write = Client
  /\ \A c \in Client : ClientSound(c) /\ WriteSound(c)

\* The greater of two numbers.
LEMMA MaxOfTwo ==
  ASSUME NEW a \in Nat, NEW b \in Nat
  PROVE  Max({a, b}) \in {a, b} /\ Max({a, b}) >= a /\ Max({a, b}) >= b
BY DEF Max

\* The invariant gives the properties.
LEMMA SyncInvImplies == SyncInv => NoBlindWrite /\ RetiredKeepsUp /\ SyncTypeOK
<1>. SUFFICES ASSUME SyncInv PROVE NoBlindWrite /\ RetiredKeepsUp /\ SyncTypeOK
  OBVIOUS
<1>1. NoBlindWrite
  <2>. SUFFICES ASSUME NEW c \in Client, write[c] # NoWrite, write[c].phase = "accepted",
                       write[c].kind \in Checked, ~Legacy
                PROVE  known[c][write[c].entity] >= write[c].rows[write[c].entity].version - 1
    BY DEF NoBlindWrite, Checked
  <2>1. /\ write[c] \in WriteRecord /\ known[c][write[c].entity] >= write[c].version
        /\ write[c].rows[write[c].entity].version = write[c].version + 1
    BY DEF SyncInv, WriteSound
  <2>. QED
    BY <2>1 DEF WriteRecord
<1>2. RetiredKeepsUp
  <2>. SUFFICES ASSUME Legacy, NEW c \in Client
                PROVE  /\ \A e \in Entity : known[c][e] >= history[store[c].rev][e].version
                       /\ store[c].capture # Nobody =>
                            store[c].row[store[c].capture].version # 0
    BY DEF RetiredKeepsUp
  <2>1. store[c].capture \in Call \cup {Nobody} /\ Call \subseteq Entity
    BY DEF SyncInv, Shown, Entity
  <2>. QED
    BY <2>1 DEF SyncInv, ClientSound
<1>3. SyncTypeOK
  <2>1. \A r \in DOMAIN history : history[r] \in [Entity -> Row]
    <3>. SUFFICES ASSUME NEW r \in DOMAIN history PROVE history[r] \in [Entity -> Row]
      OBVIOUS
    <3>1. r \in 1 .. rev /\ rev \in 1 .. reach.revs /\ reach.revs \in Nat
      BY SyncAssumption DEF SyncInv, HistorySound, rev
    <3>2. history[r] \in [Entity -> AnyRow]
      BY DEF SyncInv, HistorySound
    <3>3. \A e \in Entity : history[r][e].version <= r
      BY <3>1 DEF SyncInv, HistorySound
    <3>. QED
      BY <3>1, <3>2, <3>3 DEF AnyRow, Row
  <2>2. ASSUME NEW c \in Client
        PROVE  /\ store[c].row \in [Entity -> Row]
               /\ store[c].rev \in 1 .. rev
               /\ store[c].form.entity \in Entity \cup {Nobody}
               /\ store[c].capture \in Call \cup {Nobody}
               /\ \A p \in poll[c] : p.asked \in 1 .. rev /\ p.got \in 0 .. rev
    <3>1. store[c] \in Shown /\ ClientSound(c) /\ reach.revs \in Nat
      BY SyncAssumption DEF SyncInv, HistorySound
    <3>2. store[c].row \in [Entity -> Row]
      BY <3>1 DEF Shown, ClientSound, AnyRow, Row
    <3>. QED
      BY <3>1, <3>2 DEF Shown, ClientSound
  <2>. QED
    BY <2>1, <2>2 DEF SyncTypeOK
<1>. QED
  BY <1>1, <1>2, <1>3

-----------------------------------------------------------------------------
(* What a client shows                                                      *)

\* Closing a capture whose call is not listed changes nothing else.
LEMMA CloseOutcome ==
  ASSUME NEW s \in Shown
  PROVE  LET t == CloseCapture(s) IN
         /\ t \in Shown
         /\ t.rev = s.rev /\ t.row = s.row /\ t.copies = s.copies /\ t.form = s.form
         /\ t.capture # Nobody => t.copies[t.capture] > 0
<1>1. s.capture \in Entity \cup {Nobody} /\ \A e \in Entity : s.copies[e] \in Nat
  BY DEF Shown, Entity
<1>2. CASE s.capture # Nobody /\ s.copies[s.capture] = 0
  <2>1. CloseCapture(s) = [s EXCEPT !.capture = Nobody]
    BY <1>2 DEF CloseCapture
  <2>. QED
    BY <2>1 DEF Shown
<1>3. CASE ~(s.capture # Nobody /\ s.copies[s.capture] = 0)
  <2>1. CloseCapture(s) = s
    BY <1>3 DEF CloseCapture
  <2>. QED
    BY <1>1, <1>3, <2>1
<1>. QED
  BY <1>2, <1>3

\* A snapshot replaces everything.
LEMMA ApplyOutcome ==
  ASSUME NEW s \in Shown, NEW rows \in [Entity -> AnyRow], NEW r \in Nat
  PROVE  LET t == ApplyState(s, rows, r) IN
         /\ t \in Shown
         /\ t.rev = r /\ t.row = rows /\ t.form = s.form
         /\ \A e \in Entity : t.copies[e] > 0 => rows[e].version # 0
         /\ t.capture # Nobody => t.copies[t.capture] > 0
<1>. DEFINE copies == [e \in Entity |-> IF rows[e].version = 0 THEN 0 ELSE 1]
            u == [s EXCEPT !.rev = r, !.row = rows, !.copies = copies]
<1>1. copies \in [Entity -> Nat] /\ \A e \in Entity : copies[e] > 0 => rows[e].version # 0
  OBVIOUS
<1>. HIDE DEF copies
<1>2. u \in Shown /\ u.rev = r /\ u.row = rows /\ u.copies = copies /\ u.form = s.form
  BY <1>1 DEF Shown
<1>3. ApplyState(s, rows, r) = CloseCapture(u)
  BY DEF ApplyState, copies
<1>. HIDE DEF u
<1>. QED
  BY <1>1, <1>2, <1>3, CloseOutcome

\* What a client shows after it merged an answer.
Merged(t, s, w) ==
  /\ t \in Shown /\ t.rev = AdvanceRev(s, w.rev)
  /\ \A e \in Entity \ w.shown : t.row[e] = s.row[e] /\ t.copies[e] = s.copies[e]
  /\ \A e \in w.shown : t.row[e] = w.rows[e] /\ (t.copies[e] > 0 => w.rows[e].version # 0)
  /\ t.capture # Nobody => t.copies[t.capture] > 0

\* The answer of a write replaces the records it has, and moves the cursor by its rule.
LEMMA MergeOutcome ==
  ASSUME NEW s \in Shown, NEW w \in WriteRecord, AdvanceRev(s, w.rev) \in Nat,
         NEW t, t = MergeWrite(s, w)
  PROVE  Merged(t, s, w)
<1>. USE DEF Merged
<1>. DEFINE N(e) == CopiesAfterMerge(s, w, e)
            rows == [e \in Entity |-> IF e \in w.shown THEN w.rows[e] ELSE s.row[e]]
            copies == [e \in Entity |-> IF e \in w.shown THEN N(e) ELSE s.copies[e]]
            at == AdvanceRev(s, w.rev)
            u == [s EXCEPT !.rev = at, !.row = rows, !.copies = copies]
<1>0. /\ s.row \in [Entity -> AnyRow] /\ s.copies \in [Entity -> Nat]
      /\ w.rows \in [Entity -> AnyRow] /\ w.shown \subseteq Entity
  BY DEF Shown, WriteRecord
<1>1. ASSUME NEW e \in Entity
      PROVE  N(e) \in Nat /\ (N(e) > 0 => w.rows[e].version # 0)
  <2>1. s.copies[e] \in Nat
    BY <1>0
  <2>2. CASE w.rows[e].version = 0
    BY <2>2 DEF CopiesAfterMerge
  <2>3. CASE w.rows[e].version # 0 /\ e \in Inspection
    <3>1. e \notin Call
      BY <2>3, SyncAssumption
    <3>2. N(e) = IF Legacy THEN s.copies[e] + 1 ELSE 1
      BY <2>3, <3>1 DEF CopiesAfterMerge
    <3>. QED
      BY <2>1, <2>3, <3>2
  <2>4. CASE w.rows[e].version # 0 /\ e \in Call
    <3>1. e \notin Inspection
      BY <2>4, SyncAssumption
    <3>2. N(e) = IF w.kind = "create" THEN s.copies[e] + 1 ELSE s.copies[e]
      BY <2>4, <3>1 DEF CopiesAfterMerge
    <3>. QED
      BY <2>1, <2>4, <3>2
  <2>. QED
    BY <2>2, <2>3, <2>4 DEF Entity
<1>. HIDE DEF N
<1>2. /\ rows \in [Entity -> AnyRow] /\ copies \in [Entity -> Nat]
      /\ \A e \in Entity \ w.shown : rows[e] = s.row[e] /\ copies[e] = s.copies[e]
      /\ \A e \in w.shown : rows[e] = w.rows[e] /\ (copies[e] > 0 => w.rows[e].version # 0)
  BY <1>0, <1>1
<1>3. MergeWrite(s, w) = CloseCapture(u)
  BY DEF MergeWrite, N
<1>. HIDE DEF rows, copies
<1>4. at \in Nat
  OBVIOUS
<1>. HIDE DEF at
<1>5. u \in Shown /\ u.rev = at /\ u.row = rows /\ u.copies = copies
  BY <1>2, <1>4 DEF Shown
<1>. HIDE DEF u
<1>6. /\ t \in Shown /\ t.rev = u.rev /\ t.row = u.row /\ t.copies = u.copies
      /\ t.capture # Nobody => t.copies[t.capture] > 0
  BY <1>3, <1>5, CloseOutcome
<1>. QED
  BY <1>2, <1>5, <1>6 DEF at

-----------------------------------------------------------------------------
(* Steps                                                                    *)

\* A step of one client that leaves the server alone.
LEMMA OneClient ==
  ASSUME SyncInv, NEW c \in Client, UNCHANGED <<history, reach>>,
         store' \in [Client -> Shown], known' \in [Client -> [Entity -> Nat]],
         DOMAIN poll' = Client, DOMAIN write' = Client,
         \A d \in Client \ {c} : /\ store'[d] = store[d] /\ known'[d] = known[d]
                                 /\ poll'[d] = poll[d] /\ write'[d] = write[d],
         ClientSound(c)', WriteSound(c)'
  PROVE  SyncInv'
<1>1. HistorySound'
  BY DEF SyncInv, HistorySound, rev, Legacy
<1>2. ASSUME NEW d \in Client \ {c} PROVE ClientSound(d)' /\ WriteSound(d)'
  <2>1. ClientSound(d) /\ WriteSound(d)
    BY DEF SyncInv
  <2>2. ClientSound(d)'
    BY <2>1 DEF ClientSound, rev, Legacy
  <2>3. /\ write'[d] = write[d] /\ known'[d] = known[d] /\ history' = history
        /\ rev' = rev /\ Legacy' = Legacy
    BY DEF rev, Legacy
  <2>4. WriteSound(d)'
    BY ONLY <2>1, <2>3 DEF WriteSound, WellAimed
  <2>. QED
    BY <2>2, <2>4
<1>. QED
  BY <1>1, <1>2 DEF SyncInv

\* Polls: a cursor that exists is asked for, and the answer is a revision that exists.
LEMMA PollKeeps ==
  ASSUME SyncInv, NEW c \in Client, UNCHANGED <<history, store, write, known, reach>>,
         NEW polls \in SUBSET [asked : 1 .. rev, got : 0 .. rev],
         poll' = [poll EXCEPT ![c] = polls]
  PROVE  SyncInv'
<1>1. /\ poll'[c] = polls /\ DOMAIN poll' = Client
      /\ \A d \in Client \ {c} : poll'[d] = poll[d]
  BY DEF SyncInv
<1>2. ClientSound(c)'
  BY <1>1 DEF SyncInv, ClientSound, rev, Legacy
<1>3. WriteSound(c)'
  BY DEF SyncInv, WriteSound, WellAimed, rev, Legacy
<1>. QED
  BY <1>1, <1>2, <1>3, OneClient DEF SyncInv

\* A poll is sent, answered or lost.
LEMMA PollNextKeeps ==
  ASSUME SyncInv, UNCHANGED reach, NEW c \in Client,
         SendPoll(c) \/ \E p \in poll[c] : AnswerPoll(c, p) \/ LosePoll(c, p)
  PROVE  SyncInv'
<1>0. /\ poll[c] \in SUBSET [asked : 1 .. rev, got : 0 .. rev] /\ store[c].rev \in 1 .. rev
      /\ rev \in Nat /\ rev >= 1 /\ DOMAIN poll = Client
  BY SyncAssumption DEF SyncInv, ClientSound, HistorySound
<1>1. CASE SendPoll(c)
  <2>1. [asked |-> store[c].rev, got |-> 0] \in [asked : 1 .. rev, got : 0 .. rev]
    BY <1>0
  <2>2. poll' = [poll EXCEPT ![c] = poll[c] \cup {[asked |-> store[c].rev, got |-> 0]}]
    BY <1>1 DEF SendPoll
  <2>. QED
    BY <1>0, <1>1, <2>1, <2>2, PollKeeps DEF SendPoll
<1>2. ASSUME NEW p \in poll[c], AnswerPoll(c, p) PROVE SyncInv'
  <2>. DEFINE q == [p EXCEPT !.got = rev]
              polls == (poll[c] \ {p}) \cup (IF Unchanged(p.asked) THEN {} ELSE {q})
  <2>1. q \in [asked : 1 .. rev, got : 0 .. rev]
    BY <1>0
  <2>2. poll' = [poll EXCEPT ![c] = polls]
    BY <1>2 DEF AnswerPoll
  <2>3. polls \in SUBSET [asked : 1 .. rev, got : 0 .. rev]
    BY <1>0, <2>1
  <2>. QED
    BY <1>2, <2>2, <2>3, PollKeeps DEF AnswerPoll
<1>3. ASSUME NEW p \in poll[c], LosePoll(c, p) PROVE SyncInv'
  <2>1. poll' = [poll EXCEPT ![c] = poll[c] \ {p}]
    BY <1>3 DEF LosePoll
  <2>. QED
    BY <1>0, <1>3, <2>1, PollKeeps DEF LosePoll
<1>. QED
  BY <1>1, <1>2, <1>3

\* What a client does to its workspace: nothing of the server, its polls and its write
\* changes but for polls that are gone, and it forgets nothing it was shown.
LEMMA StoreKeeps ==
  ASSUME SyncInv, NEW c \in Client, UNCHANGED <<history, reach>>,
         DOMAIN poll' = Client, poll'[c] \subseteq poll[c],
         \A d \in Client \ {c} : poll'[d] = poll[d] /\ write'[d] = write[d],
         DOMAIN write' = Client, write'[c] = write[c] \/ write'[c] = NoWrite,
         NEW s \in Shown, store' = [store EXCEPT ![c] = s],
         NEW k \in [Entity -> Nat], known' = [known EXCEPT ![c] = k],
         \A e \in Entity : k[e] >= known[c][e],
         s.rev \in 1 .. rev,
         \A e \in Entity :
           /\ k[e] >= s.row[e].version
           /\ s.row[e].version <= reach.revs
           /\ s.copies[e] > 0 => s.row[e].version # 0
           /\ Legacy => k[e] >= history[s.rev][e].version,
         s.capture # Nobody => s.copies[s.capture] > 0,
         s.form.entity # Nobody => ~Legacy
  PROVE  SyncInv'
<1>1. /\ store' \in [Client -> Shown] /\ known' \in [Client -> [Entity -> Nat]]
      /\ store'[c] = s /\ known'[c] = k
      /\ \A d \in Client \ {c} : store'[d] = store[d] /\ known'[d] = known[d]
  BY DEF SyncInv
<1>2. ClientSound(c)'
  <2>1. \A p \in poll'[c] : p \in [asked : 1 .. rev, got : 0 .. rev]
    BY DEF SyncInv, ClientSound
  <2>. QED
    BY <1>1, <2>1 DEF ClientSound, rev, Legacy
<1>3. WriteSound(c)'
  <2>1. CASE write'[c] = NoWrite
    BY <2>1 DEF WriteSound
  <2>2. CASE write'[c] = write[c] /\ write[c] # NoWrite
    <3>. DEFINE w == write[c]
    <3>1. WriteSound(c) /\ w \in WriteRecord /\ w.entity \in Entity /\ w.version \in Nat
      BY <2>2 DEF SyncInv, WriteSound, WriteRecord
    <3>2. known[c][w.entity] >= w.version /\ known[c][w.entity] \in Nat /\ k[w.entity] \in Nat
      BY <2>2, <3>1 DEF WriteSound, SyncInv
    <3>3. k[w.entity] >= w.version
      BY <3>1, <3>2
    <3>. QED
      BY <1>1, <2>2, <3>1, <3>3 DEF WriteSound, WellAimed, rev, Legacy
  <2>. QED
    BY <2>1, <2>2
<1>. QED
  BY <1>1, <1>2, <1>3, OneClient

\* A snapshot arrives, whatever the order.
LEMMA ApplyPollKeeps ==
  ASSUME SyncInv, UNCHANGED reach, NEW c \in Client, NEW p \in poll[c], ApplyPoll(c, p)
  PROVE  SyncInv'
<1>. DEFINE rows == history[p.got]
            s == ApplyState(store[c], rows, p.got)
            k == [e \in Entity |-> Max({known[c][e], rows[e].version})]
<1>0. /\ p.got \in 1 .. rev /\ rev \in Nat /\ rev <= reach.revs /\ reach.revs \in Nat
      /\ history[p.got] \in [Entity -> AnyRow] /\ store[c] \in Shown
  <2>1. p.got \in 0 .. rev /\ p.got # 0
    BY DEF SyncInv, ClientSound, ApplyPoll
  <2>2. rev \in 1 .. reach.revs /\ reach.revs \in Nat
    BY SyncAssumption DEF SyncInv, HistorySound
  <2>3. p.got \in 1 .. rev
    BY <2>1, <2>2
  <2>4. history[p.got] \in [Entity -> AnyRow]
    BY <2>3 DEF SyncInv, HistorySound, rev
  <2>. QED
    BY <2>2, <2>3, <2>4 DEF SyncInv
<1>1. /\ store' = [store EXCEPT ![c] = s] /\ known' = [known EXCEPT ![c] = k]
      /\ poll' = [poll EXCEPT ![c] = @ \ {p}] /\ UNCHANGED <<history, write>>
  BY DEF ApplyPoll, Show
<1>2. /\ s \in Shown /\ s.rev = p.got /\ s.row = rows /\ s.form = store[c].form
      /\ \A e \in Entity : s.copies[e] > 0 => rows[e].version # 0
      /\ s.capture # Nobody => s.copies[s.capture] > 0
  <2>1. p.got \in Nat /\ rows \in [Entity -> AnyRow] /\ store[c] \in Shown
    BY <1>0
  <2>. HIDE DEF rows
  <2>. QED
    BY <2>1, ApplyOutcome
<1>3. \A e \in Entity : rows[e].version \in Nat /\ rows[e].version <= p.got
  BY <1>0 DEF SyncInv, HistorySound, AnyRow
<1>. HIDE DEF s, rows
<1>4. /\ k \in [Entity -> Nat]
      /\ \A e \in Entity : k[e] >= known[c][e] /\ k[e] >= rows[e].version
  <2>1. ASSUME NEW e \in Entity
        PROVE  /\ Max({known[c][e], rows[e].version}) \in Nat
               /\ Max({known[c][e], rows[e].version}) >= known[c][e]
               /\ Max({known[c][e], rows[e].version}) >= rows[e].version
    <3>1. known[c][e] \in Nat /\ rows[e].version \in Nat
      BY <1>3 DEF SyncInv
    <3>. QED
      BY <3>1, MaxOfTwo
  <2>. QED
    BY <2>1
<1>. HIDE DEF k
<1>5. DOMAIN poll' = Client /\ poll'[c] \subseteq poll[c]
  BY <1>1 DEF SyncInv
<1>6. DOMAIN write' = Client /\ \A d \in Client \ {c} : poll'[d] = poll[d] /\ write'[d] = write[d]
  BY <1>1 DEF SyncInv
<1>7. s.rev \in 1 .. rev /\ history[s.rev] = rows
  BY <1>0, <1>2 DEF rows
<1>8. \A e \in Entity :
        /\ k[e] >= s.row[e].version
        /\ s.row[e].version <= reach.revs
        /\ s.copies[e] > 0 => s.row[e].version # 0
        /\ Legacy => k[e] >= history[s.rev][e].version
  BY <1>0, <1>2, <1>3, <1>4, <1>7
<1>9. s.form.entity # Nobody => ~Legacy
  BY <1>2 DEF SyncInv, ClientSound
<1>. QED
  BY <1>1, <1>2, <1>4, <1>5, <1>6, <1>7, <1>8, <1>9, StoreKeeps

\* The screens change the form and the capture of a client, nothing it shows.
LEMMA ScreenKeeps ==
  ASSUME SyncInv, UNCHANGED reach, NEW c \in Client,
         \/ \E e \in Entity : OpenForm(c, e) \/ OpenCapture(c, e)
         \/ CloseForm(c) \/ LeaveCapture(c)
  PROVE  SyncInv'
<1>0. /\ store[c] \in Shown /\ known[c] \in [Entity -> Nat] /\ ClientSound(c)
      /\ known = [known EXCEPT ![c] = known[c]]
  BY DEF SyncInv
<1>1. PICK s \in Shown :
        /\ store' = [store EXCEPT ![c] = s]
        /\ s.rev = store[c].rev /\ s.row = store[c].row /\ s.copies = store[c].copies
        /\ s.capture # Nobody => s.copies[s.capture] > 0
        /\ s.form.entity # Nobody => ~Legacy
  <2>1. ASSUME NEW e \in Entity, OpenForm(c, e)
        PROVE  \E s \in Shown :
                 /\ store' = [store EXCEPT ![c] = s]
                 /\ s.rev = store[c].rev /\ s.row = store[c].row /\ s.copies = store[c].copies
                 /\ s.capture # Nobody => s.copies[s.capture] > 0
                 /\ s.form.entity # Nobody => ~Legacy
    <3>. DEFINE f == [entity |-> e, seen |-> store[c].row[e].version]
                s == [store[c] EXCEPT !.form = f]
    <3>1. f \in [entity : Entity \cup {Nobody}, seen : Nat]
      BY <1>0 DEF Shown, AnyRow
    <3>2. store' = [store EXCEPT ![c] = s] /\ ~Legacy
      BY <2>1 DEF OpenForm
    <3>. HIDE DEF f
    <3>3. /\ s \in Shown /\ s.rev = store[c].rev /\ s.row = store[c].row
          /\ s.copies = store[c].copies /\ s.capture = store[c].capture /\ s.form = f
      BY <1>0, <3>1 DEF Shown
    <3>. HIDE DEF s
    <3>. QED
      BY <1>0, <3>1, <3>2, <3>3 DEF ClientSound
  <2>2. ASSUME NEW e \in Entity, OpenCapture(c, e)
        PROVE  \E s \in Shown :
                 /\ store' = [store EXCEPT ![c] = s]
                 /\ s.rev = store[c].rev /\ s.row = store[c].row /\ s.copies = store[c].copies
                 /\ s.capture # Nobody => s.copies[s.capture] > 0
                 /\ s.form.entity # Nobody => ~Legacy
    <3>. DEFINE s == [store[c] EXCEPT !.capture = e]
    <3>1. e \in Call /\ store[c].copies[e] > 0 /\ store' = [store EXCEPT ![c] = s]
      BY <2>2 DEF OpenCapture
    <3>2. /\ s \in Shown /\ s.rev = store[c].rev /\ s.row = store[c].row
          /\ s.copies = store[c].copies /\ s.capture = e /\ s.form = store[c].form
      BY <1>0, <3>1 DEF Shown
    <3>. HIDE DEF s
    <3>. QED
      BY <1>0, <3>1, <3>2 DEF ClientSound
  <2>3. CASE CloseForm(c)
    <3>. DEFINE f == [entity |-> Nobody, seen |-> 0]
                s == [store[c] EXCEPT !.form = f]
    <3>1. f \in [entity : Entity \cup {Nobody}, seen : Nat] /\ f.entity = Nobody
      OBVIOUS
    <3>2. store' = [store EXCEPT ![c] = s]
      BY <2>3 DEF CloseForm
    <3>. HIDE DEF f
    <3>3. /\ s \in Shown /\ s.rev = store[c].rev /\ s.row = store[c].row
          /\ s.copies = store[c].copies /\ s.capture = store[c].capture /\ s.form = f
      BY <1>0, <3>1 DEF Shown
    <3>. HIDE DEF s
    <3>. QED
      BY <1>0, <3>1, <3>2, <3>3 DEF ClientSound
  <2>4. CASE LeaveCapture(c)
    <3>. DEFINE s == [store[c] EXCEPT !.capture = Nobody]
    <3>1. store' = [store EXCEPT ![c] = s]
      BY <2>4 DEF LeaveCapture
    <3>2. /\ s \in Shown /\ s.rev = store[c].rev /\ s.row = store[c].row
          /\ s.copies = store[c].copies /\ s.capture = Nobody /\ s.form = store[c].form
      BY <1>0 DEF Shown
    <3>. HIDE DEF s
    <3>. QED
      BY <1>0, <3>1, <3>2 DEF ClientSound
  <2>. QED
    BY <2>1, <2>2, <2>3, <2>4
<1>2. UNCHANGED <<history, poll, write, known>> /\ DOMAIN poll = Client /\ DOMAIN write = Client
  BY DEF OpenForm, OpenCapture, CloseForm, LeaveCapture, SyncInv
<1>3. /\ s.rev \in 1 .. rev
      /\ \A e \in Entity :
           /\ known[c][e] >= s.row[e].version
           /\ s.row[e].version <= reach.revs
           /\ s.copies[e] > 0 => s.row[e].version # 0
           /\ Legacy => known[c][e] >= history[s.rev][e].version
  BY <1>0, <1>1 DEF ClientSound
<1>4. \A e \in Entity : known[c][e] >= known[c][e]
  BY <1>0
<1>5. known' = [known EXCEPT ![c] = known[c]]
  BY <1>0, <1>2
<1>. QED
  BY <1>0, <1>1, <1>2, <1>3, <1>4, <1>5, StoreKeeps

\* A client's write is sent or refused.
LEMMA WriteOnly ==
  ASSUME SyncInv, NEW c \in Client, UNCHANGED <<history, store, poll, known, reach>>,
         NEW w, write' = [write EXCEPT ![c] = w],
         w = NoWrite \/ (w \in WriteRecord /\ WellAimed(w) /\ known[c][w.entity] >= w.version
                           /\ w.phase # "accepted")
  PROVE  SyncInv'
<1>1. /\ write'[c] = w /\ DOMAIN write' = Client
      /\ \A d \in Client \ {c} : write'[d] = write[d]
  BY DEF SyncInv
<1>2. ClientSound(c)'
  BY DEF SyncInv, ClientSound, rev, Legacy
<1>3. WriteSound(c)'
  BY <1>1 DEF WriteSound, WellAimed, Legacy
<1>. QED
  BY <1>1, <1>2, <1>3, OneClient DEF SyncInv

\* A pending write is one.
LEMMA PendingType ==
  ASSUME NEW kind \in Kind, NEW e \in Entity, NEW version \in Nat, NEW seen \in Nat,
         NEW aim \in Aim
  PROVE  LET w == Pending(kind, e, version, seen, aim) IN
         /\ w \in WriteRecord /\ w.entity = e /\ w.version = version /\ w.phase = "sent"
         /\ w.kind = kind /\ w.aim = aim
<1>. DEFINE rows == [f \in Entity |-> Absent]
<1>1. rows \in [Entity -> AnyRow]
  BY DEF Absent, AnyRow, Status
<1>2. Pending(kind, e, version, seen, aim) =
        [phase |-> "sent", kind |-> kind, entity |-> e, version |-> version, seen |-> seen,
         aim |-> aim, rows |-> rows, shown |-> {}, rev |-> 0]
  BY DEF Pending
<1>. HIDE DEF rows
<1>. QED
  BY <1>1, <1>2 DEF WriteRecord

\* What a client sends carries a version it was sent.
LEMMA SendKeeps ==
  ASSUME SyncInv, UNCHANGED reach, NEW c \in Client,
         \/ \E aim \in Aim : SendUpdate(c, aim)
         \/ \E e \in Entity : \/ SendCreate(c, e) \/ SendCancel(c, e)
                              \/ \E aim \in Aim : SendInspection(c, e, aim)
  PROVE  SyncInv'
<1>0. /\ store[c] \in Shown /\ known[c] \in [Entity -> Nat]
      /\ \A e \in Entity : /\ store[c].row[e].version \in Nat
                            /\ known[c][e] >= store[c].row[e].version
  BY DEF SyncInv, ClientSound, Shown, AnyRow
<1>1. ASSUME NEW aim \in Aim, SendUpdate(c, aim) PROVE SyncInv'
  <2>. DEFINE e == store[c].form.entity
              w == Pending("update", e, store[c].row[e].version, store[c].form.seen, aim)
  <2>1. /\ e \in Entity /\ store[c].form.seen \in Nat /\ store[c].form.entity # Nobody
        /\ aim = "complete" => e \in Inspection
    BY <1>0, <1>1 DEF SendUpdate, Shown
  <2>2. write' = [write EXCEPT ![c] = w]
    BY <1>1 DEF SendUpdate
  <2>3. /\ w \in WriteRecord /\ w.entity = e /\ w.version = store[c].row[e].version
        /\ w.phase = "sent" /\ w.kind = "update" /\ w.aim = aim
    <3>. DEFINE n == store[c].row[e].version
                seen == store[c].form.seen
    <3>1. n \in Nat /\ seen \in Nat /\ e \in Entity /\ "update" \in Kind
      BY <1>0, <2>1 DEF Kind
    <3>2. w = Pending("update", e, n, seen, aim)
      OBVIOUS
    <3>. HIDE DEF n, seen, e, w
    <3>3. /\ w \in WriteRecord /\ w.entity = e /\ w.version = n
          /\ w.phase = "sent" /\ w.kind = "update" /\ w.aim = aim
      BY <3>1, <3>2, PendingType
    <3>. QED
      BY <3>3 DEF n
  <2>4. ~Legacy
    BY <2>1 DEF SyncInv, ClientSound
  <2>. HIDE DEF w, e
  <2>5. known[c][w.entity] >= w.version /\ w.phase # "accepted"
    BY <1>0, <2>1, <2>3
  <2>6. WellAimed(w)
    BY <2>1, <2>3, <2>4 DEF WellAimed, e
  <2>. QED
    BY <1>1, <2>2, <2>3, <2>5, <2>6, WriteOnly DEF SendUpdate
<1>2. ASSUME NEW e \in Entity, SendCreate(c, e) PROVE SyncInv'
  <2>. DEFINE w == Pending("create", e, 0, 0, "save")
  <2>1. write' = [write EXCEPT ![c] = w] /\ e \in Call
    BY <1>2 DEF SendCreate
  <2>2. /\ w \in WriteRecord /\ w.entity = e /\ w.version = 0 /\ w.phase = "sent" /\ w.kind = "create"
        /\ w.aim = "save"
    BY PendingType DEF Kind, Aim
  <2>. HIDE DEF w
  <2>3. known[c][w.entity] >= w.version /\ w.phase # "accepted"
    BY <1>0, <2>2
  <2>4. WellAimed(w)
    BY <2>1, <2>2 DEF WellAimed
  <2>. QED
    BY <1>2, <2>1, <2>2, <2>3, <2>4, WriteOnly DEF SendCreate
<1>3. ASSUME NEW e \in Entity, SendCancel(c, e) PROVE SyncInv'
  <2>. DEFINE w == Pending("cancel", e, store[c].row[e].version, store[c].row[e].version, "save")
  <2>1. write' = [write EXCEPT ![c] = w] /\ e \in Call
    BY <1>3 DEF SendCancel
  <2>2. /\ w \in WriteRecord /\ w.entity = e /\ w.version = store[c].row[e].version
        /\ w.phase = "sent" /\ w.kind = "cancel" /\ w.aim = "save"
    BY <1>0, PendingType DEF Kind, Aim
  <2>. HIDE DEF w
  <2>3. known[c][w.entity] >= w.version /\ w.phase # "accepted"
    BY <1>0, <2>2
  <2>4. WellAimed(w)
    BY <2>1, <2>2 DEF WellAimed
  <2>. QED
    BY <1>3, <2>1, <2>2, <2>3, <2>4, WriteOnly DEF SendCancel
<1>4. ASSUME NEW e \in Entity, NEW aim \in Aim, SendInspection(c, e, aim) PROVE SyncInv'
  <2>. DEFINE w == Pending("draft", e, 0, 0, aim)
  <2>1. write' = [write EXCEPT ![c] = w] /\ e \in Inspection
    BY <1>4 DEF SendInspection
  <2>2. w \in WriteRecord /\ w.entity = e /\ w.version = 0 /\ w.phase = "sent" /\ w.kind = "draft"
    BY PendingType DEF Kind, Aim
  <2>. HIDE DEF w
  <2>3. known[c][w.entity] >= w.version /\ w.phase # "accepted"
    BY <1>0, <2>2
  <2>4. WellAimed(w)
    BY <2>1, <2>2 DEF WellAimed
  <2>. QED
    BY <1>4, <2>1, <2>2, <2>3, <2>4, WriteOnly DEF SendInspection
<1>. QED
  BY <1>1, <1>2, <1>3, <1>4

\* A step that changes a form and the write of a client, and what it was sent.
LEMMA FormKeeps ==
  ASSUME SyncInv, NEW c \in Client, UNCHANGED <<history, poll, reach>>,
         NEW f \in [entity : Entity \cup {Nobody}, seen : Nat],
         f.entity = store[c].form.entity,
         store' = [store EXCEPT ![c] = [store[c] EXCEPT !.form = f]],
         NEW w, write' = [write EXCEPT ![c] = w],
         NEW k \in [Entity -> Nat], known' = [known EXCEPT ![c] = k],
         \A e \in Entity : k[e] >= known[c][e],
         w = NoWrite \/ (w \in WriteRecord /\ WellAimed(w) /\ k[w.entity] >= w.version
                           /\ w.phase # "accepted")
  PROVE  SyncInv'
<1>. DEFINE s == [store[c] EXCEPT !.form = f]
<1>0. /\ store[c] \in Shown /\ known[c] \in [Entity -> Nat] /\ ClientSound(c)
      /\ DOMAIN poll = Client /\ DOMAIN write = Client
  BY DEF SyncInv
<1>1. /\ s \in Shown /\ s.rev = store[c].rev /\ s.row = store[c].row /\ s.form = f
      /\ s.copies = store[c].copies /\ s.capture = store[c].capture
  BY <1>0 DEF Shown
<1>. HIDE DEF s
<1>2. /\ store' \in [Client -> Shown] /\ known' \in [Client -> [Entity -> Nat]]
      /\ store'[c] = s /\ known'[c] = k /\ write'[c] = w /\ DOMAIN write' = Client
      /\ \A d \in Client \ {c} : /\ store'[d] = store[d] /\ known'[d] = known[d]
                                 /\ write'[d] = write[d]
  BY <1>0, <1>1 DEF SyncInv, s
<1>3. \A e \in Entity : /\ known[c][e] \in Nat /\ k[e] \in Nat /\ store[c].row[e].version \in Nat
                        /\ Legacy => history[store[c].rev][e].version \in Nat
  <2>1. store[c].rev \in 1 .. rev
    BY <1>0 DEF ClientSound
  <2>2. history[store[c].rev] \in [Entity -> AnyRow]
    BY <2>1 DEF SyncInv, HistorySound, rev
  <2>. QED
    BY <1>0, <2>2 DEF Shown, AnyRow
<1>4. ASSUME NEW e \in Entity
      PROVE  /\ k[e] >= s.row[e].version
             /\ s.row[e].version <= reach.revs
             /\ s.copies[e] > 0 => s.row[e].version # 0
             /\ Legacy => k[e] >= history[s.rev][e].version
  <2>1. /\ known[c][e] >= store[c].row[e].version
        /\ store[c].row[e].version <= reach.revs
        /\ store[c].copies[e] > 0 => store[c].row[e].version # 0
        /\ Legacy => known[c][e] >= history[store[c].rev][e].version
    BY <1>0 DEF ClientSound
  <2>2. k[e] >= known[c][e]
    OBVIOUS
  <2>. QED
    BY <1>1, <1>3, <2>1, <2>2
<1>5. ClientSound(c)'
  <2>1. /\ s.rev \in 1 .. rev /\ (s.capture # Nobody => s.copies[s.capture] > 0)
        /\ (s.form.entity # Nobody => ~Legacy)
        /\ \A p \in poll[c] : p \in [asked : 1 .. rev, got : 0 .. rev]
    BY <1>0, <1>1 DEF ClientSound
  <2>2. Legacy' = Legacy /\ rev' = rev /\ history' = history /\ poll' = poll /\ reach' = reach
    BY DEF Legacy, rev
  <2>. HIDE DEF Legacy, rev
  <2>. QED
    BY <1>2, <1>4, <2>1, <2>2 DEF ClientSound
<1>6. WriteSound(c)'
  BY <1>2 DEF WriteSound, WellAimed, Legacy
<1>. QED
  BY <1>0, <1>2, <1>5, <1>6, OneClient

\* A write, or its answer, is lost.
LEMMA LoseWriteKeeps ==
  ASSUME SyncInv, UNCHANGED reach, NEW c \in Client, LoseWrite(c)
  PROVE  SyncInv'
<1>. DEFINE w == write[c]
            n == IF w.phase = "accepted" /\ w.kind = "update" THEN w.rows[w.entity].version
                 ELSE store[c].form.seen
            f == [store[c].form EXCEPT !.seen = n]
<1>0. store[c] \in Shown /\ known[c] \in [Entity -> Nat] /\ w \in WriteRecord
  BY DEF SyncInv, WriteSound, LoseWrite
<1>1. /\ store[c].form \in [entity : Entity \cup {Nobody}, seen : Nat]
      /\ w.rows[w.entity].version \in Nat
  BY <1>0 DEF Shown, WriteRecord, AnyRow
<1>2. n \in Nat
  BY <1>1
<1>3. /\ store' = [store EXCEPT ![c] = [store[c] EXCEPT !.form = f]]
      /\ write' = [write EXCEPT ![c] = NoWrite] /\ UNCHANGED <<history, poll, known>>
  BY DEF LoseWrite
<1>. HIDE DEF n
<1>4. f \in [entity : Entity \cup {Nobody}, seen : Nat] /\ f.entity = store[c].form.entity
  BY <1>1, <1>2
<1>5. known' = [known EXCEPT ![c] = known[c]] /\ \A e \in Entity : known[c][e] >= known[c][e]
  BY <1>0, <1>3 DEF SyncInv
<1>. HIDE DEF f
<1>. QED
  BY <1>0, <1>3, <1>4, <1>5, FormKeeps

\* A record that is written for the first time, or again.
LEMMA RowWritten ==
  ASSUME SyncInv
  PROVE  /\ rev \in Nat /\ rev >= 1 /\ server \in [Entity -> AnyRow] /\ server = history[rev]
         /\ \A e \in Entity : server[e].version \in Nat /\ server[e].version <= rev
         /\ \A status \in Status :
              /\ Now(status) \in AnyRow /\ Now(status).version = 1
              /\ \A e \in Entity : /\ Again(e, status) \in AnyRow
                                   /\ Again(e, status).version = server[e].version + 1
<1>1. rev \in 1 .. rev /\ rev \in Nat /\ rev >= 1
  BY SyncAssumption DEF SyncInv, HistorySound
<1>2. server \in [Entity -> AnyRow] /\ server = history[rev]
  BY <1>1 DEF SyncInv, HistorySound, rev, server
<1>3. \A e \in Entity : server[e].version \in Nat /\ server[e].version <= rev
  BY <1>1, <1>2 DEF SyncInv, HistorySound, AnyRow
<1>. QED
  BY <1>1, <1>2, <1>3 DEF Now, Again, AnyRow

\* What an accepted write makes of the records, and what of it is in the answer.
LEMMA WrittenOutcome ==
  ASSUME SyncInv, NEW w \in WriteRecord, WellAimed(w), Accepts(w)
  PROVE  /\ Written(w) \in [Entity -> AnyRow]
         /\ \A e \in Entity : Written(w)[e].version <= rev + 1
         /\ Returned(w) \subseteq Entity /\ w.entity \in Returned(w)
         /\ Legacy => \A e \in Entity \ Returned(w) : Written(w)[e] = server[e]
         /\ w.kind \in Checked /\ ~Legacy => Written(w)[w.entity].version = w.version + 1
<1>. DEFINE e == w.entity
            call == CallOf[e]
<1>0. /\ e \in Entity /\ w.kind \in Kind /\ w.aim \in Aim /\ server[e].status \in Status
      /\ rev \in Nat /\ rev >= 1 /\ server \in [Entity -> AnyRow]
      /\ \A f \in Entity : server[f].version \in Nat /\ server[f].version <= rev
      /\ \A status \in Status :
           /\ Now(status) \in AnyRow /\ Now(status).version = 1
           /\ \A f \in Entity : /\ Again(f, status) \in AnyRow
                                /\ Again(f, status).version = server[f].version + 1
      /\ Absent \in AnyRow /\ Absent.version = 0
  <2>1. /\ rev \in Nat /\ rev >= 1 /\ server \in [Entity -> AnyRow]
        /\ \A f \in Entity : server[f].version \in Nat /\ server[f].version <= rev
        /\ \A status \in Status :
             /\ Now(status) \in AnyRow /\ Now(status).version = 1
             /\ \A f \in Entity : /\ Again(f, status) \in AnyRow
                                  /\ Again(f, status).version = server[f].version + 1
    BY RowWritten
  <2>2. Absent \in AnyRow /\ Absent.version = 0
    BY DEF AnyRow, Absent, Status
  <2>3. e \in Entity /\ w.kind \in Kind /\ w.aim \in Aim
    BY DEF WriteRecord
  <2>4. server[e].status \in Status
    BY <2>1, <2>3 DEF AnyRow
  <2>. QED
    BY <2>1, <2>2, <2>3, <2>4
<1>1. "open" \in Status /\ "completed" \in Status /\ "cancelled" \in Status
  BY DEF Status
<1>. HIDE DEF rev, server, Legacy, Status, Now, Again, Absent, AnyRow
<1>2. CASE w.kind = "create"
  <2>1. Written(w) = [server EXCEPT ![e] = Now("open")] /\ Returned(w) = {e}
    BY <1>2 DEF Written, Returned
  <2>. QED
    BY <1>0, <1>1, <1>2, <2>1 DEF Checked
<1>3. CASE w.kind = "draft"
  <2>0. e \in Inspection /\ call \in Entity /\ call # e
    BY <1>3, SyncAssumption DEF WellAimed, Entity
  <2>1. CASE ~Legacy
    <3>1. /\ Written(w) = [server EXCEPT ![e] = Now("open"), ![call] = Again(call, "open")]
          /\ Returned(w) = {e}
      BY <1>3, <2>1 DEF Written, Returned
    <3>. QED
      BY <1>0, <1>1, <1>3, <2>0, <2>1, <3>1 DEF Checked
  <2>2. CASE Legacy /\ w.aim = "save"
    <3>1. Written(w) = [server EXCEPT ![e] = Now("open")] /\ Returned(w) = {e, call}
      BY <1>3, <2>2 DEF Written, Returned
    <3>. QED
      BY <1>0, <1>1, <1>3, <2>0, <2>2, <3>1 DEF Checked
  <2>3. CASE Legacy /\ w.aim = "complete"
    <3>1. /\ Written(w) = [server EXCEPT ![e] = Now("completed"),
                                         ![call] = Again(call, "completed")]
          /\ Returned(w) = {e, call}
      BY <1>3, <2>3 DEF Written, Returned
    <3>. QED
      BY <1>0, <1>1, <1>3, <2>0, <2>3, <3>1 DEF Checked
  <2>. QED
    BY <1>0, <2>1, <2>2, <2>3 DEF Aim
<1>4. CASE w.kind = "update"
  <2>1. /\ Written(w) = [server EXCEPT ![e] = Again(e, server[e].status)] /\ Returned(w) = {e}
        /\ Legacy \/ server[e].version = w.version
    BY <1>4 DEF Written, Returned, Accepts
  <2>. QED
    BY <1>0, <1>4, <2>1 DEF Checked
<1>5. CASE w.kind = "finalize"
  <2>0. e \in Inspection /\ call \in Entity /\ call # e
    BY <1>5, SyncAssumption DEF WellAimed, Entity
  <2>1. /\ Written(w) = [server EXCEPT ![e] = Again(e, "completed"),
                                       ![call] = Again(call, "completed")]
        /\ Returned(w) = {e, call} /\ (Legacy \/ server[e].version = w.version)
    BY <1>5 DEF Written, Returned, Accepts
  <2>. QED
    BY <1>0, <1>1, <1>5, <2>0, <2>1 DEF Checked
<1>6. CASE w.kind = "cancel" /\ ~Legacy
  <2>1. /\ Written(w) = [server EXCEPT ![e] = Again(e, "cancelled")] /\ Returned(w) = {e}
        /\ server[e].version = w.version
    BY <1>6 DEF Written, Returned, Accepts
  <2>. QED
    BY <1>0, <1>1, <1>6, <2>1 DEF Checked
<1>7. CASE w.kind = "cancel" /\ Legacy
  <2>1. /\ Written(w) = [f \in Entity |-> IF f \in {e} \cup InspectionsOf(e) THEN Absent
                                          ELSE server[f]]
        /\ Returned(w) = {e} \cup InspectionsOf(e)
    BY <1>7 DEF Written, Returned
  <2>2. InspectionsOf(e) \subseteq Entity
    BY DEF InspectionsOf, Entity
  <2>. HIDE DEF e
  <2>. QED
    BY <1>0, <1>7, <2>1, <2>2 DEF e
<1>. QED
  BY <1>0, <1>2, <1>3, <1>4, <1>5, <1>6, <1>7 DEF Kind, Aim

\* What makes an accepted write sound.
LEMMA AnsweredSound ==
  ASSUME NEW c \in Client, WellAimed(write[c])', Legacy' = Legacy,
         write'[c] \in WriteRecord, write'[c].phase = "accepted",
         known'[c][write'[c].entity] >= write'[c].version,
         write'[c].rev \in 2 .. rev', write'[c].rows = history'[write'[c].rev],
         write'[c].entity \in write'[c].shown,
         Legacy => \A e \in Entity \ write'[c].shown :
                     history'[write'[c].rev][e] = history'[write'[c].rev - 1][e],
         write'[c].kind \in Checked /\ ~Legacy =>
           write'[c].rows[write'[c].entity].version = write'[c].version + 1
  PROVE  WriteSound(c)'
  BY DEF WriteSound

\* The server takes a write: its past stays, and a revision follows it.
LEMMA AcceptKeeps ==
  ASSUME SyncInv, NEW c \in Client, write[c] # NoWrite, rev < reach.revs,
         Accepts(write[c]), UNCHANGED <<store, poll, known, reach>>,
         history' = Append(history, Written(write[c])),
         write' = [write EXCEPT ![c] =
                     [write[c] EXCEPT !.phase = "accepted", !.rows = Written(write[c]),
                                      !.shown = Returned(write[c]), !.rev = rev + 1]]
  PROVE  SyncInv'
<1>. DEFINE w == write[c]
            h == Written(w)
<1>0. /\ w \in WriteRecord /\ w.entity \in Entity /\ known[c][w.entity] >= w.version
      /\ WellAimed(w)
      /\ rev \in Nat /\ rev >= 1 /\ reach.revs \in Nat /\ reach \in SyncScopes
      /\ history \in Seq([Entity -> AnyRow]) /\ server \in [Entity -> AnyRow]
      /\ server = history[rev]
  <2>1. w \in WriteRecord /\ known[c][w.entity] >= w.version /\ WellAimed(w)
    BY DEF SyncInv, WriteSound
  <2>2. /\ rev \in 1 .. rev /\ rev \in Nat /\ reach.revs \in Nat /\ reach \in SyncScopes
        /\ history \in Seq([Entity -> AnyRow])
    BY SyncAssumption DEF SyncInv, HistorySound
  <2>3. server \in [Entity -> AnyRow]
    BY <2>2 DEF rev, server
  <2>. QED
    BY <2>1, <2>2, <2>3 DEF WriteRecord, server
<1>1. /\ h \in [Entity -> AnyRow]
      /\ \A e \in Entity : h[e].version <= rev + 1
      /\ Returned(w) \subseteq Entity /\ w.entity \in Returned(w)
      /\ Legacy => \A e \in Entity \ Returned(w) : h[e] = server[e]
      /\ w.kind \in Checked /\ ~Legacy => h[w.entity].version = w.version + 1
  BY <1>0, WrittenOutcome
<1>2. history' = Append(history, h)
  OBVIOUS
<1>. DEFINE v == [w EXCEPT !.phase = "accepted", !.rows = h, !.shown = Returned(w), !.rev = rev + 1]
<1>3. write'[c] = v /\ DOMAIN write' = Client /\ \A d \in Client \ {c} : write'[d] = write[d]
  BY DEF SyncInv
<1>. HIDE DEF h, v
<1>4. /\ history' \in Seq([Entity -> AnyRow]) /\ rev' = rev + 1
      /\ history'[rev + 1] = h /\ \A r \in 1 .. rev : history'[r] = history[r]
  BY <1>0, <1>1, <1>2 DEF rev
<1>5. \A r \in 1 .. rev : \A e \in Entity : history[r][e].version <= r
  BY DEF SyncInv, HistorySound
<1>6. HistorySound'
  <2>1. ASSUME NEW r \in 1 .. rev + 1, NEW e \in Entity
        PROVE  history'[r][e].version <= r
    <3>1. CASE r = rev + 1
      BY <1>1, <1>4, <3>1
    <3>2. CASE r # rev + 1
      <4>1. r \in 1 .. rev
        BY <1>0, <3>2
      <4>. QED
        BY <1>4, <1>5, <4>1
    <3>. QED
      BY <3>1, <3>2
  <2>2. rev' \in (1 .. reach.revs)'
    BY <1>0, <1>4
  <2>. QED
    BY <1>0, <1>4, <2>1, <2>2 DEF HistorySound
<1>7. ASSUME NEW d \in Client PROVE ClientSound(d)'
  <2>1. ClientSound(d) /\ store[d].rev \in 1 .. rev /\ Legacy' = Legacy
    BY DEF SyncInv, ClientSound, Legacy
  <2>2. history'[store[d].rev] = history[store[d].rev]
    BY <1>4, <2>1
  <2>3. 1 .. rev \subseteq 1 .. rev + 1 /\ 0 .. rev \subseteq 0 .. rev + 1
    BY <1>0
  <2>4. \A p \in poll[d] : p \in [asked : 1 .. rev + 1, got : 0 .. rev + 1]
    BY <2>1, <2>3 DEF ClientSound
  <2>. HIDE DEF Legacy, rev
  <2>. QED
    BY <1>4, <2>1, <2>2, <2>3, <2>4 DEF ClientSound
<1>8. ASSUME NEW d \in Client \ {c} PROVE WriteSound(d)'
  <2>. DEFINE x == write[d]
  <2>0. x = write'[d] /\ Legacy' = Legacy /\ known' = known
    BY <1>3 DEF Legacy
  <2>. SUFFICES ASSUME x # NoWrite
                PROVE  /\ x \in WriteRecord /\ WellAimed(x)
                       /\ known[d][x.entity] >= x.version
                       /\ x.phase = "accepted" =>
                            /\ x.rev \in 2 .. rev' /\ x.rows = history'[x.rev]
                            /\ x.entity \in x.shown
                            /\ Legacy => \A e \in Entity \ x.shown :
                                           history'[x.rev][e] = history'[x.rev - 1][e]
                            /\ x.kind \in Checked /\ ~Legacy =>
                                 x.rows[x.entity].version = x.version + 1
    BY <2>0 DEF WriteSound, WellAimed
  <2>1. WriteSound(d)
    BY DEF SyncInv
  <2>2. ASSUME x.phase = "accepted"
        PROVE  /\ x.rev \in 2 .. rev'
               /\ history'[x.rev] = history[x.rev]
               /\ history'[x.rev - 1] = history[x.rev - 1]
    <3>1. x.rev \in 2 .. rev
      BY <2>1, <2>2 DEF WriteSound
    <3>2. x.rev \in 1 .. rev /\ x.rev - 1 \in 1 .. rev
      BY <1>0, <3>1
    <3>3. x.rev \in 2 .. rev'
      <4>. HIDE DEF rev
      <4>. QED
        BY <1>0, <1>4, <3>1
    <3>. QED
      BY <1>4, <3>2, <3>3
  <2>. QED
    BY <2>1, <2>2 DEF WriteSound
<1>9. WriteSound(c)'
  <2>1. /\ v \in WriteRecord /\ v.entity = w.entity /\ v.version = w.version /\ v.kind = w.kind
        /\ v.aim = w.aim
        /\ v.rows = h /\ v.shown = Returned(w) /\ v.rev = rev + 1 /\ v.phase = "accepted"
    <3>1. h \in [Entity -> AnyRow] /\ rev + 1 \in Nat /\ Returned(w) \in SUBSET Entity
      BY <1>0, <1>1
    <3>. HIDE DEF rev
    <3>. QED
      BY <1>0, <3>1 DEF WriteRecord, v
  <2>2. history'[rev] = server /\ v.rows = history'[v.rev]
    <3>1. rev \in 1 .. rev
      BY <1>0
    <3>. QED
      BY <1>0, <1>4, <2>1, <3>1
  <2>3. v.rev \in 2 .. rev' /\ v.rev - 1 = rev
    BY <1>0, <1>4, <2>1
  <2>4. Legacy => \A e \in Entity \ v.shown : history'[v.rev][e] = history'[v.rev - 1][e]
    BY <1>1, <2>1, <2>2, <2>3
  <2>5. v.kind \in Checked /\ ~Legacy => v.rows[v.entity].version = v.version + 1
    BY <1>1, <2>1
  <2>6. known'[c][v.entity] >= v.version /\ v.entity \in v.shown
    BY <1>0, <1>1, <2>1
  <2>7. Legacy' = Legacy
    BY DEF Legacy
  <2>8. WellAimed(write[c])'
    BY <1>0, <1>3, <2>1, <2>7 DEF WellAimed
  <2>. QED
    BY ONLY <1>3, <2>1, <2>2, <2>3, <2>4, <2>5, <2>6, <2>7, <2>8, AnsweredSound
<1>. QED
  BY <1>3, <1>6, <1>7, <1>8, <1>9 DEF SyncInv

\* The server answers a write.
LEMMA AnswerWriteKeeps ==
  ASSUME SyncInv, UNCHANGED reach, NEW c \in Client, AnswerWrite(c)
  PROVE  SyncInv'
<1>1. /\ write[c] # NoWrite /\ write[c] \in WriteRecord /\ WellAimed(write[c])
      /\ known[c][write[c].entity] >= write[c].version
  <2>1. write[c].phase = "sent"
    BY DEF AnswerWrite
  <2>2. write[c] # NoWrite
    BY <2>1 DEF NoWrite
  <2>. QED
    BY <2>2 DEF SyncInv, WriteSound
<1>2. CASE Accepts(write[c])
  BY <1>1, <1>2, AcceptKeeps DEF AnswerWrite
<1>3. CASE ~Accepts(write[c])
  <2>. DEFINE v == [write[c] EXCEPT !.phase = "refused"]
  <2>1. write' = [write EXCEPT ![c] = v] /\ UNCHANGED <<history, store, poll, known>>
    BY <1>3 DEF AnswerWrite
  <2>2. /\ v \in WriteRecord /\ v.entity = write[c].entity /\ v.version = write[c].version
        /\ v.phase # "accepted" /\ v.kind = write[c].kind /\ v.aim = write[c].aim
    BY <1>1 DEF WriteRecord
  <2>. HIDE DEF v
  <2>3. WellAimed(v)
    BY <1>1, <2>2 DEF WellAimed
  <2>. QED
    BY <1>1, <2>1, <2>2, <2>3, WriteOnly
<1>. QED
  BY <1>2, <1>3

\* What a client knows after an answer.
LEMMA SentMore ==
  ASSUME SyncInv, NEW c \in Client, NEW w \in WriteRecord
  PROVE  LET k == [e \in Entity |-> IF e \in w.shown THEN Max({known[c][e], w.rows[e].version})
                                    ELSE known[c][e]]
         IN /\ k \in [Entity -> Nat]
            /\ \A e \in Entity : k[e] >= known[c][e]
            /\ \A e \in w.shown : k[e] >= w.rows[e].version
<1>1. ASSUME NEW e \in Entity
      PROVE  /\ known[c][e] \in Nat /\ w.rows[e].version \in Nat
             /\ Max({known[c][e], w.rows[e].version}) \in Nat
             /\ Max({known[c][e], w.rows[e].version}) >= known[c][e]
             /\ Max({known[c][e], w.rows[e].version}) >= w.rows[e].version
  <2>1. known[c][e] \in Nat /\ w.rows[e].version \in Nat
    BY DEF SyncInv, WriteRecord, AnyRow
  <2>. QED
    BY <2>1, MaxOfTwo
<1>2. w.shown \subseteq Entity
  BY DEF WriteRecord
<1>. DEFINE M(e) == Max({known[c][e], w.rows[e].version})
            k == [e \in Entity |-> IF e \in w.shown THEN M(e) ELSE known[c][e]]
<1>3. \A e \in Entity : /\ known[c][e] \in Nat /\ M(e) \in Nat
                        /\ M(e) >= known[c][e] /\ M(e) >= w.rows[e].version
  BY <1>1
<1>. HIDE DEF M
<1>4. /\ k \in [Entity -> Nat] /\ \A e \in Entity : k[e] >= known[c][e]
      /\ \A e \in w.shown : k[e] >= w.rows[e].version
  BY <1>2, <1>3
<1>. QED
  BY <1>4 DEF M

\* A client takes the answer of its write: the records and, by its rule, the cursor. A
\* retired client only moves to the very next revision, of which it was sent the rest.
LEMMA MergeKeeps ==
  ASSUME SyncInv, UNCHANGED <<reach, history, poll>>, NEW c \in Client,
         write[c] # NoWrite, write[c].phase = "accepted",
         write' = [write EXCEPT ![c] = NoWrite],
         store' = [store EXCEPT ![c] = [MergeWrite(store[c], write[c]) EXCEPT
                                          !.form = [entity |-> Nobody, seen |-> 0]]],
         known' = [known EXCEPT ![c] = [e \in Entity |->
                     IF e \in write[c].shown THEN Max({known[c][e], write[c].rows[e].version})
                     ELSE known[c][e]]]
  PROVE  SyncInv'
<1>. DEFINE w == write[c]
            t == MergeWrite(store[c], w)
            s == [t EXCEPT !.form = [entity |-> Nobody, seen |-> 0]]
            k == [e \in Entity |-> IF e \in w.shown THEN Max({known[c][e], w.rows[e].version})
                                   ELSE known[c][e]]
<1>0. w \in WriteRecord /\ WriteSound(c)
  BY DEF SyncInv, WriteSound
<1>1. /\ w.rev \in Nat /\ w.rev >= 2 /\ w.rev <= rev /\ w.shown \subseteq Entity
      /\ rev \in Nat /\ rev <= reach.revs /\ reach.revs \in Nat
      /\ store[c] \in Shown /\ ClientSound(c) /\ known[c] \in [Entity -> Nat]
      /\ store[c].rev \in Nat /\ store[c].rev >= 1 /\ store[c].rev <= rev
  <2>1. rev \in 1 .. reach.revs /\ reach.revs \in Nat
    BY SyncAssumption DEF SyncInv, HistorySound
  <2>2. w.rev \in 2 .. rev
    BY <1>0 DEF WriteSound
  <2>3. store[c].rev \in 1 .. rev /\ ClientSound(c) /\ store[c] \in Shown
        /\ known[c] \in [Entity -> Nat]
    BY DEF SyncInv, ClientSound
  <2>. QED
    BY <1>0, <2>1, <2>2, <2>3 DEF WriteRecord
<1>2. /\ w.rows = history[w.rev]
      /\ Legacy => \A e \in Entity \ w.shown : history[w.rev][e] = history[w.rev - 1][e]
  BY <1>0 DEF WriteSound
<1>3. \A e \in Entity : w.rows[e].version \in Nat /\ w.rows[e].version <= reach.revs
  <2>1. w.rev \in 1 .. rev
    BY <1>1
  <2>2. \A e \in Entity : history[w.rev][e].version <= w.rev
    BY <2>1 DEF SyncInv, HistorySound
  <2>3. \A e \in Entity : w.rows[e].version \in Nat
    BY <1>0 DEF WriteRecord, AnyRow
  <2>. QED
    BY <1>1, <1>2, <2>2, <2>3
<1>4. /\ AdvanceRev(store[c], w.rev) \in Nat
      /\ AdvanceRev(store[c], w.rev) >= 1 /\ AdvanceRev(store[c], w.rev) <= rev
      /\ Legacy => \/ AdvanceRev(store[c], w.rev) = store[c].rev
                   \/ /\ AdvanceRev(store[c], w.rev) = w.rev
                      /\ w.rev - 1 = store[c].rev
  <2>1. CASE Legacy
    BY <1>1, <2>1 DEF AdvanceRev
  <2>2. CASE ~Legacy
    <3>1. AdvanceRev(store[c], w.rev) = Max({store[c].rev, w.rev})
      BY <2>2 DEF AdvanceRev
    <3>2. Max({store[c].rev, w.rev}) \in {store[c].rev, w.rev}
      BY <1>1, MaxOfTwo
    <3>. QED
      BY <1>1, <2>2, <3>1, <3>2
  <2>. QED
    BY <2>1, <2>2
<1>5. /\ t \in Shown /\ t.rev = AdvanceRev(store[c], w.rev)
      /\ \A e \in Entity \ w.shown : t.row[e] = store[c].row[e] /\ t.copies[e] = store[c].copies[e]
      /\ \A e \in w.shown : t.row[e] = w.rows[e] /\ (t.copies[e] > 0 => w.rows[e].version # 0)
      /\ t.capture # Nobody => t.copies[t.capture] > 0
  <2>. HIDE DEF w
  <2>1. w \in WriteRecord /\ store[c] \in Shown /\ AdvanceRev(store[c], w.rev) \in Nat
    BY <1>0, <1>1, <1>4
  <2>2. t = MergeWrite(store[c], w)
    OBVIOUS
  <2>. HIDE DEF t, s, k
  <2>3. Merged(t, store[c], w)
    BY <2>1, <2>2, MergeOutcome, Zenon
  <2>. QED
    BY <2>3, Zenon DEF Merged
<1>6. store' = [store EXCEPT ![c] = s] /\ known' = [known EXCEPT ![c] = k]
  OBVIOUS
<1>. HIDE DEF t
<1>7. /\ s \in Shown /\ s.rev = t.rev /\ s.row = t.row /\ s.copies = t.copies
      /\ s.capture = t.capture /\ s.form.entity = Nobody
  <2>. DEFINE f == [entity |-> Nobody, seen |-> 0]
  <2>1. f \in [entity : Entity \cup {Nobody}, seen : Nat] /\ f.entity = Nobody
    OBVIOUS
  <2>2. s = [t EXCEPT !.form = f]
    OBVIOUS
  <2>. HIDE DEF f, s
  <2>. QED
    BY <1>5, <2>1, <2>2 DEF Shown
<1>. HIDE DEF s
<1>8. /\ k \in [Entity -> Nat]
      /\ \A e \in Entity : k[e] >= known[c][e]
      /\ \A e \in w.shown : k[e] >= w.rows[e].version
  BY <1>0, SentMore
<1>. HIDE DEF k
<1>9. ASSUME NEW e \in Entity
      PROVE  /\ k[e] >= s.row[e].version
             /\ s.row[e].version <= reach.revs
             /\ s.copies[e] > 0 => s.row[e].version # 0
  <2>1. CASE e \in w.shown
    BY <1>3, <1>5, <1>7, <1>8, <2>1
  <2>2. CASE e \notin w.shown
    <3>1. /\ known[c][e] >= store[c].row[e].version /\ store[c].row[e].version <= reach.revs
          /\ store[c].copies[e] > 0 => store[c].row[e].version # 0
      BY <1>1 DEF ClientSound
    <3>2. /\ k[e] \in Nat /\ known[c][e] \in Nat /\ store[c].row[e].version \in Nat
          /\ k[e] >= known[c][e]
      BY <1>1, <1>8 DEF Shown, AnyRow
    <3>3. s.row[e] = store[c].row[e] /\ s.copies[e] = store[c].copies[e]
      BY <1>5, <1>7, <2>2
    <3>. QED
      BY <3>1, <3>2, <3>3
  <2>. QED
    BY <2>1, <2>2
<1>10. ASSUME NEW e \in Entity, Legacy PROVE k[e] >= history[s.rev][e].version
  <2>0. /\ known[c][e] >= history[store[c].rev][e].version
        /\ k[e] >= known[c][e] /\ known[c][e] \in Nat /\ k[e] \in Nat
    BY <1>1, <1>8, <1>10 DEF ClientSound
  <2>1. history[store[c].rev][e].version \in Nat
    <3>1. store[c].rev \in 1 .. rev
      BY <1>1
    <3>2. history[store[c].rev] \in [Entity -> AnyRow]
      BY <3>1 DEF SyncInv, HistorySound, rev
    <3>. QED
      BY <3>2 DEF AnyRow
  <2>2. CASE s.rev = store[c].rev
    BY <2>0, <2>1, <2>2
  <2>3. CASE s.rev = w.rev /\ w.rev - 1 = store[c].rev
    <3>1. CASE e \in w.shown
      BY <1>2, <1>8, <2>3, <3>1
    <3>2. CASE e \notin w.shown
      <4>1. history[s.rev][e] = history[store[c].rev][e]
        BY <1>2, <1>10, <2>3, <3>2
      <4>. QED
        BY <2>0, <2>1, <4>1
    <3>. QED
      BY <3>1, <3>2
  <2>. QED
    BY <1>4, <1>5, <1>7, <1>10, <2>2, <2>3
<1>11. s.rev \in 1 .. rev
  BY <1>1, <1>4, <1>5, <1>7
<1>12. /\ DOMAIN poll' = Client /\ poll'[c] \subseteq poll[c] /\ DOMAIN write' = Client
       /\ write'[c] = NoWrite
       /\ \A d \in Client \ {c} : poll'[d] = poll[d] /\ write'[d] = write[d]
  BY DEF SyncInv
<1>13. /\ s.capture # Nobody => s.copies[s.capture] > 0
       /\ s.form.entity # Nobody => ~Legacy
  BY <1>5, <1>7
<1>14. \A e \in Entity :
         /\ k[e] >= s.row[e].version
         /\ s.row[e].version <= reach.revs
         /\ s.copies[e] > 0 => s.row[e].version # 0
         /\ Legacy => k[e] >= history[s.rev][e].version
  BY <1>9, <1>10
<1>. HIDE DEF w
<1>. QED
  BY <1>6, <1>7, <1>8, <1>11, <1>12, <1>13, <1>14, StoreKeeps

\* A client goes on to complete the inspection it has saved.
LEMMA GoOnKeeps ==
  ASSUME SyncInv, UNCHANGED <<reach, history, poll>>, NEW c \in Client, ~Legacy,
         write[c] # NoWrite, write[c].phase = "accepted", write[c].entity \in Inspection,
         write' = [write EXCEPT ![c] =
                     Pending("finalize", write[c].entity,
                             write[c].rows[write[c].entity].version, write[c].seen, "complete")],
         store' = [store EXCEPT ![c].form.seen = write[c].rows[write[c].entity].version],
         known' = [known EXCEPT ![c] = [e \in Entity |->
                     IF e \in write[c].shown THEN Max({known[c][e], write[c].rows[e].version})
                     ELSE known[c][e]]]
  PROVE  SyncInv'
<1>. DEFINE w == write[c]
            n == w.rows[w.entity].version
            v == Pending("finalize", w.entity, n, w.seen, "complete")
            f == [store[c].form EXCEPT !.seen = n]
            k == [e \in Entity |-> IF e \in w.shown THEN Max({known[c][e], w.rows[e].version})
                                   ELSE known[c][e]]
<1>0. /\ w \in WriteRecord /\ w.entity \in w.shown /\ store[c] \in Shown
      /\ w.entity \in Entity /\ w.seen \in Nat /\ n \in Nat
  <2>1. w \in WriteRecord /\ w.entity \in w.shown /\ store[c] \in Shown
    BY DEF SyncInv, WriteSound
  <2>. QED
    BY <2>1 DEF WriteRecord, AnyRow
<1>1. /\ k \in [Entity -> Nat] /\ \A e \in Entity : k[e] >= known[c][e]
      /\ \A e \in w.shown : k[e] >= w.rows[e].version
  BY <1>0, SentMore
<1>2. /\ store' = [store EXCEPT ![c] = [store[c] EXCEPT !.form = f]]
      /\ write' = [write EXCEPT ![c] = v] /\ known' = [known EXCEPT ![c] = k]
  OBVIOUS
<1>. HIDE DEF k
<1>3. /\ v \in WriteRecord /\ v.entity = w.entity /\ v.version = n /\ v.phase = "sent"
      /\ v.kind = "finalize"
  <2>. HIDE DEF n
  <2>. QED
    BY <1>0, PendingType DEF Kind, Aim
<1>. HIDE DEF v
<1>4. WellAimed(v) /\ v.phase # "accepted" /\ k[v.entity] >= v.version
  BY <1>0, <1>1, <1>3 DEF WellAimed
<1>. HIDE DEF n
<1>5. f \in [entity : Entity \cup {Nobody}, seen : Nat] /\ f.entity = store[c].form.entity
  BY <1>0 DEF Shown
<1>. HIDE DEF f
<1>. QED
  BY <1>1, <1>2, <1>3, <1>4, <1>5, FormKeeps

\* A client learns what became of its write.
LEMMA ReceiveWriteKeeps ==
  ASSUME SyncInv, UNCHANGED reach, NEW c \in Client, ReceiveWrite(c)
  PROVE  SyncInv'
<1>. DEFINE goesOn == ~Legacy /\ write[c].aim = "complete" /\ write[c].kind # "finalize"
<1>0. write[c] # NoWrite
  BY DEF ReceiveWrite, NoWrite
<1>1. CASE write[c].phase = "accepted" /\ goesOn
  <2>1. write[c].entity \in Inspection
    BY <1>0, <1>1 DEF SyncInv, WriteSound, WellAimed
  <2>. QED
    BY <1>0, <1>1, <2>1, GoOnKeeps DEF ReceiveWrite
<1>2. CASE write[c].phase = "accepted" /\ ~goesOn
  BY <1>0, <1>2, MergeKeeps DEF ReceiveWrite
<1>3. CASE write[c].phase # "accepted"
  BY <1>3, WriteOnly DEF ReceiveWrite
<1>. QED
  BY <1>1, <1>2, <1>3

-----------------------------------------------------------------------------
(* The theorems                                                             *)

\* Every client starts with the first revision.
LEMMA InitSync == SyncInit => SyncInv
<1>. SUFFICES ASSUME SyncInit PROVE SyncInv
  OBVIOUS
<1>. DEFINE Rows(first) ==
       [e \in Entity |-> IF e = first THEN [version |-> 1, status |-> "open"] ELSE Absent]
            Blank(rows) ==
              [rev |-> 0, row |-> rows, copies |-> [e \in Entity |-> 0],
               form |-> [entity |-> Nobody, seen |-> 0], capture |-> Nobody]
<1>1. PICK first \in Call :
        /\ history = <<Rows(first)>>
        /\ store = [c \in Client |-> ApplyState(Blank(Rows(first)), Rows(first), 1)]
        /\ poll = [c \in Client |-> {}] /\ write = [c \in Client |-> NoWrite]
        /\ known = [c \in Client |-> [e \in Entity |-> Rows(first)[e].version]]
        /\ reach \in SyncScopes
  BY DEF SyncInit
<1>. DEFINE rows == Rows(first)
            s == ApplyState(Blank(rows), rows, 1)
<1>2. /\ rows \in [Entity -> AnyRow]
      /\ \A e \in Entity : rows[e].version \in Nat /\ rows[e].version <= 1
  BY DEF AnyRow, Status, Absent
<1>3. /\ history = <<rows>> /\ store = [c \in Client |-> s]
      /\ poll = [c \in Client |-> {}] /\ write = [c \in Client |-> NoWrite]
      /\ known = [c \in Client |-> [e \in Entity |-> rows[e].version]]
      /\ reach \in SyncScopes
  BY <1>1
<1>. HIDE DEF Rows
<1>4. Blank(rows) \in Shown /\ Blank(rows).form.entity = Nobody
  BY <1>2 DEF Shown
<1>. HIDE DEF Blank
<1>5. /\ s \in Shown /\ s.rev = 1 /\ s.row = rows /\ s.form.entity = Nobody
      /\ \A e \in Entity : s.copies[e] > 0 => rows[e].version # 0
      /\ s.capture # Nobody => s.copies[s.capture] > 0
  BY <1>2, <1>4, ApplyOutcome
<1>. HIDE DEF s, rows
<1>6. rev = 1 /\ reach.revs \in Nat /\ reach.revs >= 1 /\ history[1] = rows
  BY <1>3, SyncAssumption DEF rev
<1>7. HistorySound
  BY <1>2, <1>3, <1>6 DEF HistorySound
<1>8. store \in [Client -> Shown] /\ known \in [Client -> [Entity -> Nat]]
  BY <1>2, <1>3, <1>5
<1>9. ASSUME NEW c \in Client PROVE ClientSound(c) /\ WriteSound(c)
  <2>1. store[c] = s /\ poll[c] = {} /\ write[c] = NoWrite
        /\ \A e \in Entity : known[c][e] = rows[e].version
    BY <1>3
  <2>2. ClientSound(c)
    BY <1>2, <1>5, <1>6, <2>1 DEF ClientSound
  <2>. QED
    BY <2>1, <2>2 DEF WriteSound
<1>. QED
  BY <1>3, <1>7, <1>8, <1>9 DEF SyncInv

\* Every step keeps the invariant.
LEMMA NextSync == SyncInv /\ [SyncNext]_syncVars => SyncInv'
<1>. SUFFICES ASSUME SyncInv, [SyncNext]_syncVars PROVE SyncInv'
  OBVIOUS
<1>1. CASE UNCHANGED syncVars
  BY <1>1 DEF syncVars, SyncInv, HistorySound, ClientSound, WriteSound, WellAimed, rev, Legacy
<1>2. CASE SyncNext
  <2>1. PICK c \in Client :
          \/ SendPoll(c)
          \/ \E p \in poll[c] : AnswerPoll(c, p) \/ ApplyPoll(c, p) \/ LosePoll(c, p)
          \/ \E e \in Entity :
               \/ OpenForm(c, e) \/ SendCreate(c, e) \/ OpenCapture(c, e) \/ SendCancel(c, e)
               \/ \E aim \in Aim : SendInspection(c, e, aim)
          \/ CloseForm(c) \/ LeaveCapture(c) \/ \E aim \in Aim : SendUpdate(c, aim)
          \/ AnswerWrite(c) \/ ReceiveWrite(c) \/ LoseWrite(c)
    BY <1>2 DEF SyncNext
  <2>2. UNCHANGED reach
    BY <1>2 DEF SyncNext
  <2>. QED
    BY <2>1, <2>2, PollNextKeeps, ApplyPollKeeps, ScreenKeeps, SendKeeps, LoseWriteKeeps,
       AnswerWriteKeeps, ReceiveWriteKeeps
<1>. QED
  BY <1>1, <1>2

\* Rows, cursors, forms and polls of every client hold values of their kinds, and no
\* cursor is ahead of the server.
THEOREM SyncTypeCorrect == SyncSpec => []SyncTypeOK
<1>. QED
  BY InitSync, NextSync, SyncInvImplies, PTL DEF SyncSpec

\* A write the server accepts replaces a version its client was shown: whatever the order
\* of polls and answers, a stale list is refused with a conflict.
THEOREM NoBlindWriteAlways == SyncSpec => []NoBlindWrite
<1>. QED
  BY InitSync, NextSync, SyncInvImplies, PTL DEF SyncSpec

\* The retired client's rule for the poll cursor skips no revision, and closes the capture
\* of a call that is gone.
THEOREM RetiredKeepsUpAlways == SyncSpec => []RetiredKeepsUp
<1>. QED
  BY InitSync, NextSync, SyncInvImplies, PTL DEF SyncSpec

-----------------------------------------------------------------------------
(* The queue: the inductive invariant                                       *)

Working == Requests \cup {"store", "remove", "lookup", "mark"}

Job == [phase : Working \cup {"idle", "next"}, capture : Nat, version : Nat, force : BOOLEAN,
        list : SUBSET Capture, why : {"none", "retryable", "blocked"}]
JobTable == [Mount -> [Slot -> Job]]
Told == {"nothing", "busy", "saved", "queued", "error"}
Remark == {"absent", "fresh", "retryable", "blocked"}

\* The server's rows: a capture is one inspection or none, and its version says how far
\* it is.
RowsSound ==
  /\ ins \in [Capture -> [status : {"absent", "draft", "completed"}, version : 0 .. 3,
                          copies : 0 .. 1]]
  /\ \A c \in Capture :
       /\ ins[c].status = "absent" => ins[c].copies = 0 /\ ins[c].version = 0
       /\ ins[c].status # "absent" => ins[c].copies = 1
       /\ ins[c].status = "draft" => ins[c].version \in 1 .. 2

\* A job that is past the first request has its inspection on the server, one about to
\* remove a capture has its confirmation, one about to mark a capture has the reason.
JobsSound ==
  \A m \in Mount, s \in Slot :
    LET j == job[m][s] IN
    /\ j.phase \in Working => j.capture \in Capture
    /\ j.phase \in {"evidence", "finalize"} => ins[j.capture].copies = 1
    /\ j.phase = "remove" => ins[j.capture].status = "completed"
    /\ j.phase \in {"lookup", "mark"} => j.why # "none"

\* A submission reports on its capture once, and nobody else does.
SubmitsSound ==
  \A m \in Mount :
    LET j == job[m]["submit"] IN
    /\ j.phase \in Requests \cup {"idle", "store"}
    /\ j.phase # "idle" =>
         /\ told[j.capture] = "busy"
         /\ \A n \in Mount \ {m} :
              job[n]["submit"].phase # "idle" => job[n]["submit"].capture # j.capture

\* A flush works on captures that were queued.
FlushesSound ==
  \A m \in Mount :
    LET j == job[m]["flush"] IN
    /\ j.phase # "store"
    /\ j.phase \in Working => told[j.capture] = "queued"
    /\ \A c \in j.list : told[c] = "queued"

\* Only what was reported as queued is in the queue.
QueueSound ==
  /\ queue \in [Capture -> Remark] /\ told \in [Capture -> Told] /\ cleared \subseteq Capture
  /\ \A c \in Capture : queue[c] # "absent" => told[c] = "queued"

QueueInv ==
  /\ job \in JobTable
  /\ RowsSound /\ JobsSound /\ SubmitsSound /\ FlushesSound /\ QueueSound
  /\ PromiseKept

-----------------------------------------------------------------------------
(* Jobs                                                                     *)

\* A job is replaced and the others are left alone.
LEMMA Stepped ==
  ASSUME job \in JobTable, NEW m \in Mount, NEW s \in Slot, NEW j \in Job, Step(m, s, j)
  PROVE  /\ job' \in JobTable
         /\ job'[m][s] = j
         /\ \A n \in Mount, t \in Slot : n # m \/ t # s => job'[n][t] = job[n][t]
<1>1. job[m] \in [Slot -> Job]
  BY DEF JobTable
<1>2. job' = [job EXCEPT ![m] = [job[m] EXCEPT ![s] = j]]
  BY <1>1 DEF Step, JobTable
<1>3. [job[m] EXCEPT ![s] = j] \in [Slot -> Job]
  BY <1>1
<1>. QED
  BY <1>1, <1>2, <1>3 DEF JobTable

\* The idle job is one.
LEMMA IdleType == Idle \in Job /\ Idle.phase = "idle" /\ Idle.list = {} /\ Idle.why = "none"
BY DEF Idle, Job

\* What keeps the invariant when the rows on the server only grow, one job is replaced
\* by a sound one, no report changes and an item leaves the queue only when it is complete.
LEMMA JobAndQueue ==
  ASSUME QueueInv, NEW m \in Mount, NEW s \in Slot, NEW j \in Job, Step(m, s, j),
         UNCHANGED <<told, cleared>>, RowsSound', queue' \in [Capture -> Remark],
         \A c \in Capture :
           /\ queue[c] # "absent" => queue'[c] # "absent" \/ ins'[c].status = "completed"
           /\ queue'[c] # "absent" => told[c] = "queued",
         \A c \in Capture :
           /\ ins[c].status = "completed" => ins'[c].status = "completed"
           /\ ins[c].copies = 1 => ins'[c].copies = 1,
         j.phase \in Working => j.capture \in Capture,
         j.phase \in {"evidence", "finalize"} => ins'[j.capture].copies = 1,
         j.phase = "remove" => ins'[j.capture].status = "completed",
         j.phase \in {"lookup", "mark"} => j.why # "none",
         s = "submit" =>
           /\ j.phase \in Requests \cup {"idle", "store"}
           /\ j.phase # "idle" =>
                job[m][s].phase # "idle" /\ j.capture = job[m][s].capture,
         s = "flush" =>
           /\ j.phase # "store"
           /\ j.phase \in Working => told[j.capture] = "queued"
           /\ \A c \in j.list : told[c] = "queued"
  PROVE  QueueInv'
<1>1. /\ job' \in JobTable /\ job'[m][s] = j
      /\ \A n \in Mount, t \in Slot : n # m \/ t # s => job'[n][t] = job[n][t]
  BY Stepped DEF QueueInv
<1>2. JobsSound'
  <2>. SUFFICES ASSUME NEW n \in Mount, NEW t \in Slot
                PROVE  LET k == job'[n][t] IN
                       /\ k.phase \in Working => k.capture \in Capture
                       /\ k.phase \in {"evidence", "finalize"} => ins'[k.capture].copies = 1
                       /\ k.phase = "remove" => ins'[k.capture].status = "completed"
                       /\ k.phase \in {"lookup", "mark"} => k.why # "none"
    BY DEF JobsSound
  <2>1. CASE n = m /\ t = s
    BY <1>1, <2>1
  <2>2. CASE n # m \/ t # s
    <3>1. job'[n][t] = job[n][t]
      BY <1>1, <2>2
    <3>. QED
      BY <3>1 DEF QueueInv, JobsSound, Working, Requests
  <2>. QED
    BY <2>1, <2>2
<1>3. SubmitsSound'
  <2>1. \A n \in Mount : job'[n]["submit"].phase # "idle" =>
          /\ job[n]["submit"].phase # "idle"
          /\ job'[n]["submit"].capture = job[n]["submit"].capture
    BY <1>1 DEF Slot
  <2>2. \A n \in Mount : job'[n]["submit"].phase \in Requests \cup {"idle", "store"}
    BY <1>1 DEF Slot, QueueInv, SubmitsSound
  <2>. QED
    BY <2>1, <2>2 DEF QueueInv, SubmitsSound
<1>4. FlushesSound'
  BY <1>1 DEF QueueInv, FlushesSound, Slot
<1>5. QueueSound'
  BY DEF QueueInv, QueueSound
<1>6. PromiseKept'
  <2>1. \A c \in Capture : ins'[c].copies <= 1
    BY DEF RowsSound
  <2>. QED
    BY <2>1 DEF QueueInv, PromiseKept
<1>. QED
  BY <1>1, <1>2, <1>3, <1>4, <1>5, <1>6 DEF QueueInv

\* The same when the queue stays as it is.
LEMMA JobReplaced ==
  ASSUME QueueInv, NEW m \in Mount, NEW s \in Slot, NEW j \in Job, Step(m, s, j),
         UNCHANGED <<queue, told, cleared>>, RowsSound',
         \A c \in Capture :
           /\ ins[c].status = "completed" => ins'[c].status = "completed"
           /\ ins[c].copies = 1 => ins'[c].copies = 1,
         j.phase \in Working => j.capture \in Capture,
         j.phase \in {"evidence", "finalize"} => ins'[j.capture].copies = 1,
         j.phase = "remove" => ins'[j.capture].status = "completed",
         j.phase \in {"lookup", "mark"} => j.why # "none",
         s = "submit" =>
           /\ j.phase \in Requests \cup {"idle", "store"}
           /\ j.phase # "idle" =>
                job[m][s].phase # "idle" /\ j.capture = job[m][s].capture,
         s = "flush" =>
           /\ j.phase # "store"
           /\ j.phase \in Working => told[j.capture] = "queued"
           /\ \A c \in j.list : told[c] = "queued"
  PROVE  QueueInv'
BY JobAndQueue DEF QueueInv, QueueSound

\* A submission ends with its report: the capture it is about was reported on by nobody
\* else, is not queued and is in no flush.
LEMMA Reported ==
  ASSUME QueueInv, NEW m \in Mount, job[m]["submit"].phase # "idle",
         NEW c, c = job[m]["submit"].capture, NEW x \in {"saved", "queued", "error"},
         Step(m, "submit", Idle), told' = [told EXCEPT ![c] = x],
         UNCHANGED cleared, RowsSound',
         \A d \in Capture :
           /\ ins[d].status = "completed" => ins'[d].status = "completed"
           /\ ins[d].copies = 1 => ins'[d].copies = 1,
         x = "saved" => ins'[c].status = "completed",
         IF x = "queued" THEN queue' = [queue EXCEPT ![c] = "fresh"] ELSE queue' = queue
  PROVE  QueueInv'
<1>0. c \in Capture /\ told[c] = "busy" /\ queue[c] = "absent"
  <2>1. job[m]["submit"].phase \in Working
    BY DEF QueueInv, SubmitsSound, Working
  <2>2. c \in Capture
    BY <2>1 DEF QueueInv, JobsSound, Slot
  <2>. QED
    BY <2>2 DEF QueueInv, SubmitsSound, QueueSound
<1>1. /\ job' \in JobTable /\ job'[m]["submit"] = Idle
      /\ \A n \in Mount, t \in Slot : n # m \/ t # "submit" => job'[n][t] = job[n][t]
  BY Stepped, IdleType DEF QueueInv, Slot
<1>2. told'[c] = x /\ \A d \in Capture \ {c} : told'[d] = told[d] /\ queue'[d] = queue[d]
  BY <1>0 DEF QueueInv, QueueSound
<1>3. JobsSound'
  <2>. SUFFICES ASSUME NEW n \in Mount, NEW t \in Slot
                PROVE  LET k == job'[n][t] IN
                       /\ k.phase \in Working => k.capture \in Capture
                       /\ k.phase \in {"evidence", "finalize"} => ins'[k.capture].copies = 1
                       /\ k.phase = "remove" => ins'[k.capture].status = "completed"
                       /\ k.phase \in {"lookup", "mark"} => k.why # "none"
    BY DEF JobsSound
  <2>1. CASE n = m /\ t = "submit"
    BY <1>1, <2>1, IdleType DEF Working, Requests
  <2>2. CASE n # m \/ t # "submit"
    <3>1. job'[n][t] = job[n][t]
      BY <1>1, <2>2
    <3>. QED
      BY <3>1 DEF QueueInv, JobsSound, Working, Requests
  <2>. QED
    BY <2>1, <2>2
<1>4. SubmitsSound'
  <2>1. \A n \in Mount : job'[n]["submit"].phase # "idle" =>
          n # m /\ job'[n]["submit"] = job[n]["submit"]
    BY <1>1, IdleType DEF Slot
  <2>2. \A n \in Mount : job'[n]["submit"].phase \in Requests \cup {"idle", "store"}
    BY <1>1, IdleType DEF Slot, QueueInv, SubmitsSound
  <2>3. ASSUME NEW n \in Mount, job'[n]["submit"].phase # "idle"
        PROVE  told'[job'[n]["submit"].capture] = "busy"
    <3>1. n # m /\ job'[n]["submit"] = job[n]["submit"]
      BY <2>1, <2>3
    <3>2. job[n]["submit"].capture # c /\ told[job[n]["submit"].capture] = "busy"
      BY <2>3, <3>1 DEF QueueInv, SubmitsSound
    <3>3. job[n]["submit"].capture \in Capture
      BY <2>3, <3>1 DEF QueueInv, SubmitsSound, JobsSound, Working, Slot
    <3>. QED
      BY <1>2, <3>1, <3>2, <3>3
  <2>. QED
    BY <2>1, <2>2, <2>3 DEF QueueInv, SubmitsSound
<1>5. FlushesSound'
  <2>. SUFFICES ASSUME NEW n \in Mount
                PROVE  LET j == job'[n]["flush"] IN
                       /\ j.phase # "store"
                       /\ j.phase \in Working => told'[j.capture] = "queued"
                       /\ \A d \in j.list : told'[d] = "queued"
    BY DEF FlushesSound
  <2>1. job'[n]["flush"] = job[n]["flush"] /\ job[n]["flush"] \in Job
    BY <1>1 DEF Slot, QueueInv, JobTable
  <2>2. /\ job[n]["flush"].phase # "store"
        /\ job[n]["flush"].phase \in Working =>
             /\ told[job[n]["flush"].capture] = "queued"
             /\ job[n]["flush"].capture \in Capture
        /\ \A d \in job[n]["flush"].list : told[d] = "queued" /\ d \in Capture
    BY <2>1 DEF QueueInv, FlushesSound, JobsSound, Slot, Job
  <2>. QED
    BY <1>0, <1>2, <2>1, <2>2
<1>6. QueueSound'
  BY <1>0, <1>2 DEF QueueInv, QueueSound, Told, Remark
<1>7. PromiseKept'
  <2>1. \A d \in Capture : ins'[d].copies <= 1
    BY DEF RowsSound
  <2>2. x = "queued" => queue'[c] # "absent"
    BY <1>0 DEF QueueInv, QueueSound
  <2>. QED
    BY <1>0, <1>2, <2>1, <2>2 DEF QueueInv, PromiseKept
<1>. QED
  BY <1>1, <1>3, <1>4, <1>5, <1>6, <1>7 DEF QueueInv

-----------------------------------------------------------------------------
(* What a request does on the server                                        *)

\* An accepted request leaves sound rows: it makes no second inspection of a capture,
\* takes no completed one back, and after finalizing the inspection is complete.
LEMMA EffectGrows ==
  ASSUME QueueInv, NEW m \in Mount, NEW s \in Slot,
         job[m][s].phase \in Requests, Accepted(job[m][s]),
         ins' = [ins EXCEPT ![job[m][s].capture] = Effect(job[m][s])]
  PROVE  /\ job[m][s].capture \in Capture
         /\ RowsSound'
         /\ \A c \in Capture :
              /\ ins[c].status = "completed" => ins'[c].status = "completed"
              /\ ins[c].copies = 1 => ins'[c].copies = 1
         /\ ins'[job[m][s].capture].copies = 1
         /\ job[m][s].phase = "finalize" => ins'[job[m][s].capture].status = "completed"
         /\ Effect(job[m][s]).version \in Nat
<1>. DEFINE j == job[m][s]
            c == j.capture
            InsRow == [status : {"absent", "draft", "completed"}, version : 0 .. 3,
                       copies : 0 .. 1]
            RowSound(r) == /\ r \in InsRow
                           /\ r.status = "absent" => r.copies = 0 /\ r.version = 0
                           /\ r.status # "absent" => r.copies = 1
                           /\ r.status = "draft" => r.version \in 1 .. 2
<1>0. c \in Capture /\ (j.phase \in {"evidence", "finalize"} => ins[c].copies = 1)
  BY DEF QueueInv, JobsSound, Working
<1>1. RowSound(ins[c]) /\ ins \in [Capture -> InsRow]
  BY <1>0 DEF QueueInv, RowsSound
<1>2. /\ RowSound(Effect(j))
      /\ ins[c].status = "completed" => Effect(j).status = "completed"
      /\ Effect(j).copies = 1
      /\ j.phase = "finalize" => Effect(j).status = "completed"
  <2>1. CASE j.phase = "save" /\ c \in Update
    <3>1. Effect(j) = [ins[c] EXCEPT !.version = @ + 1]
      BY <2>1 DEF Effect, Saved
    <3>2. ins[c].status = "draft" /\ ins[c].version = 1
      BY <2>1 DEF Accepted, SaveAccepted
    <3>. QED
      BY <1>1, <2>1, <3>1, <3>2
  <2>2. CASE j.phase = "save" /\ c \notin Update
    <3>1. Effect(j) = IF ins[c].copies > 0 THEN ins[c]
                      ELSE [status |-> "draft", version |-> 1, copies |-> 1]
      BY <2>2 DEF Effect, Saved, Created
    <3>2. CASE ins[c].copies > 0
      <4>1. Effect(j) = ins[c]
        BY <3>1, <3>2
      <4>2. ins[c].copies = 1
        BY <1>1, <3>2
      <4>. QED
        BY <1>1, <2>2, <4>1, <4>2
    <3>3. CASE ~(ins[c].copies > 0)
      <4>1. Effect(j) = [status |-> "draft", version |-> 1, copies |-> 1]
        BY <3>1, <3>3
      <4>2. ins[c].status = "absent"
        BY <1>1, <3>3
      <4>. QED
        BY <2>2, <4>1, <4>2
    <3>. QED
      BY <3>2, <3>3
  <2>3. CASE j.phase = "evidence"
    <3>1. Effect(j) = ins[c]
      BY <2>3 DEF Effect
    <3>. QED
      BY <1>0, <1>1, <2>3, <3>1
  <2>4. CASE j.phase = "finalize"
    <3>1. Effect(j) = IF ins[c].status = "completed" THEN ins[c]
                      ELSE [ins[c] EXCEPT !.status = "completed", !.version = @ + 1]
      BY <2>4 DEF Effect, Finalized
    <3>2. CASE ins[c].status = "completed"
      BY <1>0, <1>1, <2>4, <3>1, <3>2
    <3>3. CASE ins[c].status # "completed"
      <4>1. ins[c].status = "draft" /\ ins[c].version \in 1 .. 2
        BY <1>0, <1>1, <2>4, <3>3
      <4>2. Effect(j) = [status |-> "completed", version |-> ins[c].version + 1,
                         copies |-> ins[c].copies]
        BY <1>1, <3>1, <3>3
      <4>3. ins[c].copies = 1 /\ ins[c].version + 1 \in 0 .. 3
        BY <1>0, <2>4, <4>1
      <4>. QED
        BY <4>2, <4>3
    <3>. QED
      BY <3>2, <3>3
  <2>. QED
    BY <2>1, <2>2, <2>3, <2>4 DEF Requests
<1>. HIDE DEF j, c
<1>3. ins'[c] = Effect(j) /\ \A d \in Capture \ {c} : ins'[d] = ins[d]
  BY <1>0, <1>1 DEF j, c
<1>4. ins' \in [Capture -> InsRow]
  BY <1>0, <1>1, <1>2 DEF j, c
<1>5. RowsSound'
  BY <1>2, <1>3, <1>4 DEF QueueInv, RowsSound
<1>. QED
  BY <1>0, <1>2, <1>3, <1>5 DEF j, c

-----------------------------------------------------------------------------
(* One lemma per step                                                       *)

\* A capture is submitted once; until then nothing knows of it.
LEMMA SubmitKeeps ==
  ASSUME QueueInv, NEW m \in Mount, NEW c \in Capture, NEW online \in BOOLEAN,
         Submit(m, c, online)
  PROVE  QueueInv'
<1>. DEFINE j == Submission(c, IF online THEN "save" ELSE "store")
<1>1. /\ job[m]["submit"].phase = "idle" /\ told[c] = "nothing"
      /\ told' = [told EXCEPT ![c] = "busy"] /\ Step(m, "submit", j)
      /\ UNCHANGED <<queue, ins, cleared>>
  BY DEF Submit
<1>2. /\ j \in Job /\ j.phase \in {"save", "store"} /\ j.capture = c
  <2>1. c \in Nat
    BY QueueAssumption
  <2>. QED
    BY <2>1 DEF Submission, Idle, Job, Working, Requests
<1>. HIDE DEF j
<1>3. /\ job' \in JobTable /\ job'[m]["submit"] = j
      /\ \A n \in Mount, t \in Slot : n # m \/ t # "submit" => job'[n][t] = job[n][t]
  BY <1>1, <1>2, Stepped DEF QueueInv, Slot
<1>4. told'[c] = "busy" /\ \A d \in Capture \ {c} : told'[d] = told[d]
  BY <1>1 DEF QueueInv, QueueSound
<1>5. RowsSound' /\ JobsSound'
  <2>1. RowsSound'
    BY <1>1 DEF QueueInv, RowsSound
  <2>2. \A n \in Mount, t \in Slot :
          \/ job'[n][t] = job[n][t]
          \/ job'[n][t].phase \in {"save", "store"} /\ job'[n][t].capture \in Capture
    BY <1>2, <1>3
  <2>. QED
    BY <1>1, <2>1, <2>2 DEF QueueInv, JobsSound
<1>6. SubmitsSound'
  <2>1. \A n \in Mount \ {m} : job'[n]["submit"] = job[n]["submit"]
    BY <1>3 DEF Slot
  <2>2. \A n \in Mount \ {m} : job[n]["submit"].phase # "idle" =>
          /\ job[n]["submit"].capture \in Capture \ {c}
          /\ told'[job[n]["submit"].capture] = "busy"
    <3>. SUFFICES ASSUME NEW n \in Mount \ {m}, job[n]["submit"].phase # "idle"
                  PROVE  /\ job[n]["submit"].capture \in Capture \ {c}
                         /\ told'[job[n]["submit"].capture] = "busy"
      OBVIOUS
    <3>1. told[job[n]["submit"].capture] = "busy" /\ job[n]["submit"].capture \in Capture
      BY DEF QueueInv, SubmitsSound, JobsSound, Working, Slot
    <3>. QED
      BY <1>1, <1>4, <3>1
  <2>. QED
    BY <1>2, <1>3, <1>4, <2>1, <2>2 DEF QueueInv, SubmitsSound, Requests
<1>7. FlushesSound'
  <2>. SUFFICES ASSUME NEW n \in Mount
                PROVE  LET k == job'[n]["flush"] IN
                       /\ k.phase # "store"
                       /\ k.phase \in Working => told'[k.capture] = "queued"
                       /\ \A d \in k.list : told'[d] = "queued"
    BY DEF FlushesSound
  <2>1. job'[n]["flush"] = job[n]["flush"] /\ job[n]["flush"] \in Job
    BY <1>3 DEF Slot, QueueInv, JobTable
  <2>2. /\ job[n]["flush"].phase # "store"
        /\ job[n]["flush"].phase \in Working =>
             /\ told[job[n]["flush"].capture] = "queued"
             /\ job[n]["flush"].capture \in Capture
        /\ \A d \in job[n]["flush"].list : told[d] = "queued" /\ d \in Capture
    BY <2>1 DEF QueueInv, FlushesSound, JobsSound, Slot, Job
  <2>. QED
    BY <1>1, <1>4, <2>1, <2>2
<1>8. QueueSound'
  BY <1>1, <1>4 DEF QueueInv, QueueSound, Told
<1>9. PromiseKept'
  BY <1>1, <1>4 DEF QueueInv, PromiseKept
<1>. QED
  BY <1>3, <1>5, <1>6, <1>7, <1>8, <1>9 DEF QueueInv

\* A flush lists what is queued and takes one item after the other.
LEMMA FlushStepKeeps ==
  ASSUME QueueInv, NEW m \in Mount,
         (\E force \in BOOLEAN : StartFlush(m, force)) \/ NextItem(m) \/ LookUp(m)
  PROVE  QueueInv'
<1>. DEFINE j == job[m]["flush"]
<1>0. /\ UNCHANGED <<queue, told, cleared, ins>> /\ RowsSound' /\ j \in Job
      /\ "flush" \in Slot /\ "flush" # "submit"
  BY DEF StartFlush, NextItem, LookUp, QueueInv, RowsSound, JobTable, Slot
<1>1. /\ \A c \in j.list : told[c] = "queued"
      /\ j.phase \in Working => told[j.capture] = "queued" /\ j.capture \in Capture
      /\ j.phase \in {"lookup", "mark"} => j.why # "none"
  BY DEF QueueInv, FlushesSound, JobsSound, Slot
<1>2. ASSUME NEW force \in BOOLEAN, StartFlush(m, force) PROVE QueueInv'
  <2>1. PICK items \in SUBSET Queued :
          Step(m, "flush", [Idle EXCEPT !.phase = "next", !.force = force, !.list = items])
    BY <1>2 DEF StartFlush
  <2>. DEFINE k == [Idle EXCEPT !.phase = "next", !.force = force, !.list = items]
  <2>2. k \in Job /\ k.phase = "next" /\ k.list = items
    BY DEF Idle, Job, Queued
  <2>. HIDE DEF k
  <2>3. \A c \in items : told[c] = "queued"
    BY DEF QueueInv, QueueSound, Queued
  <2>4. Step(m, "flush", k)
    BY <2>1 DEF k
  <2>. QED
    BY <1>0, <2>2, <2>3, <2>4, JobReplaced DEF Working, Requests
<1>3. CASE NextItem(m)
  <2>1. CASE Step(m, "flush", Idle)
    BY <1>0, <2>1, IdleType, JobReplaced DEF Working, Requests
  <2>2. ASSUME NEW c \in j.list,
               Step(m, "flush", [j EXCEPT !.phase = "save", !.capture = c, !.list = @ \ {c}])
        PROVE  QueueInv'
    <3>. DEFINE k == [j EXCEPT !.phase = "save", !.capture = c, !.list = @ \ {c}]
    <3>1. /\ k \in Job /\ k.phase = "save" /\ k.capture = c /\ k.list \subseteq j.list
          /\ c \in Capture
      <4>1. c \in Capture /\ c \in Nat
        BY <1>0, QueueAssumption DEF Job
      <4>. QED
        BY <1>0, <4>1 DEF Job, Working, Requests
    <3>2. Step(m, "flush", k)
      BY <2>2
    <3>. HIDE DEF k, j
    <3>. QED
      BY <1>0, <1>1, <2>2, <3>1, <3>2, JobReplaced
  <2>. QED
    BY <1>3, <2>1, <2>2 DEF NextItem
<1>4. CASE LookUp(m)
  <2>1. CASE Step(m, "flush", Idle)
    BY <1>0, <2>1, IdleType, JobReplaced DEF Working, Requests
  <2>2. CASE j.phase = "lookup" /\ Step(m, "flush", [j EXCEPT !.phase = "mark"])
    <3>. DEFINE k == [j EXCEPT !.phase = "mark"]
    <3>1. /\ k \in Job /\ k.phase = "mark" /\ k.capture = j.capture /\ k.list = j.list
          /\ k.why = j.why
      BY <1>0 DEF Job, Working
    <3>2. Step(m, "flush", k) /\ j.phase \in Working /\ j.phase \in {"lookup", "mark"}
      BY <2>2 DEF Working
    <3>. HIDE DEF k, j
    <3>. QED
      BY <1>0, <1>1, <3>1, <3>2, JobReplaced
  <2>. QED
    BY <1>4, <2>1, <2>2 DEF LookUp
<1>. QED
  BY <1>2, <1>3, <1>4

\* A job after an answer that is no error.
LEMMA AnsweredType ==
  ASSUME NEW j \in Job, NEW s \in Slot, j.phase \in Requests, Effect(j).version \in Nat
  PROVE  LET k == AfterAnswer(s, j) IN
         /\ k \in Job
         /\ \/ j.phase = "finalize" /\ s = "submit" /\ k = Idle
            \/ /\ k.capture = j.capture /\ k.list = j.list
               /\ \/ k.phase \in {"evidence", "finalize"}
                  \/ k.phase = "remove" /\ j.phase = "finalize" /\ s = "flush"
<1>1. CASE j.phase = "save"
  BY <1>1 DEF AfterAnswer, Job, Working, Requests
<1>2. CASE j.phase = "evidence"
  BY <1>2 DEF AfterAnswer, Job, Working, Requests
<1>3. CASE j.phase = "finalize" /\ s = "flush"
  BY <1>3 DEF AfterAnswer, Job, Working, Requests
<1>4. CASE j.phase = "finalize" /\ s = "submit"
  <2>1. AfterAnswer(s, j) = Idle
    BY <1>4 DEF AfterAnswer
  <2>. QED
    BY <1>4, <2>1, IdleType
<1>. QED
  BY <1>1, <1>2, <1>3, <1>4 DEF Requests, Slot

\* A job after an error.
LEMMA ErroredType ==
  ASSUME NEW j \in Job, NEW s \in Slot, j.phase \in Requests,
         NEW why \in {"retryable", "blocked"}, NEW online \in BOOLEAN
  PROVE  LET k == AfterError(s, j, why, online)
             kept == why = "retryable" \/ ~online
         IN
         /\ k \in Job
         /\ s = "submit" /\ ~kept => k = Idle
         /\ s = "submit" /\ kept => k.phase = "store" /\ k.capture = j.capture
         /\ s = "flush" => /\ k.phase = "lookup" /\ k.why = why
                           /\ k.capture = j.capture /\ k.list = j.list
<1>1. CASE s = "submit" /\ ~(why = "retryable" \/ ~online)
  BY <1>1, IdleType DEF AfterError
<1>2. CASE s = "submit" /\ (why = "retryable" \/ ~online)
  BY <1>2 DEF AfterError, Job, Working
<1>3. CASE s = "flush"
  BY <1>3 DEF AfterError, Job, Working
<1>. QED
  BY <1>1, <1>2, <1>3 DEF Slot

\* A request that fails: a submission reports the error or turns to the queue, a flush
\* goes on to record the error.
LEMMA ErrorKeeps ==
  ASSUME QueueInv, NEW m \in Mount, NEW s \in Slot, job[m][s].phase \in Requests,
         NEW why \in {"retryable", "blocked"}, NEW online \in BOOLEAN, Fails(m, s, why, online),
         UNCHANGED <<queue, cleared>>, RowsSound',
         \A c \in Capture :
           /\ ins[c].status = "completed" => ins'[c].status = "completed"
           /\ ins[c].copies = 1 => ins'[c].copies = 1
  PROVE  QueueInv'
<1>. DEFINE j == job[m][s]
            k == AfterError(s, j, why, online)
            kept == why = "retryable" \/ ~online
<1>0. j \in Job /\ j.phase \in Working /\ j.capture \in Capture
  BY DEF QueueInv, JobTable, JobsSound, Working
<1>1. /\ k \in Job
      /\ s = "submit" /\ ~kept => k = Idle
      /\ s = "submit" /\ kept => k.phase = "store" /\ k.capture = j.capture
      /\ s = "flush" => /\ k.phase = "lookup" /\ k.why = why
                        /\ k.capture = j.capture /\ k.list = j.list
  BY <1>0, ErroredType
<1>2. Step(m, s, k) /\ j.phase # "idle"
  BY DEF Requests, Fails
<1>a. told' = IF s = "submit" /\ k.phase # "store"
              THEN [told EXCEPT ![j.capture] = "error"] ELSE told
  BY DEF Fails
<1>3. CASE s = "submit" /\ ~kept
  <2>1. Step(m, "submit", Idle)
    BY <1>1, <1>2, <1>3
  <2>2. told' = [told EXCEPT ![job[m]["submit"].capture] = "error"]
    BY <1>1, <1>3, <1>a, IdleType
  <2>. QED
    BY <1>2, <1>3, <2>1, <2>2, Reported
<1>4. CASE s = "submit" /\ kept
  <2>1. k.phase = "store" /\ k.capture = j.capture /\ UNCHANGED told
    BY <1>1, <1>4, <1>a
  <2>. HIDE DEF k
  <2>. QED
    BY <1>0, <1>1, <1>2, <1>4, <2>1, JobReplaced DEF Requests
<1>5. CASE s = "flush"
  <2>1. /\ k.phase = "lookup" /\ k.why # "none" /\ k.capture = j.capture /\ k.list = j.list
        /\ UNCHANGED told
    BY <1>1, <1>5, <1>a
  <2>2. told[j.capture] = "queued" /\ \A c \in j.list : told[c] = "queued"
    BY <1>0, <1>5 DEF QueueInv, FlushesSound
  <2>. HIDE DEF k
  <2>. QED
    BY <1>0, <1>1, <1>2, <1>5, <2>1, <2>2, JobReplaced
<1>. QED
  BY <1>3, <1>4, <1>5 DEF Slot

\* A request that is answered.
LEMMA AnswerKeeps ==
  ASSUME QueueInv, NEW m \in Mount, NEW s \in Slot, NEW online \in BOOLEAN,
         Answer(m, s, online)
  PROVE  QueueInv'
<1>. DEFINE j == job[m][s]
            k == AfterAnswer(s, j)
<1>0. j \in Job /\ j.phase \in Requests /\ UNCHANGED <<queue, cleared>>
  BY DEF QueueInv, JobTable, Answer
<1>1. CASE ~Accepted(j)
  <2>1. Fails(m, s, "blocked", online) /\ ins' = ins
    BY <1>1 DEF Answer
  <2>2. RowsSound'
    BY <2>1 DEF QueueInv, RowsSound
  <2>. QED
    BY <1>0, <2>1, <2>2, ErrorKeeps
<1>2. CASE Accepted(j)
  <2>1. ins' = [ins EXCEPT ![j.capture] = Effect(j)] /\ Step(m, s, k)
    BY <1>2 DEF Answer
  <2>2. told' = IF s = "submit" /\ j.phase = "finalize"
                THEN [told EXCEPT ![j.capture] = "saved"] ELSE told
    BY <1>2 DEF Answer
  <2>3. /\ j.capture \in Capture /\ RowsSound'
        /\ \A c \in Capture :
             /\ ins[c].status = "completed" => ins'[c].status = "completed"
             /\ ins[c].copies = 1 => ins'[c].copies = 1
        /\ ins'[j.capture].copies = 1
        /\ j.phase = "finalize" => ins'[j.capture].status = "completed"
        /\ Effect(j).version \in Nat
    BY <1>0, <1>2, <2>1, EffectGrows
  <2>4. /\ k \in Job
        /\ \/ j.phase = "finalize" /\ s = "submit" /\ k = Idle
           \/ /\ k.capture = j.capture /\ k.list = j.list
              /\ \/ k.phase \in {"evidence", "finalize"}
                 \/ k.phase = "remove" /\ j.phase = "finalize" /\ s = "flush"
    BY <1>0, <2>3, AnsweredType
  <2>5. CASE j.phase = "finalize" /\ s = "submit"
    <3>1. k = Idle
      BY <2>5 DEF AfterAnswer
    <3>2. Step(m, "submit", Idle) /\ told' = [told EXCEPT ![job[m]["submit"].capture] = "saved"]
      BY <2>1, <2>2, <2>5, <3>1
    <3>. QED
      BY <1>0, <2>3, <2>5, <3>2, Reported
  <2>6. CASE ~(j.phase = "finalize" /\ s = "submit")
    <3>1. UNCHANGED told
      BY <2>2, <2>6
    <3>2. s = "flush" => told[j.capture] = "queued" /\ \A c \in j.list : told[c] = "queued"
      BY <1>0 DEF QueueInv, FlushesSound, Working
    <3>3. /\ k.capture = j.capture /\ k.list = j.list
          /\ k.phase \in {"evidence", "finalize", "remove"}
          /\ k.phase = "remove" => j.phase = "finalize" /\ s = "flush"
      BY <2>4, <2>6
    <3>4. j.phase # "idle"
      BY <1>0 DEF Requests
    <3>. HIDE DEF k
    <3>. QED
      BY <1>0, <2>1, <2>3, <2>4, <3>1, <3>2, <3>3, <3>4, JobReplaced DEF Requests, Slot
  <2>. QED
    BY <2>5, <2>6
<1>. QED
  BY <1>1, <1>2

\* A request that is lost, or whose answer is, or that the server fails.
LEMMA FaultKeeps ==
  ASSUME QueueInv, NEW m \in Mount, NEW s \in Slot, NEW reached \in BOOLEAN, NEW error,
         NEW online \in BOOLEAN, Fault(m, s, reached, error, online)
  PROVE  QueueInv'
<1>. DEFINE j == job[m][s]
<1>0. j.phase \in Requests /\ UNCHANGED <<queue, cleared>> /\ (reached => Accepted(j))
  BY DEF Fault
<1>1. PICK why \in {"retryable", "blocked"} : Fails(m, s, why, online)
  BY DEF Fault
<1>2. /\ RowsSound'
      /\ \A c \in Capture :
           /\ ins[c].status = "completed" => ins'[c].status = "completed"
           /\ ins[c].copies = 1 => ins'[c].copies = 1
  <2>1. CASE reached
    <3>1. ins' = [ins EXCEPT ![j.capture] = Effect(j)]
      BY <2>1 DEF Fault
    <3>. QED
      BY <1>0, <2>1, <3>1, EffectGrows
  <2>2. CASE ~reached
    BY <2>2 DEF Fault, QueueInv, RowsSound
  <2>. QED
    BY <2>1, <2>2
<1>. QED
  BY <1>0, <1>1, <1>2, ErrorKeeps

\* The capture is queued and the submission says so.
LEMMA CaptureStoreKeeps ==
  ASSUME QueueInv, NEW m \in Mount, Store(m)
  PROVE  QueueInv'
<1>1. /\ job[m]["submit"].phase = "store" /\ Step(m, "submit", Idle)
      /\ queue' = [queue EXCEPT ![job[m]["submit"].capture] = "fresh"]
      /\ told' = [told EXCEPT ![job[m]["submit"].capture] = "queued"]
      /\ UNCHANGED <<ins, cleared>>
  BY DEF Store
<1>2. RowsSound'
  BY <1>1 DEF QueueInv, RowsSound
<1>. QED
  BY <1>1, <1>2, Reported

\* An item is removed, or marked with the error of its last attempt.
LEMMA ItemWritten ==
  ASSUME QueueInv, NEW m \in Mount, RemoveItem(m) \/ Mark(m)
  PROVE  QueueInv'
<1>. DEFINE j == job[m]["flush"]
            c == j.capture
<1>0. UNCHANGED <<told, cleared, ins>> /\ RowsSound' /\ j \in Job /\ "flush" \in Slot
  BY DEF RemoveItem, Mark, QueueInv, RowsSound, JobTable, Slot
<1>1. j.phase \in {"remove", "mark"}
  BY DEF RemoveItem, Mark
<1>2. /\ c \in Capture /\ told[c] = "queued" /\ \A d \in j.list : told[d] = "queued"
      /\ j.phase = "remove" => ins[c].status = "completed"
      /\ j.phase = "mark" => j.why # "none"
  BY <1>0, <1>1 DEF QueueInv, JobsSound, FlushesSound, Working
<1>3. PICK x \in Remark : /\ queue' = [queue EXCEPT ![c] = x]
                          /\ x = "absent" => ins[c].status = "completed"
  <2>1. CASE RemoveItem(m)
    BY <1>2, <2>1 DEF RemoveItem, Remark
  <2>2. CASE Mark(m)
    <3>1. j.why \in {"retryable", "blocked"}
      BY <1>0, <1>2, <2>2 DEF Mark, Job
    <3>. QED
      BY <2>2, <3>1 DEF Mark, Remark
  <2>. QED
    BY <2>1, <2>2
<1>4. PICK k \in Job : /\ Step(m, "flush", k) /\ k.phase \in {"next", "idle"}
                       /\ k.list \subseteq j.list
  <2>1. CASE RemoveItem(m)
    <3>1. [j EXCEPT !.phase = "next"] \in Job
      BY <1>0 DEF Job
    <3>2. [j EXCEPT !.phase = "next"].phase = "next" /\ [j EXCEPT !.phase = "next"].list = j.list
      BY <1>0 DEF Job
    <3>. QED
      BY <2>1, <3>1, <3>2 DEF RemoveItem
  <2>2. CASE Mark(m)
    BY <2>2, IdleType DEF Mark
  <2>. QED
    BY <2>1, <2>2
<1>5. /\ queue' \in [Capture -> Remark]
      /\ queue'[c] = x /\ \A d \in Capture \ {c} : queue'[d] = queue[d]
  <2>1. queue \in [Capture -> Remark]
    BY DEF QueueInv, QueueSound
  <2>. HIDE DEF c, j
  <2>2. c \in Capture /\ queue' = [queue EXCEPT ![c] = x]
    BY <1>2, <1>3
  <2>3. queue' \in [Capture -> Remark]
    BY <2>1, <2>2
  <2>4. queue'[c] = x
    BY <2>1, <2>2
  <2>5. \A d \in Capture \ {c} : queue'[d] = queue[d]
    BY <2>1, <2>2
  <2>. QED
    BY <2>3, <2>4, <2>5
<1>6. \A d \in Capture :
        /\ queue[d] # "absent" => queue'[d] # "absent" \/ ins'[d].status = "completed"
        /\ queue'[d] # "absent" => told[d] = "queued"
  BY <1>0, <1>2, <1>3, <1>5 DEF QueueInv, QueueSound
<1>7. \A d \in k.list : told[d] = "queued"
  BY <1>2, <1>4
<1>8. k.phase \notin Working
  BY <1>4 DEF Working, Requests
<1>. HIDE DEF j, c
<1>. QED
  BY <1>0, <1>4, <1>5, <1>6, <1>7, <1>8, JobAndQueue DEF Working, Requests

\* Signing out deletes the owner's captures, and remembers that it did.
LEMMA ClearKeeps == QueueInv /\ ClearOwner => QueueInv'
<1>. SUFFICES ASSUME QueueInv, ClearOwner PROVE QueueInv'
  OBVIOUS
<1>1. /\ UNCHANGED <<ins, job, told>> /\ cleared' = cleared \cup Queued
      /\ queue' = [c \in Capture |-> "absent"]
  BY DEF ClearOwner
<1>2. job' \in JobTable /\ RowsSound' /\ JobsSound' /\ SubmitsSound' /\ FlushesSound'
  BY <1>1 DEF QueueInv, RowsSound, JobsSound, SubmitsSound, FlushesSound
<1>3. QueueSound'
  BY <1>1 DEF QueueInv, QueueSound, Queued, Remark
<1>4. PromiseKept'
  BY <1>1 DEF QueueInv, PromiseKept, Queued
<1>. QED
  BY <1>2, <1>3, <1>4 DEF QueueInv

\* What does not touch captures, jobs and rows keeps everything.
LEMMA ElsewhereKeeps ==
  ASSUME QueueInv, UNCHANGED <<queue, ins, job, told, cleared>>
  PROVE  QueueInv'
BY DEF QueueInv, RowsSound, JobsSound, SubmitsSound, FlushesSound, QueueSound, PromiseKept

-----------------------------------------------------------------------------
(* Theorems                                                                 *)

\* Nothing is queued at the start; the server holds the drafts to be completed.
LEMMA InitQueue == QueueInit => QueueInv
<1>. SUFFICES ASSUME QueueInit PROVE QueueInv
  OBVIOUS
<1>1. job \in JobTable /\ \A m \in Mount, s \in Slot : job[m][s] = Idle
  BY IdleType DEF QueueInit, JobTable
<1>2. RowsSound
  <2>1. ins = [c \in Capture |->
                 IF c \in Update THEN [status |-> "draft", version |-> 1, copies |-> 1]
                 ELSE [status |-> "absent", version |-> 0, copies |-> 0]]
    BY DEF QueueInit
  <2>. QED
    BY <2>1 DEF RowsSound
<1>3. JobsSound
  BY <1>1, IdleType DEF JobsSound, Working, Requests
<1>4. SubmitsSound /\ FlushesSound
  BY <1>1, IdleType DEF SubmitsSound, FlushesSound, Working, Requests, Slot
<1>5. QueueSound
  BY DEF QueueInit, QueueSound, Remark, Told
<1>6. PromiseKept
  <2>1. \A c \in Capture : ins[c].copies <= 1
    BY <1>2 DEF RowsSound
  <2>. QED
    BY <2>1 DEF QueueInit, PromiseKept
<1>. QED
  BY <1>1, <1>2, <1>3, <1>4, <1>5, <1>6 DEF QueueInv

\* Every step keeps the invariant.
LEMMA NextQueue == QueueInv /\ [QueueNext]_queueVars => QueueInv'
<1>. SUFFICES ASSUME QueueInv, [QueueNext]_queueVars PROVE QueueInv'
  OBVIOUS
<1>1. ASSUME NEW m \in Mount,
             \/ \E c \in Capture, online \in BOOLEAN : Submit(m, c, online)
             \/ \E force \in BOOLEAN : StartFlush(m, force)
             \/ NextItem(m) \/ RemoveItem(m) \/ LookUp(m) \/ Mark(m) \/ Store(m)
      PROVE  QueueInv'
  BY <1>1, SubmitKeeps, FlushStepKeeps, ItemWritten, CaptureStoreKeeps
<1>2. ASSUME NEW m \in Mount, NEW s \in Slot, NEW online \in BOOLEAN, Answer(m, s, online)
      PROVE  QueueInv'
  BY <1>2, AnswerKeeps
<1>3. ASSUME NEW m \in Mount, NEW s \in Slot, NEW reached \in BOOLEAN,
             NEW error \in {"network", "server", "refused"}, NEW online \in BOOLEAN,
             Fault(m, s, reached, error, online)
      PROVE  QueueInv'
  BY <1>3, FaultKeeps
<1>4. CASE \/ \E m \in Mount : SignIn(m)
           \/ Cancel \/ SignOut \/ \E heard \in BOOLEAN : RemoteLogout(heard)
           \/ UNCHANGED queueVars
  BY <1>4, ElsewhereKeeps DEF SignIn, Cancel, SignOut, RemoteLogout, queueVars
<1>5. CASE ClearOwner
  BY <1>5, ClearKeeps
<1>. QED
  BY <1>1, <1>2, <1>3, <1>4, <1>5 DEF QueueNext

\* Whatever tabs, lost answers, retries and sign-outs there are, a capture that was
\* reported as saved or queued is complete, queued, or was deleted by a sign-out, and it
\* is one inspection on the server.
THEOREM PromiseKeptAlways == QueueSpec => []PromiseKept
<1>1. QueueInv => PromiseKept
  BY DEF QueueInv
<1>. QED
  BY <1>1, InitQueue, NextQueue, PTL DEF QueueSpec

\* Type correctness of the queue.
THEOREM QueueTypeCorrect == QueueSpec => []QueueTypeOK
<1>1. QueueInv => QueueTypeOK
  <2>. SUFFICES ASSUME QueueInv PROVE QueueTypeOK
    OBVIOUS
  <2>1. \A c \in Capture :
          ins[c].version \in 0 .. 3 /\ ins[c].status \in {"absent", "draft", "completed"}
    BY DEF QueueInv, RowsSound
  <2>2. \A m \in Mount :
          job[m]["flush"].phase \in Requests \cup {"remove", "lookup", "mark"} =>
            told[job[m]["flush"].capture] = "queued"
    BY DEF QueueInv, FlushesSound, Working
  <2>. QED
    BY <2>1, <2>2 DEF QueueInv, QueueSound, QueueTypeOK, Remark, Told
<1>. QED
  BY <1>1, InitQueue, NextQueue, PTL DEF QueueSpec

-----------------------------------------------------------------------------
(* The store                                                                *)

\* The store as it is explored behaves as its workspace and as its queue: whichever half
\* moves, the other one stays as it is. What is proved of a half holds of the store.
THEOREM StoreImplementsHalves == Spec => SyncSpec /\ QueueSpec
<1>1. Init => SyncInit /\ QueueInit
  BY DEF Init
<1>2. [Next]_<<syncVars, queueVars, half>> => [SyncNext]_syncVars /\ [QueueNext]_queueVars
  BY DEF Next
<1>. QED
  BY <1>1, <1>2, PTL DEF Spec, SyncSpec, QueueSpec

\* The rows, cursors, forms and polls of the workspace and the captures, requests and
\* notices of the queue hold values of their kinds, whatever instance is explored.
THEOREM StoreTypeCorrect == Spec => []StoreTypeOK
<1>1. SyncTypeOK /\ QueueTypeOK => StoreTypeOK
  BY DEF StoreTypeOK
<1>. QED
  BY <1>1, StoreImplementsHalves, SyncTypeCorrect, QueueTypeCorrect, PTL

=============================================================================

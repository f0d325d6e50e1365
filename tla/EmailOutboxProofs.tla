-------------------------- MODULE EmailOutboxProofs --------------------------
(***************************************************************************)
(* Safety of the e-mail outbox for every number of rows, organizations and  *)
(* workers and every number of retries, copies and faults.                  *)
(***************************************************************************)
EXTENDS EmailOutbox, FiniteSetTheorems, TLAPS

-----------------------------------------------------------------------------
(* The inductive invariant                                                  *)

\* Only committed rows have messages in the broker: a task is published after the commit.
Messaged ==
  \A r \in Row, n \in 0 .. MaxRetries : messages[r][n] > 0 => r \in Existing

\* The lock of the organization: one delivery at a time.
Exclusive ==
  \A w, v \in Worker :
    /\ worker[w].phase \in InTransaction /\ worker[v].phase \in InTransaction
    /\ OrgOf[worker[w].row] = OrgOf[worker[v].row]
    => w = v

\* A worker about to mark its row sent has the provider's acceptance, and one about to
\* publish a retry has a retry left.
Earned ==
  \A w \in Worker :
    /\ worker[w].phase = "accepted" => worker[w].row \in delivered
    /\ worker[w].phase = "retrying" => worker[w].retries < MaxRetries

OutboxInv ==
  TypeOK /\ Messaged /\ Exclusive /\ Earned /\ SentOnceAndErased /\ SuspendedIsSilent

MessageTable == [Row -> [0 .. MaxRetries -> 0 .. MaxCopies]]
WorkerTable == [Worker -> [phase : Phase, row : Row \cup {NoRow}, retries : 0 .. MaxRetries]]

-----------------------------------------------------------------------------
(* The broker                                                               *)

\* Publishing a message leaves a table of messages, with one row more at most.
LEMMA PutType ==
  ASSUME NEW m \in MessageTable, NEW r \in Row, NEW n \in 0 .. MaxRetries
  PROVE  /\ Put(m, r, n) \in MessageTable
         /\ \A p \in Row, k \in 0 .. MaxRetries :
              Put(m, r, n)[p][k] > 0 => m[p][k] > 0 \/ p = r
<1>. DEFINE x == IF m[r][n] < MaxCopies THEN m[r][n] + 1 ELSE m[r][n]
<1>1. m[r] \in [0 .. MaxRetries -> 0 .. MaxCopies] /\ x \in 0 .. MaxCopies
  BY OutboxAssumption DEF MessageTable
<1>2. Put(m, r, n) = [m EXCEPT ![r] = [m[r] EXCEPT ![n] = x]]
  BY <1>1 DEF Put, MessageTable
<1>. HIDE DEF x
<1>3. [m[r] EXCEPT ![n] = x] \in [0 .. MaxRetries -> 0 .. MaxCopies]
  BY <1>1
<1>4. Put(m, r, n) \in MessageTable
  BY <1>2, <1>3 DEF MessageTable
<1>5. \A p \in Row \ {r} : Put(m, r, n)[p] = m[p]
  BY <1>2 DEF MessageTable
<1>. QED
  BY <1>4, <1>5

\* So does publishing the messages of several rows.
LEMMA PutAllType ==
  ASSUME messages \in MessageTable, NEW rows \in SUBSET Row
  PROVE  /\ PutAll(rows) \in MessageTable
         /\ \A p \in Row, k \in 0 .. MaxRetries :
              PutAll(rows)[p][k] > 0 => messages[p][k] > 0 \/ p \in rows
<1>1. 0 \in 0 .. MaxRetries
  BY OutboxAssumption
<1>2. \A r \in Row : Put(messages, r, 0)[r] \in [0 .. MaxRetries -> 0 .. MaxCopies]
  BY <1>1, PutType DEF MessageTable
<1>. QED
  BY <1>2 DEF PutAll, MessageTable

\* Using up a bound.
LEMMA SpendType ==
  ASSUME spent \in [DOMAIN Bound -> Nat], NEW kinds, Spend(kinds)
  PROVE  spent' \in [DOMAIN Bound -> Nat]
BY DEF Spend

\* What a publication after the commit does to the broker, refused or not.
LEMMA PublishType ==
  ASSUME TypeOK, NEW rows \in SUBSET Row, NEW kinds, Publish(rows, kinds)
  PROVE  /\ messages' \in MessageTable
         /\ \A p \in Row, k \in 0 .. MaxRetries :
              messages'[p][k] > 0 => messages[p][k] > 0 \/ p \in rows
         /\ spent' \in [DOMAIN Bound -> Nat]
<1>0. messages \in MessageTable /\ spent \in [DOMAIN Bound -> Nat]
  BY DEF TypeOK, MessageTable
<1>1. PICK sent \in SUBSET rows : messages' = PutAll(sent)
  BY DEF Publish
<1>2. spent' \in [DOMAIN Bound -> Nat]
  BY <1>0, SpendType DEF Publish
<1>. QED
  BY <1>0, <1>1, <1>2, PutAllType

-----------------------------------------------------------------------------
(* Web transactions                                                         *)

\* queue_email adds pending rows and touches no other.
LEMMA QueueAdds ==
  ASSUME TypeOK, NEW o, NEW rows \in SUBSET Row, QueueEmails(o, rows)
  PROVE  /\ outbox' \in [Row -> {"absent", "pending", "sent", "failed"}]
         /\ stamp' \in [Row -> Nat]
         /\ Existing' = Existing \cup rows
         /\ \A r \in Row : outbox'[r] = "sent" => outbox[r] = "sent"
<1>1. outbox \in [Row -> {"absent", "pending", "sent", "failed"}] /\ stamp \in [Row -> Nat]
  BY DEF TypeOK
<1>2. Cardinality(Existing) \in Nat
  BY OutboxAssumption, FS_Subset, FS_CardinalityType DEF Existing
<1>. QED
  BY <1>1, <1>2 DEF QueueEmails, Existing

\* A transaction of the web application: it holds no delivery of its organization, so
\* whatever it makes of the organization's access stops none that is under way.
LEMMA WebKeeps ==
  ASSUME OutboxInv, NEW o \in Org, NEW rows \in SUBSET Row, QueueEmails(o, rows),
         NEW kinds, Publish(rows, kinds), UNCHANGED <<worker, delivered>>,
         access' \in [Org -> Access], \A p \in Org \ {o} : access'[p] = access[p]
  PROVE  OutboxInv'
<1>0. TypeOK /\ worker \in WorkerTable /\ delivered \subseteq Existing
  BY DEF OutboxInv, TypeOK, WorkerTable
<1>1. /\ outbox' \in [Row -> {"absent", "pending", "sent", "failed"}]
      /\ stamp' \in [Row -> Nat]
      /\ Existing' = Existing \cup rows
      /\ \A r \in Row : outbox'[r] = "sent" => outbox[r] = "sent"
  BY <1>0, QueueAdds
<1>2. /\ messages' \in MessageTable /\ spent' \in [DOMAIN Bound -> Nat]
      /\ \A p \in Row, k \in 0 .. MaxRetries :
           messages'[p][k] > 0 => messages[p][k] > 0 \/ p \in rows
  BY <1>0, PublishType
<1>3. TypeOK'
  BY <1>0, <1>1, <1>2 DEF OutboxInv, TypeOK, MessageTable, WorkerTable
<1>4. Messaged'
  BY <1>1, <1>2 DEF OutboxInv, Messaged
<1>5. Exclusive' /\ Earned'
  BY DEF OutboxInv, Exclusive, Earned
<1>6. SentOnceAndErased'
  BY <1>1 DEF OutboxInv, SentOnceAndErased
<1>7. SuspendedIsSilent'
  <2>. SUFFICES ASSUME NEW w \in Worker, worker[w].phase \in InTransaction
                PROVE  Admits(worker[w].row)'
    BY DEF SuspendedIsSilent
  <2>1. Admits(worker[w].row) /\ worker[w].row \in Row
    BY <1>0 DEF OutboxInv, SuspendedIsSilent, TypeOK, InTransaction, Existing
  <2>2. OrgOf[worker[w].row] \in Org \ {o}
    BY <2>1, OutboxAssumption DEF QueueEmails, Locked
  <2>. QED
    BY <2>1, <2>2 DEF Admits
<1>. QED
  BY <1>3, <1>4, <1>5, <1>6, <1>7 DEF OutboxInv

\* Notices and the changes of an organization's access are such transactions.
LEMMA WebNextKeeps == OutboxInv /\ WebNext => OutboxInv'
<1>. SUFFICES ASSUME OutboxInv, NEW o \in Org, NEW rows \in SUBSET Row,
                     Notify(o, rows) \/ Approve(o, rows) \/ Suspend(o, rows)
                       \/ Reactivate(o, rows)
              PROVE  OutboxInv'
  BY DEF WebNext
<1>0. access \in [Org -> Access]
  BY DEF OutboxInv, TypeOK
<1>1. CASE Notify(o, rows)
  BY <1>0, <1>1, WebKeeps DEF Notify
<1>2. ASSUME NEW from, NEW to \in Access, ChangeAccess(o, from, to, rows) PROVE OutboxInv'
  <2>1. access' \in [Org -> Access] /\ \A p \in Org \ {o} : access'[p] = access[p]
    BY <1>0, <1>2 DEF ChangeAccess
  <2>. QED
    BY <1>2, <2>1, WebKeeps DEF ChangeAccess
<1>. QED
  BY <1>1, <1>2 DEF Approve, Suspend, Reactivate, Access

-----------------------------------------------------------------------------
(* Workers                                                                  *)

\* A worker that moves on keeps its message.
LEMMA Moved ==
  ASSUME worker \in WorkerTable, NEW w \in Worker, NEW phase \in Phase, MoveTo(w, phase)
  PROVE  /\ worker' \in WorkerTable
         /\ worker'[w].phase = phase /\ worker'[w].row = worker[w].row
         /\ worker'[w].retries = worker[w].retries
         /\ \A v \in Worker \ {w} : worker'[v] = worker[v]
BY DEF MoveTo, WorkerTable

\* What a step of one worker leaves alone, and what it needs to keep the invariant when
\* the worker ends up outside a delivery.
LEMMA LeavesTransaction ==
  ASSUME OutboxInv, NEW w \in Worker, worker' \in WorkerTable, TypeOK', Messaged',
         \A v \in Worker \ {w} : worker'[v] = worker[v],
         worker'[w].phase \notin InTransaction,
         worker'[w].phase = "retrying" => worker'[w].retries < MaxRetries,
         UNCHANGED access, delivered \subseteq delivered',
         \A r \in Row : outbox'[r] = "sent" =>
           \/ outbox[r] = "sent"
           \/ /\ r \in delivered'
              /\ \A v \in Worker \ {w} : worker[v].row = r => worker[v].phase \notin InTransaction
  PROVE  OutboxInv'
<1>1. Exclusive'
  BY DEF OutboxInv, Exclusive
<1>2. Earned'
  BY DEF OutboxInv, Earned, InTransaction
<1>3. SentOnceAndErased'
  BY DEF OutboxInv, SentOnceAndErased
<1>4. SuspendedIsSilent'
  BY DEF OutboxInv, SuspendedIsSilent, Admits
<1>. QED
  BY <1>1, <1>2, <1>3, <1>4 DEF OutboxInv

\* The same for a worker that stays in its delivery.
LEMMA StaysInTransaction ==
  ASSUME OutboxInv, NEW w \in Worker, worker' \in WorkerTable, TypeOK', Messaged',
         \A v \in Worker \ {w} : worker'[v] = worker[v],
         worker[w].phase \in InTransaction, worker'[w].row = worker[w].row,
         worker'[w].phase \in InTransaction,
         worker'[w].phase = "accepted" => worker[w].row \in delivered',
         UNCHANGED <<access, outbox>>, delivered \subseteq delivered'
  PROVE  OutboxInv'
<1>1. Exclusive'
  BY DEF OutboxInv, Exclusive
<1>2. Earned'
  BY DEF OutboxInv, Earned, InTransaction
<1>3. SentOnceAndErased'
  BY DEF OutboxInv, SentOnceAndErased
<1>4. SuspendedIsSilent'
  BY DEF OutboxInv, SuspendedIsSilent, Admits
<1>. QED
  BY <1>1, <1>2, <1>3, <1>4 DEF OutboxInv

\* A worker takes a message; it waits for the locks.
LEMMA TakeKeeps ==
  ASSUME OutboxInv, NEW w \in Worker, NEW r \in Row, NEW n \in 0 .. MaxRetries, Take(w, r, n)
  PROVE  OutboxInv'
<1>0. TypeOK /\ worker \in WorkerTable /\ messages \in MessageTable
  BY DEF OutboxInv, TypeOK, WorkerTable, MessageTable
<1>1. /\ worker' = [worker EXCEPT ![w] = [phase |-> "waiting", row |-> r, retries |-> n]]
      /\ messages' = [messages EXCEPT ![r][n] = @ - 1]
      /\ messages[r][n] > 0 /\ UNCHANGED <<access, outbox, stamp, delivered, spent>>
  BY DEF Take, outside
<1>2. worker' \in WorkerTable /\ \A v \in Worker \ {w} : worker'[v] = worker[v]
  BY <1>0, <1>1 DEF WorkerTable, Phase
<1>3. worker'[w] = [phase |-> "waiting", row |-> r, retries |-> n]
  BY <1>0, <1>1 DEF WorkerTable
<1>4. /\ messages' \in MessageTable
      /\ \A p \in Row, k \in 0 .. MaxRetries : messages'[p][k] > 0 => messages[p][k] > 0
  BY <1>0, <1>1, OutboxAssumption DEF MessageTable
<1>5. r \in Existing /\ Existing' = Existing
  BY <1>1 DEF OutboxInv, Messaged, Existing
<1>6. TypeOK'
  BY <1>0, <1>1, <1>2, <1>3, <1>4, <1>5 DEF TypeOK, MessageTable, WorkerTable
<1>7. Messaged'
  BY <1>4, <1>5 DEF OutboxInv, Messaged
<1>8. worker'[w].phase = "waiting"
  BY <1>3
<1>. QED
  BY <1>1, <1>2, <1>6, <1>7, <1>8, LeavesTransaction DEF InTransaction

\* A delivery begins: a replay and a row that is not admitted end at once, any other row
\* holds its organization from here on.
LEMMA BeginKeeps ==
  ASSUME OutboxInv, NEW w \in Worker, Begin(w)
  PROVE  OutboxInv'
<1>. DEFINE r == worker[w].row
<1>0. TypeOK /\ worker \in WorkerTable
  BY DEF OutboxInv, TypeOK, WorkerTable
<1>1. /\ worker[w].phase = "waiting" /\ ~Locked(OrgOf[r])
      /\ UNCHANGED <<access, stamp, messages, delivered, spent>>
  BY DEF Begin
<1>2. r \in Existing /\ r \in Row
  BY <1>0, <1>1 DEF TypeOK, Existing
<1>3. \/ IsReplay(r) /\ MoveTo(w, "acking") /\ UNCHANGED outbox
      \/ ~IsReplay(r) /\ MoveTo(w, "acking") /\ outbox' = [outbox EXCEPT ![r] = "failed"]
      \/ ~IsReplay(r) /\ Admits(r) /\ MoveTo(w, "calling") /\ UNCHANGED outbox
  BY DEF Begin
<1>. HIDE DEF r
<1>4. CASE /\ MoveTo(w, "acking")
           /\ UNCHANGED outbox \/ outbox' = [outbox EXCEPT ![r] = "failed"]
  <2>1. /\ worker' \in WorkerTable /\ worker'[w].phase = "acking"
        /\ worker'[w].row = worker[w].row
        /\ \A v \in Worker \ {w} : worker'[v] = worker[v]
    BY <1>0, <1>4, Moved DEF Phase
  <2>2. /\ outbox' \in [Row -> {"absent", "pending", "sent", "failed"}]
        /\ \A p \in Row : outbox'[p] = "sent" => outbox[p] = "sent"
        /\ Existing' = Existing
    BY <1>0, <1>2, <1>4 DEF TypeOK, Existing
  <2>3. TypeOK'
    BY <1>0, <1>1, <1>2, <2>1, <2>2 DEF TypeOK, WorkerTable, r
  <2>4. Messaged'
    BY <1>1, <2>2 DEF OutboxInv, Messaged
  <2>. QED
    BY <1>1, <2>1, <2>2, <2>3, <2>4, LeavesTransaction DEF InTransaction
<1>5. CASE ~IsReplay(r) /\ Admits(r) /\ MoveTo(w, "calling") /\ UNCHANGED outbox
  <2>1. /\ worker' \in WorkerTable /\ worker'[w].phase = "calling"
        /\ worker'[w].row = r
        /\ \A v \in Worker \ {w} : worker'[v] = worker[v]
    BY <1>0, <1>5, Moved DEF Phase, InTransaction, r
  <2>2. Existing' = Existing
    BY <1>5 DEF Existing
  <2>3. TypeOK'
    BY <1>0, <1>1, <1>2, <1>5, <2>1, <2>2 DEF TypeOK, WorkerTable
  <2>4. Messaged'
    BY <1>1, <2>2 DEF OutboxInv, Messaged
  <2>5. Exclusive'
    BY <1>1, <2>1 DEF OutboxInv, Exclusive, Locked
  <2>6. Earned'
    BY <1>1, <2>1 DEF OutboxInv, Earned
  <2>7. SentOnceAndErased'
    BY <1>1, <1>5, <2>1 DEF OutboxInv, SentOnceAndErased, IsReplay
  <2>8. SuspendedIsSilent'
    BY <1>1, <1>5, <2>1 DEF OutboxInv, SuspendedIsSilent, Admits
  <2>. QED
    BY <2>3, <2>4, <2>5, <2>6, <2>7, <2>8 DEF OutboxInv
<1>. QED
  BY <1>3, <1>4, <1>5

\* The provider answers, or does not; the delivery goes on to its commit.
LEMMA AnswerKeeps ==
  ASSUME OutboxInv, NEW w \in Worker, Answer(w)
  PROVE  OutboxInv'
<1>0. TypeOK /\ worker \in WorkerTable
  BY DEF OutboxInv, TypeOK, WorkerTable
<1>1. PICK phase \in InTransaction :
        /\ worker[w].phase = "calling" /\ MoveTo(w, phase)
        /\ UNCHANGED <<outside, messages>>
        /\ delivered' = delivered \/ delivered' = delivered \cup {worker[w].row}
        /\ phase = "accepted" => delivered' = delivered \cup {worker[w].row}
        /\ spent' = spent \/ \E kind : Spend({kind})
  <2>1. CASE ProviderAccepts(w)
    BY <2>1 DEF ProviderAccepts, InTransaction
  <2>2. ASSUME NEW kind \in FailureKind, NEW wasAccepted \in BOOLEAN,
               ProviderFails(w, kind, wasAccepted)
        PROVE  /\ kind \in InTransaction /\ kind # "accepted"
               /\ worker[w].phase = "calling" /\ MoveTo(w, kind)
               /\ UNCHANGED <<outside, messages>>
               /\ delivered' = delivered \/ delivered' = delivered \cup {worker[w].row}
               /\ Spend({kind})
    BY <2>2, OutboxAssumption DEF ProviderFails, InTransaction
  <2>. QED
    BY <2>1, <2>2 DEF Answer
<1>2. spent' \in [DOMAIN Bound -> Nat]
  BY <1>0, <1>1, SpendType DEF TypeOK
<1>3. /\ worker' \in WorkerTable /\ worker'[w].phase = phase
      /\ worker'[w].row = worker[w].row
      /\ \A v \in Worker \ {w} : worker'[v] = worker[v]
  BY <1>0, <1>1, Moved DEF Phase
<1>4. Existing' = Existing /\ worker[w].row \in Existing
  BY <1>0, <1>1 DEF TypeOK, Existing, outside
<1>5. TypeOK'
  BY <1>0, <1>1, <1>2, <1>3, <1>4 DEF TypeOK, WorkerTable, outside
<1>6. Messaged'
  BY <1>1, <1>4 DEF OutboxInv, Messaged
<1>7. UNCHANGED <<access, outbox>> /\ worker[w].phase \in InTransaction
  BY <1>1 DEF outside, InTransaction
<1>. QED
  BY <1>1, <1>3, <1>5, <1>6, <1>7, StaysInTransaction

\* The commit: a row is marked sent by the one worker that holds its organization, and
\* the provider has its message.
LEMMA CommitKeeps ==
  ASSUME OutboxInv, NEW w \in Worker, Commit(w)
  PROVE  OutboxInv'
<1>. DEFINE r == worker[w].row
            ok == worker[w].phase = "accepted"
            again == worker[w].phase = "retryable" /\ RetriesLeft(w)
<1>0. TypeOK /\ worker \in WorkerTable
  BY DEF OutboxInv, TypeOK, WorkerTable
<1>1. /\ worker[w].phase \in InTransaction \ {"calling"}
      /\ outbox' = [outbox EXCEPT ![r] = IF ok THEN "sent" ELSE "failed"]
      /\ MoveTo(w, IF again THEN "retrying" ELSE "acking")
      /\ UNCHANGED <<access, stamp, messages, delivered, spent>>
  BY DEF Commit
<1>2. r \in Existing /\ r \in Row
  BY <1>0, <1>1 DEF TypeOK, Existing, InTransaction
<1>3. again => worker[w].retries < MaxRetries
  BY DEF RetriesLeft
<1>4. ok => r \in delivered
  BY DEF OutboxInv, Earned
<1>5. \A v \in Worker \ {w} : worker[v].row = r => worker[v].phase \notin InTransaction
  BY <1>1 DEF OutboxInv, Exclusive
<1>. HIDE DEF r, again
<1>6. PICK phase \in {"retrying", "acking"} :
        MoveTo(w, phase) /\ (phase = "retrying" => worker[w].retries < MaxRetries)
  BY <1>1, <1>3
<1>7. /\ worker' \in WorkerTable /\ worker'[w].phase = phase
      /\ worker'[w].row = r /\ worker'[w].retries = worker[w].retries
      /\ \A v \in Worker \ {w} : worker'[v] = worker[v]
  BY <1>0, <1>6, Moved DEF Phase, r
<1>8. /\ outbox' \in [Row -> {"absent", "pending", "sent", "failed"}]
      /\ Existing' = Existing
      /\ \A p \in Row : outbox'[p] = "sent" => outbox[p] = "sent" \/ (p = r /\ ok)
  <2>1. outbox \in [Row -> {"absent", "pending", "sent", "failed"}]
    BY <1>0 DEF TypeOK
  <2>2. PICK s \in {"sent", "failed"} :
          outbox' = [outbox EXCEPT ![r] = s] /\ (s = "sent" => ok)
    BY <1>1
  <2>3. outbox[r] # "absent"
    BY <1>2 DEF Existing
  <2>4. /\ outbox'[r] = s /\ \A p \in Row \ {r} : outbox'[p] = outbox[p]
        /\ outbox' \in [Row -> {"absent", "pending", "sent", "failed"}]
    BY <1>2, <2>1, <2>2
  <2>5. Existing' = Existing
    BY <1>2, <2>2, <2>3, <2>4 DEF Existing
  <2>. QED
    BY <2>2, <2>4, <2>5
<1>9. TypeOK'
  BY <1>0, <1>1, <1>2, <1>7, <1>8 DEF TypeOK, WorkerTable
<1>10. Messaged'
  BY <1>1, <1>8 DEF OutboxInv, Messaged
<1>11. worker'[w].phase \notin InTransaction
  BY <1>7 DEF InTransaction
<1>. QED
  BY <1>1, <1>4, <1>5, <1>6, <1>7, <1>8, <1>9, <1>10, <1>11, LeavesTransaction

\* Publishing a retry and acknowledging a message happen outside every transaction, and
\* so does what is left of a worker that crashed.
LEMMA SettleKeeps ==
  ASSUME OutboxInv, NEW w \in Worker, PublishRetry(w) \/ Acknowledge(w) \/ Crash(w)
  PROVE  OutboxInv'
<1>. DEFINE r == worker[w].row
            n == worker[w].retries
<1>0. /\ TypeOK /\ worker \in WorkerTable /\ messages \in MessageTable
      /\ spent \in [DOMAIN Bound -> Nat]
  BY DEF OutboxInv, TypeOK, WorkerTable, MessageTable
<1>1. worker[w].phase # "idle" /\ UNCHANGED <<access, outbox, stamp, delivered>>
  BY DEF PublishRetry, Acknowledge, Crash, outside
<1>2. r \in Existing /\ r \in Row /\ Existing' = Existing
  BY <1>0, <1>1 DEF TypeOK, Existing
<1>3. \/ messages' = messages
      \/ messages' = Put(messages, r, n)
      \/ messages' = Put(messages, r, n + 1) /\ PublishRetry(w)
  BY DEF PublishRetry, Acknowledge, Crash
<1>s. spent' \in [DOMAIN Bound -> Nat]
  <2>1. CASE PublishRetry(w) \/ Acknowledge(w)
    BY <1>0, <2>1 DEF PublishRetry, Acknowledge
  <2>2. CASE Crash(w)
    BY <1>0, <2>2, SpendType DEF Crash
  <2>. QED
    BY <2>1, <2>2
<1>m. MoveTo(w, "acking") \/ worker' = [worker EXCEPT ![w] = Idle]
  BY DEF PublishRetry, Acknowledge, Crash
<1>4. n \in 0 .. MaxRetries /\ (PublishRetry(w) => n + 1 \in 0 .. MaxRetries)
  <2>1. n \in 0 .. MaxRetries
    BY <1>0 DEF WorkerTable
  <2>2. PublishRetry(w) => n < MaxRetries
    BY DEF OutboxInv, Earned, PublishRetry
  <2>. QED
    BY <2>1, <2>2, OutboxAssumption
<1>. HIDE DEF r, n
<1>5. /\ messages' \in MessageTable
      /\ \A p \in Row, k \in 0 .. MaxRetries :
           messages'[p][k] > 0 => messages[p][k] > 0 \/ p = r
  BY <1>0, <1>2, <1>3, <1>4, PutType
<1>7. /\ worker' \in WorkerTable /\ worker'[w].phase \in {"acking", "idle"}
      /\ worker'[w].phase = "acking" => worker'[w].row = r
      /\ \A v \in Worker \ {w} : worker'[v] = worker[v]
  <2>1. CASE MoveTo(w, "acking")
    BY <1>0, <2>1, Moved DEF Phase, r
  <2>2. CASE worker' = [worker EXCEPT ![w] = Idle]
    <3>1. Idle \in [phase : Phase, row : Row \cup {NoRow}, retries : 0 .. MaxRetries]
      BY OutboxAssumption DEF Idle, Phase
    <3>2. Idle.phase = "idle"
      BY DEF Idle
    <3>3. worker'[w] = Idle /\ \A v \in Worker \ {w} : worker'[v] = worker[v]
      BY <1>0, <2>2 DEF WorkerTable
    <3>. QED
      BY <1>0, <2>2, <3>1, <3>2, <3>3 DEF WorkerTable
  <2>. QED
    BY <1>m, <2>1, <2>2
<1>8. TypeOK'
  BY <1>0, <1>1, <1>2, <1>5, <1>s, <1>7 DEF TypeOK, WorkerTable, MessageTable
<1>9. Messaged'
  BY <1>2, <1>5 DEF OutboxInv, Messaged
<1>10. worker'[w].phase \notin InTransaction /\ worker'[w].phase # "retrying"
  BY <1>7 DEF InTransaction
<1>. QED
  BY <1>1, <1>7, <1>8, <1>9, <1>10, LeavesTransaction

\* Losing a message and sweeping pending rows change the broker only.
LEMMA BrokerKeeps ==
  ASSUME OutboxInv, UNCHANGED <<outside, worker, delivered>>,
         messages' \in MessageTable, spent' \in [DOMAIN Bound -> Nat],
         \A p \in Row, k \in 0 .. MaxRetries :
           messages'[p][k] > 0 => messages[p][k] > 0 \/ p \in Existing
  PROVE  OutboxInv'
<1>1. Existing' = Existing /\ UNCHANGED <<access, outbox, stamp>>
  BY DEF Existing, outside
<1>2. TypeOK'
  BY <1>1 DEF OutboxInv, TypeOK, MessageTable
<1>3. Messaged'
  BY <1>1 DEF OutboxInv, Messaged
<1>4. Exclusive' /\ Earned' /\ SentOnceAndErased' /\ SuspendedIsSilent'
  BY <1>1 DEF OutboxInv, Exclusive, Earned, SentOnceAndErased, SuspendedIsSilent, Admits
<1>. QED
  BY <1>2, <1>3, <1>4 DEF OutboxInv

\* A published message that is lost.
LEMMA LoseKeeps ==
  ASSUME OutboxInv, NEW r \in Row, NEW n \in 0 .. MaxRetries, LoseMessage(r, n)
  PROVE  OutboxInv'
<1>0. messages \in MessageTable /\ spent \in [DOMAIN Bound -> Nat]
  BY DEF OutboxInv, TypeOK, MessageTable
<1>1. messages' = [messages EXCEPT ![r][n] = @ - 1] /\ messages[r][n] > 0
  BY DEF LoseMessage
<1>2. /\ messages' \in MessageTable
      /\ \A p \in Row, k \in 0 .. MaxRetries : messages'[p][k] > 0 => messages[p][k] > 0
  BY <1>0, <1>1, OutboxAssumption DEF MessageTable
<1>3. spent' \in [DOMAIN Bound -> Nat]
  BY <1>0, SpendType DEF LoseMessage
<1>. QED
  BY <1>2, <1>3, BrokerKeeps DEF LoseMessage

\* The sweep publishes rows that are pending, so committed.
LEMMA SweepKeeps == OutboxInv /\ Sweep => OutboxInv'
<1>. SUFFICES ASSUME OutboxInv, Sweep PROVE OutboxInv'
  OBVIOUS
<1>0. messages \in MessageTable /\ spent \in [DOMAIN Bound -> Nat]
  BY DEF OutboxInv, TypeOK, MessageTable
<1>1. PICK rows \in SUBSET Row :
        /\ IsBatch(rows)
        /\ \E sent \in SUBSET rows : messages' = PutAll(sent)
  BY DEF Sweep
<1>2. PICK sent \in SUBSET rows : messages' = PutAll(sent)
  BY <1>1
<1>3. sent \in SUBSET Row /\ sent \subseteq Existing
  BY <1>1 DEF IsBatch, Swept, Existing
<1>4. spent' \in [DOMAIN Bound -> Nat]
  BY <1>0, SpendType DEF Sweep
<1>5. UNCHANGED <<outside, worker, delivered>>
  BY DEF Sweep
<1>. QED
  BY <1>0, <1>2, <1>3, <1>4, <1>5, PutAllType, BrokerKeeps

-----------------------------------------------------------------------------
(* Theorems                                                                 *)

\* Nothing is queued and every worker is idle at the start.
LEMMA InitOutbox == Init => OutboxInv
<1>. SUFFICES ASSUME Init PROVE OutboxInv
  OBVIOUS
<1>1. \A w \in Worker : worker[w].phase = "idle"
  BY DEF Init, Idle
<1>2. \A r \in Row, n \in 0 .. MaxRetries : messages[r][n] = 0
  BY DEF Init
<1>3. TypeOK
  <2>1. worker \in WorkerTable
    BY OutboxAssumption DEF Init, Idle, WorkerTable, Phase
  <2>2. messages \in MessageTable
    BY OutboxAssumption DEF Init, MessageTable
  <2>. QED
    BY <1>1, <2>1, <2>2 DEF Init, TypeOK, WorkerTable, MessageTable, Access, Existing
<1>4. Messaged
  BY <1>2 DEF Messaged
<1>5. Exclusive /\ Earned /\ SuspendedIsSilent
  BY <1>1 DEF Exclusive, Earned, SuspendedIsSilent, InTransaction
<1>6. SentOnceAndErased
  BY DEF Init, SentOnceAndErased
<1>. QED
  BY <1>3, <1>4, <1>5, <1>6 DEF OutboxInv

\* Every step keeps the invariant.
LEMMA NextOutbox == OutboxInv /\ [Next]_vars => OutboxInv'
<1>. SUFFICES ASSUME OutboxInv, [Next]_vars PROVE OutboxInv'
  OBVIOUS
<1>1. CASE WebNext
  BY <1>1, WebNextKeeps
<1>2. ASSUME NEW w \in Worker, TakeAny(w) \/ Begin(w) \/ Answer(w) \/ Finish(w)
      PROVE  OutboxInv'
  BY <1>2, TakeKeeps, BeginKeeps, AnswerKeeps, CommitKeeps, SettleKeeps DEF TakeAny, Finish
<1>3. CASE FaultNext
  BY <1>3, SettleKeeps, LoseKeeps DEF FaultNext
<1>4. CASE Sweep
  BY <1>4, SweepKeeps
<1>5. CASE UNCHANGED vars
  <2>1. messages \in MessageTable /\ spent \in [DOMAIN Bound -> Nat]
    BY DEF OutboxInv, TypeOK, MessageTable
  <2>. QED
    BY <1>5, <2>1, BrokerKeeps DEF vars, outside
<1>. QED
  BY <1>1, <1>2, <1>3, <1>4, <1>5 DEF Next

\* The outbox invariant holds in every reachable state.
THEOREM OutboxIsInvariant == Spec => []OutboxInv
BY InitOutbox, NextOutbox, PTL DEF Spec

\* Type correctness of the outbox, the broker and the workers: a busy worker always holds
\* the message of a row that was committed.
THEOREM OutboxTypeCorrect == Spec => []TypeOK
<1>1. OutboxInv => TypeOK
  BY DEF OutboxInv
<1>. QED
  BY <1>1, OutboxIsInvariant, PTL

\* A row marked sent is with the provider and is never handed to it again.
THEOREM SentOnceAndErasedAlways == Spec => []SentOnceAndErased
<1>1. OutboxInv => SentOnceAndErased
  BY DEF OutboxInv
<1>. QED
  BY <1>1, OutboxIsInvariant, PTL

\* Nothing leaves for an organization that does not admit it.
THEOREM SuspendedIsSilentAlways == Spec => []SuspendedIsSilent
<1>1. OutboxInv => SuspendedIsSilent
  BY DEF OutboxInv
<1>. QED
  BY <1>1, OutboxIsInvariant, PTL

=============================================================================

----------------------------- MODULE EmailOutbox -----------------------------
(***************************************************************************)
(* The transactional e-mail outbox: rows written with the business event,   *)
(* tasks published to the broker after the commit, workers that deliver     *)
(* under the row lock of the organization, task retries, the periodic       *)
(* sweep, and the organization's access that decides whether a row may      *)
(* leave (backend/accounts/tasks.py, queue_email in accounts/services.py,   *)
(* vessel_caller/celery.py, organizations/services.py).                     *)
(*                                                                         *)
(* A delivery is one database transaction around the provider call, so      *)
(* "sending" is never committed; a worker's phase stands for it. Messages   *)
(* are acknowledged late: a crash rolls the transaction back and the        *)
(* broker hands the message out again.                                      *)
(***************************************************************************)
EXTENDS Integers, FiniteSets, Functions

CONSTANTS
  Org, Row, Worker,
  NoRow,            \* what an idle worker holds
  OrgOf,            \* organization of a row
  AllowSuspended,   \* rows with allow_suspended_organization
  AllowPending,     \* verify_email rows with allow_pending_approval_organization
  FailureKind,      \* "retryable": RuntimeError or OSError; "other": any other
  MaxRetries,       \* max_retries of the task
  BatchSize,        \* rows one sweep publishes
  MaxCopies,        \* bound on equal messages in the broker
  MaxFaults,        \* bound on faults and changes of access together
  MaxFailures,      \* bound on failed provider calls of each kind
  MaxCrashes,       \* bound on worker crashes
  MaxUnpublished,   \* bound on publications the broker refuses
  MaxLost,          \* bound on published messages that are lost
  MaxChanges        \* bound on changes of an organization's access

Access == {"pending_approval", "active", "suspended"}
InTransaction == {"calling", "accepted", "retryable", "other"}
Phase == InTransaction \cup {"idle", "waiting", "retrying", "acking"}

ASSUME OutboxAssumption ==
  /\ OrgOf \in [Row -> Org]
  /\ IsFiniteSet(Row) /\ NoRow \notin Row
  /\ AllowSuspended \subseteq Row /\ AllowPending \subseteq Row
  /\ AllowSuspended \cap AllowPending = {}
  /\ FailureKind \subseteq {"retryable", "other"}
  /\ {MaxFaults, MaxRetries, MaxFailures, MaxCrashes, MaxUnpublished, MaxLost, MaxChanges} \subseteq Nat
  /\ BatchSize \in Nat \ {0} /\ MaxCopies \in Nat \ {0}

VARIABLES
  access,     \* Organization.access_status
  outbox,     \* EmailOutbox.status as committed, "absent" before the insert
  stamp,      \* EmailOutbox.created_at, as a count of the rows before it
  messages,   \* messages in the broker, by row and retry number
  worker,     \* what each worker process is doing
  delivered,  \* rows whose idempotency key the provider has accepted
  spent       \* how much of each bound is used up

vars == <<access, outbox, stamp, messages, worker, delivered, spent>>
outside == <<access, outbox, stamp>>

Bound == [retryable |-> MaxFailures, other |-> MaxFailures, crashes |-> MaxCrashes,
          unpublished |-> MaxUnpublished, lost |-> MaxLost, changes |-> MaxChanges]

-----------------------------------------------------------------------------
TotalSpent == FoldFunction(+, 0, spent)

Spend(kinds) ==
  /\ \A k \in kinds : spent[k] < Bound[k]
  /\ TotalSpent + Cardinality(kinds) <= MaxFaults
  /\ spent' = [k \in DOMAIN Bound |-> IF k \in kinds THEN spent[k] + 1 ELSE spent[k]]

Idle == [phase |-> "idle", row |-> NoRow, retries |-> 0]

\* Mutant: deliveries do not lock the organization.
NeverLocked(o) == FALSE

\* The organization row is locked for the whole of a delivery.
Locked(o) == \E w \in Worker : worker[w].phase \in InTransaction /\ OrgOf[worker[w].row] = o

\* The row's organization lets it leave.
Admits(r) ==
  \/ access[OrgOf[r]] = "active"
  \/ access[OrgOf[r]] = "pending_approval" /\ r \in AllowPending
  \/ access[OrgOf[r]] = "suspended" /\ r \in AllowSuspended

Put(m, r, n) == [m EXCEPT ![r][n] = IF @ < MaxCopies THEN @ + 1 ELSE @]
PutAll(rows) ==
  [r \in Row |-> IF r \in rows THEN Put(messages, r, 0)[r] ELSE messages[r]]

\* Best-effort publication after the commit; a refused row stays pending.
Publish(rows, kinds) ==
  \/ messages' = PutAll(rows) /\ Spend(kinds)
  \/ /\ Spend(kinds \cup {"unpublished"})
     /\ \E sent \in SUBSET rows : sent # rows /\ messages' = PutAll(sent)

Existing == {r \in Row : outbox[r] # "absent"}

\* Mutant: the insert is rolled back and its task is published all the same.
QueueRolledBack(o, rows) ==
  /\ ~Locked(o)
  /\ rows \subseteq {r \in Row \ Existing : OrgOf[r] = o}
  /\ UNCHANGED <<outbox, stamp>>

\* queue_email for new idempotency keys; a key that exists is left as it is.
QueueEmails(o, rows) ==
  /\ ~Locked(o)
  /\ rows \subseteq {r \in Row \ Existing : OrgOf[r] = o}
  /\ outbox' = [r \in Row |-> IF r \in rows THEN "pending" ELSE outbox[r]]
  /\ stamp' = [r \in Row |-> IF r \in rows THEN Cardinality(Existing) ELSE stamp[r]]

-----------------------------------------------------------------------------
(* Web transactions                                                         *)

\* A business event of an organization with its notices.
Notify(o, rows) ==
  /\ rows # {}
  /\ QueueEmails(o, rows)
  /\ Publish(rows, {})
  /\ UNCHANGED <<access, worker, delivered>>

\* The platform changes an organization's access and tells its Admins.
ChangeAccess(o, from, to, rows) ==
  /\ access[o] = from
  /\ access' = [access EXCEPT ![o] = to]
  /\ QueueEmails(o, rows)
  /\ Publish(rows, {"changes"})
  /\ UNCHANGED <<worker, delivered>>

Approve(o, rows) ==
  rows \cap AllowSuspended = {} /\ ChangeAccess(o, "pending_approval", "active", rows)
Suspend(o, rows) ==
  rows \subseteq AllowSuspended /\ ChangeAccess(o, "active", "suspended", rows)
Reactivate(o, rows) ==
  rows \cap AllowSuspended = {} /\ ChangeAccess(o, "suspended", "active", rows)

-----------------------------------------------------------------------------
(* deliver_outbox_email                                                     *)

MoveTo(w, phase) == worker' = [worker EXCEPT ![w].phase = phase]

Take(w, r, n) ==
  /\ worker[w].phase = "idle"
  /\ messages[r][n] > 0
  /\ messages' = [messages EXCEPT ![r][n] = @ - 1]
  /\ worker' = [worker EXCEPT ![w] = [phase |-> "waiting", row |-> r, retries |-> n]]
  /\ UNCHANGED <<outside, delivered, spent>>

\* Mutant: a replay is not recognized.
NeverReplay(r) == FALSE

IsReplay(r) == outbox[r] = "sent"

\* The locks are granted: a sent row is a replay, a row its organization does not
\* admit is failed without a call, any other goes to the provider.
Begin(w) ==
  LET r == worker[w].row IN
  /\ worker[w].phase = "waiting"
  /\ ~Locked(OrgOf[r])
  /\ \/ IsReplay(r) /\ MoveTo(w, "acking") /\ UNCHANGED outbox
     \/ /\ ~IsReplay(r) /\ ~Admits(r)
        /\ MoveTo(w, "acking")
        /\ outbox' = [outbox EXCEPT ![r] = "failed"]
     \/ /\ ~IsReplay(r) /\ Admits(r)
        /\ MoveTo(w, "calling")
        /\ UNCHANGED outbox
  /\ UNCHANGED <<access, stamp, messages, delivered, spent>>

ProviderAccepts(w) ==
  /\ worker[w].phase = "calling"
  /\ delivered' = delivered \cup {worker[w].row}
  /\ MoveTo(w, "accepted")
  /\ UNCHANGED <<outside, messages, spent>>

\* The call fails, or it was accepted and its answer is lost.
ProviderFails(w, kind, wasAccepted) ==
  /\ worker[w].phase = "calling"
  /\ Spend({kind})
  /\ delivered' = IF wasAccepted THEN delivered \cup {worker[w].row} ELSE delivered
  /\ MoveTo(w, kind)
  /\ UNCHANGED <<outside, messages>>

\* Mutant: one retry too few.
RetriesLeftShort(w) == worker[w].retries + 1 < MaxRetries

RetriesLeft(w) == worker[w].retries < MaxRetries

\* The transaction commits; a failure is raised after it, and one that Celery
\* retries goes on to publish the retry unless the retries are used up.
Commit(w) ==
  LET r == worker[w].row
      ok == worker[w].phase = "accepted"
      again == worker[w].phase = "retryable" /\ RetriesLeft(w)
  IN
  /\ worker[w].phase \in InTransaction \ {"calling"}
  /\ outbox' = [outbox EXCEPT ![r] = IF ok THEN "sent" ELSE "failed"]
  /\ MoveTo(w, IF again THEN "retrying" ELSE "acking")
  /\ UNCHANGED <<access, stamp, messages, delivered, spent>>

PublishRetry(w) ==
  /\ worker[w].phase = "retrying"
  /\ messages' = Put(messages, worker[w].row, worker[w].retries + 1)
  /\ MoveTo(w, "acking")
  /\ UNCHANGED <<outside, delivered, spent>>

Acknowledge(w) ==
  /\ worker[w].phase = "acking"
  /\ worker' = [worker EXCEPT ![w] = Idle]
  /\ UNCHANGED <<outside, messages, delivered, spent>>

-----------------------------------------------------------------------------
(* Faults and their recovery                                                *)

\* A worker dies and its transaction rolls back. If the whole worker is gone its
\* message is handed out again; if only the pool process of the task is, the worker
\* acknowledges the message, since task_reject_on_worker_lost is not set.
Crash(w) ==
  /\ worker[w].phase # "idle"
  /\ \/ /\ Spend({"crashes"})
        /\ messages' = Put(messages, worker[w].row, worker[w].retries)
     \/ Spend({"crashes", "lost"}) /\ UNCHANGED messages
  /\ worker' = [worker EXCEPT ![w] = Idle]
  /\ UNCHANGED <<outside, delivered>>

\* The broker loses a published message.
LoseMessage(r, n) ==
  /\ messages[r][n] > 0
  /\ Spend({"lost"})
  /\ messages' = [messages EXCEPT ![r][n] = @ - 1]
  /\ UNCHANGED <<outside, worker, delivered>>

\* Mutant: only rows left in "sending" are swept, and none is ever committed as such.
SweptSending == {r \in Row : outbox[r] = "sending"}

Swept == {r \in Row : outbox[r] = "pending"}

\* The rows one dispatch_pending_outbox pass selects: the oldest pending ones.
IsBatch(rows) ==
  /\ rows \subseteq Swept
  /\ Cardinality(rows) = BatchSize \/ rows = Swept
  /\ Cardinality(rows) <= BatchSize
  /\ \A r \in rows, p \in Swept \ rows : stamp[r] <= stamp[p]

\* The rows a pass publishes: all it selected, or those before the first refusal.
Sweep ==
  \E rows \in SUBSET Row :
    /\ rows # {} /\ IsBatch(rows)
    /\ \/ messages' = PutAll(rows) /\ UNCHANGED spent
       \/ /\ Spend({"unpublished"})
          /\ \E sent \in SUBSET rows :
               /\ sent # rows
               /\ \A r \in sent, p \in rows \ sent : stamp[r] <= stamp[p]
               /\ messages' = PutAll(sent)
    /\ UNCHANGED <<outside, worker, delivered>>

-----------------------------------------------------------------------------
Init ==
  /\ access \in [Org -> {"pending_approval", "active"}]
  /\ outbox = [r \in Row |-> "absent"]
  /\ stamp = [r \in Row |-> 0]
  /\ messages = [r \in Row |-> [n \in 0 .. MaxRetries |-> 0]]
  /\ worker = [w \in Worker |-> Idle]
  /\ delivered = {}
  /\ spent = [kind \in DOMAIN Bound |-> 0]

WebNext ==
  \E o \in Org, rows \in SUBSET Row :
    Notify(o, rows) \/ Approve(o, rows) \/ Suspend(o, rows) \/ Reactivate(o, rows)

TakeAny(w) == \E r \in Row, n \in 0 .. MaxRetries : Take(w, r, n)
Answer(w) ==
  \/ ProviderAccepts(w)
  \/ \E kind \in FailureKind, wasAccepted \in BOOLEAN : ProviderFails(w, kind, wasAccepted)
Finish(w) == Commit(w) \/ PublishRetry(w) \/ Acknowledge(w)

FaultNext ==
  \/ \E w \in Worker : Crash(w)
  \/ \E r \in Row, n \in 0 .. MaxRetries : LoseMessage(r, n)

Next ==
  \/ WebNext
  \/ \E w \in Worker : TakeAny(w) \/ Begin(w) \/ Answer(w) \/ Finish(w)
  \/ FaultNext
  \/ Sweep

\* Workers keep running, a provider call ends within its 15-second timeout, row
\* locks are granted in turn, and the worker's timer sweeps every minute.
Fairness ==
  /\ \A w \in Worker :
       /\ WF_vars(TakeAny(w))
       /\ SF_vars(Begin(w))
       /\ WF_vars(Answer(w))
       /\ WF_vars(Finish(w))
  /\ WF_vars(Sweep)

Spec == Init /\ [][Next]_vars /\ Fairness

-----------------------------------------------------------------------------
(* Properties                                                               *)

\* The tables, the broker and the workers hold values of their kinds, and every
\* busy worker holds the message of a row that exists.
TypeOK ==
  /\ access \in [Org -> Access]
  /\ outbox \in [Row -> {"absent", "pending", "sent", "failed"}]
  /\ stamp \in [Row -> Nat]
  /\ messages \in [Row -> [0 .. MaxRetries -> 0 .. MaxCopies]]
  /\ worker \in [Worker -> [phase : Phase, row : Row \cup {NoRow}, retries : 0 .. MaxRetries]]
  /\ \A w \in Worker : worker[w].phase # "idle" => worker[w].row \in Existing
  /\ delivered \subseteq Existing
  /\ spent \in [DOMAIN Bound -> Nat]

\* A row is marked sent only if the provider has its message, and a row that is
\* marked sent, whose content is erased by then, is never handed to the provider
\* again: not by a redelivered, a retried or a swept duplicate of its task.
SentOnceAndErased ==
  \A r \in Row :
    outbox[r] = "sent" =>
      /\ r \in delivered
      /\ \A w \in Worker : worker[w].row = r => worker[w].phase \notin InTransaction

\* No message is on its way to the provider while its organization does not admit
\* it: a suspension waits for the delivery under way and stops all later ones.
SuspendedIsSilent ==
  \A w \in Worker : worker[w].phase \in InTransaction => Admits(worker[w].row)

\* Every committed row is attempted in the end, whatever publications fail,
\* messages are lost and workers crash: the sweep finds it while it is pending.
EveryRowIsAttempted ==
  \A r \in Row : outbox[r] = "pending" ~> outbox[r] \in {"sent", "failed"}

\* Every committed row reaches the provider in the end, through publications that fail,
\* crashes and failures within the retries, unless a task is lost, the provider fails in
\* a way that is not retried, or the organization does not admit the row.
DeliveredUnlessLost ==
  \A r \in Row :
    outbox[r] = "pending" ~>
      r \in delivered \/ spent.lost > 0 \/ spent.other > 0 \/ ~Admits(r)

\* Every committed row reaches the provider in the end ("loss of a previously
\* published task, is recovered without another user request").
EveryRowIsDelivered ==
  \A r \in Row : outbox[r] = "pending" ~> r \in delivered

=============================================================================

---------------------------- MODULE OfflineQueue -----------------------------
(***************************************************************************)
(* Captures made at the quay: a submission that meets no network is kept in *)
(* an IndexedDB queue that every tab of the browser shares and is replayed  *)
(* later under the idempotency key of the first attempt                     *)
(* (frontend/src/app/store.tsx, lib/offlineQueue.ts, lib/api.ts, and the     *)
(* submit handlers of Inspections.tsx and MobileApp.tsx).                   *)
(*                                                                         *)
(* A Mount is one life of StoreProvider: a tab, or the same tab after       *)
(* another sign-in, whose loop may still run after it was unmounted. One    *)
(* user owns the device; all captures are final submissions against one     *)
(* call. A step ends where the code awaits a request or a transaction.      *)
(***************************************************************************)
EXTENDS Integers, FiniteSets

CONSTANTS
  Mount,
  Capture,      \* numbered in the order they are made
  QueueScopes   \* what the behaviours of a run contain; each keeps to one of them

\* started: the mounts that exist at the beginning; updates: the captures that complete a
\* draft the server already holds; faults: requests that fail, are refused or whose answer is lost;
\* cancels: cancellations of the vessel call; signOuts.
ASSUME QueueAssumption ==
  /\ Capture \subseteq Nat
  /\ QueueScopes \subseteq [started : SUBSET Mount, updates : SUBSET Capture,
                          faults : Nat, cancels : Nat, signOuts : Nat]

VARIABLES
  queue,      \* the object store: a capture's lastError, or "absent"
  ins,        \* the server's inspection of each capture
  cancelled,  \* the vessel call was cancelled
  mount,      \* "new", "on" or "off"
  session,    \* the server recognizes the browser's cookie
  leaving,    \* how far a sign-out is: "no", "remote", "cleanup"
  job,        \* the running submission and the running flush of each mount
  told,       \* what the screen said about a capture
  cleared,    \* captures that were deleted by a sign-out
  spent,      \* how much of each bound is used up
  span        \* the one of QueueScopes this behaviour keeps to

queueVars ==
  <<queue, ins, cancelled, mount, session, leaving, job, told, cleared, spent, span>>

Update == span.updates

Slot == {"submit", "flush"}
Idle == [phase |-> "idle", capture |-> 0, version |-> 0, force |-> FALSE, list |-> {}, why |-> "none"]

owner == <<mount, session, leaving>>

Spend(k) == spent[k] < span[k] /\ spent' = [spent EXCEPT ![k] = @ + 1]

Step(m, s, j) == job' = [job EXCEPT ![m][s] = j]

-----------------------------------------------------------------------------
(* What starts a job                                                        *)

Submission(c, phase) == [Idle EXCEPT !.phase = phase, !.capture = c]

\* doSubmit and CaptureFlow's submit: without a network nothing is sent.
Submit(m, c, online) ==
  /\ mount[m] = "on" /\ job[m]["submit"].phase = "idle"
  /\ told[c] = "nothing" /\ \A d \in Capture : d < c => told[d] # "nothing"
  /\ told' = [told EXCEPT ![c] = "busy"]
  /\ Step(m, "submit", Submission(c, IF online THEN "save" ELSE "store"))
  /\ UNCHANGED <<queue, ins, cancelled, owner, cleared, spent>>

Queued == {c \in Capture : queue[c] # "absent"}

\* flushQueue on mount, when the network returns, every 30 seconds, or by Retry. The
\* queue is listed once, and blocked items are left out unless the user insists.
StartFlush(m, force) ==
  /\ mount[m] = "on" /\ job[m]["flush"].phase = "idle"
  /\ force => \E c \in Queued : queue[c] # "fresh"
  /\ LET items == {c \in Queued : force \/ queue[c] # "blocked"} IN
     /\ items # {}
     /\ Step(m, "flush", [Idle EXCEPT !.phase = "next", !.force = force, !.list = items])
  /\ UNCHANGED <<queue, ins, cancelled, owner, told, cleared, spent>>

\* The listed items are worked off in the order they were made.
NextItem(m) ==
  LET j == job[m]["flush"] IN
  /\ j.phase = "next"
  /\ \/ j.list = {} /\ Step(m, "flush", Idle)
     \/ \E c \in j.list :
          /\ \A d \in j.list : c <= d
          /\ Step(m, "flush", [j EXCEPT !.phase = "save", !.capture = c, !.list = @ \ {c}])
  /\ UNCHANGED <<queue, ins, cancelled, owner, told, cleared, spent>>

-----------------------------------------------------------------------------
(* The requests of persistInspection                                        *)

\* Mutant: the server does not look for an inspection with the same key.
NoReplay(c) == [status |-> "draft", version |-> 1, copies |-> ins[c].copies + 1]

\* InspectionsView.post: a second request with the same key finds the first one's row.
Created(c) ==
  IF ins[c].copies > 0 THEN ins[c] ELSE [status |-> "draft", version |-> 1, copies |-> 1]

SaveAccepted(c) ==
  /\ session
  /\ IF c \in Update THEN ins[c].status = "draft" /\ ins[c].version = 1 ELSE ~cancelled

Saved(c) == IF c \in Update THEN [ins[c] EXCEPT !.version = @ + 1] ELSE Created(c)

\* InspectionFinalizeView: the version must be the current one.
FinalizeAccepted(c, v) == session /\ ins[c].version = v

\* Mutant: finalizing again writes the row again.
WritesAgain(c) == [ins[c] EXCEPT !.status = "completed", !.version = @ + 1]

\* finalize_inspection returns an inspection that has its invoice as it is.
Finalized(c) ==
  IF ins[c].status = "completed" THEN ins[c]
  ELSE [ins[c] EXCEPT !.status = "completed", !.version = @ + 1]

Accepted(j) ==
  CASE j.phase = "save" -> SaveAccepted(j.capture)
    [] j.phase = "evidence" -> session
    [] j.phase = "finalize" -> FinalizeAccepted(j.capture, j.version)

Effect(j) ==
  CASE j.phase = "save" -> Saved(j.capture)
    [] j.phase = "evidence" -> ins[j.capture]
    [] j.phase = "finalize" -> Finalized(j.capture)

AfterAnswer(s, j) ==
  CASE j.phase = "save" -> [j EXCEPT !.phase = "evidence", !.version = Effect(j).version]
    [] j.phase = "evidence" -> [j EXCEPT !.phase = "finalize"]
    [] j.phase = "finalize" /\ s = "flush" -> [j EXCEPT !.phase = "remove"]
    [] j.phase = "finalize" /\ s = "submit" -> Idle

\* Mutant: an item the server refuses is dropped from the queue.
DropsRefused(s, j, why, online) ==
  IF s = "submit" THEN Idle
  ELSE [j EXCEPT !.phase = IF why = "blocked" THEN "remove" ELSE "lookup", !.why = why]

\* A flush records the error and stops; a submission is queued when the network failed,
\* or after any error when the browser says it is offline by then.
AfterError(s, j, why, online) ==
  IF s = "submit"
  THEN (IF why = "retryable" \/ ~online THEN [j EXCEPT !.phase = "store"] ELSE Idle)
  ELSE [j EXCEPT !.phase = "lookup", !.why = why]

Requests == {"save", "evidence", "finalize"}

\* A submission that is not queued ends with the error on the screen.
Fails(m, s, why, online) ==
  LET j == job[m][s]
      next == AfterError(s, j, why, online)
  IN
  /\ Step(m, s, next)
  /\ told' = IF s = "submit" /\ next.phase # "store"
             THEN [told EXCEPT ![j.capture] = "error"] ELSE told

Answer(m, s, online) ==
  LET j == job[m][s] IN
  /\ j.phase \in Requests
  /\ IF Accepted(j)
     THEN /\ ins' = [ins EXCEPT ![j.capture] = Effect(j)]
          /\ Step(m, s, AfterAnswer(s, j))
          /\ told' = IF s = "submit" /\ j.phase = "finalize"
                     THEN [told EXCEPT ![j.capture] = "saved"] ELSE told
     ELSE Fails(m, s, "blocked", online) /\ UNCHANGED ins
  /\ UNCHANGED <<queue, cancelled, owner, cleared, spent>>

\* The request or its answer is lost (a TypeError), the server answers with a 5xx, or it
\* refuses for another reason than the ones above: a member's role that was changed, a
\* photo that the object storage does not take, a limit.
Fault(m, s, reached, error, online) ==
  LET j == job[m][s] IN
  /\ j.phase \in Requests
  /\ error # "network" => ~reached
  /\ reached => Accepted(j)
  /\ Spend("faults")
  /\ ins' = IF reached THEN [ins EXCEPT ![j.capture] = Effect(j)] ELSE ins
  /\ Fails(m, s, IF error = "refused" \/ (error = "server" /\ s = "submit")
                 THEN "blocked" ELSE "retryable", online)
  /\ UNCHANGED <<queue, cancelled, owner, cleared>>

-----------------------------------------------------------------------------
(* Transactions on the object store                                         *)

\* queueInspection at the end of addInspection.
Store(m) ==
  LET j == job[m]["submit"] IN
  /\ j.phase = "store"
  /\ queue' = [queue EXCEPT ![j.capture] = "fresh"]
  /\ told' = [told EXCEPT ![j.capture] = "queued"]
  /\ Step(m, "submit", Idle)
  /\ UNCHANGED <<ins, cancelled, owner, cleared, spent>>

\* removeQueuedInspection: what it looked up is gone after it, so is what was not there.
RemoveItem(m) ==
  LET j == job[m]["flush"] IN
  /\ j.phase = "remove"
  /\ queue' = [queue EXCEPT ![j.capture] = "absent"]
  /\ Step(m, "flush", [j EXCEPT !.phase = "next"])
  /\ UNCHANGED <<ins, cancelled, owner, told, cleared, spent>>

\* markQueuedInspectionAttempt reads the item and writes it back in a second transaction.
LookUp(m) ==
  LET j == job[m]["flush"] IN
  /\ j.phase = "lookup"
  /\ Step(m, "flush", IF queue[j.capture] = "absent" THEN Idle ELSE [j EXCEPT !.phase = "mark"])
  /\ UNCHANGED <<queue, ins, cancelled, owner, told, cleared, spent>>

Mark(m) ==
  LET j == job[m]["flush"] IN
  /\ j.phase = "mark"
  /\ queue' = [queue EXCEPT ![j.capture] = j.why]
  /\ Step(m, "flush", Idle)
  /\ UNCHANGED <<ins, cancelled, owner, told, cleared, spent>>

-----------------------------------------------------------------------------
(* Around the queue                                                         *)

\* Another user cancels the vessel call.
Cancel ==
  /\ Spend("cancels")
  /\ cancelled' = TRUE
  /\ UNCHANGED <<queue, ins, owner, job, told, cleared>>

\* logout: the providers are unmounted at once, the server is told, and then, whether it
\* heard or not, the owner's captures are deleted. The next sign-in does not wait for that.
SignOut ==
  /\ \E m \in Mount : mount[m] = "on"
  /\ leaving = "no"
  /\ Spend("signOuts")
  /\ mount' = [m \in Mount |-> IF mount[m] = "on" THEN "off" ELSE mount[m]]
  /\ leaving' = "remote"
  /\ UNCHANGED <<queue, ins, cancelled, session, job, told, cleared>>

RemoteLogout(heard) ==
  /\ leaving = "remote"
  /\ leaving' = "cleanup"
  /\ session' = (session /\ ~heard)
  /\ UNCHANGED <<queue, ins, cancelled, mount, job, told, cleared, spent>>

ClearOwner ==
  /\ leaving = "cleanup"
  /\ leaving' = "no"
  /\ cleared' = cleared \cup Queued
  /\ queue' = [c \in Capture |-> "absent"]
  /\ UNCHANGED <<ins, cancelled, mount, session, job, told, spent>>

SignIn(m) ==
  /\ mount[m] = "new" /\ leaving # "remote"
  /\ mount' = [mount EXCEPT ![m] = "on"]
  /\ session' = TRUE
  /\ UNCHANGED <<queue, ins, cancelled, leaving, job, told, cleared, spent>>

-----------------------------------------------------------------------------
QueueInit ==
  /\ span \in QueueScopes
  /\ queue = [c \in Capture |-> "absent"]
  /\ ins = [c \in Capture |->
              IF c \in Update THEN [status |-> "draft", version |-> 1, copies |-> 1]
              ELSE [status |-> "absent", version |-> 0, copies |-> 0]]
  /\ cancelled = FALSE
  /\ mount = [m \in Mount |-> IF m \in span.started THEN "on" ELSE "new"]
  /\ session = (span.started # {})
  /\ leaving = "no"
  /\ job = [m \in Mount |-> [s \in Slot |-> Idle]]
  /\ told = [c \in Capture |-> "nothing"]
  /\ cleared = {}
  /\ spent = [k \in {"faults", "cancels", "signOuts"} |-> 0]

QueueNext ==
  /\ \/ \E m \in Mount :
          \/ \E c \in Capture, online \in BOOLEAN : Submit(m, c, online)
          \/ \E force \in BOOLEAN : StartFlush(m, force)
          \/ NextItem(m) \/ RemoveItem(m) \/ LookUp(m) \/ Mark(m) \/ Store(m)
          \/ \E s \in Slot, online \in BOOLEAN :
               \/ Answer(m, s, online)
               \/ \E reached \in BOOLEAN, error \in {"network", "server", "refused"} :
                    Fault(m, s, reached, error, online)
          \/ SignIn(m)
     \/ Cancel
     \/ SignOut
     \/ \E heard \in BOOLEAN : RemoteLogout(heard)
     \/ ClearOwner
  /\ UNCHANGED span

QueueSpec == QueueInit /\ [][QueueNext]_queueVars

-----------------------------------------------------------------------------
(* Properties                                                               *)

\* Every part of the state holds a value of its kind, and a flush works on a capture
\* that was once queued.
QueueTypeOK ==
  /\ queue \in [Capture -> {"absent", "fresh", "retryable", "blocked"}]
  /\ \A c \in Capture : ins[c].version \in 0..3 /\ ins[c].status \in {"absent", "draft", "completed"}
  /\ told \in [Capture -> {"nothing", "busy", "saved", "queued", "error"}]
  /\ cleared \subseteq Capture
  /\ \A m \in Mount :
       job[m]["flush"].phase \in Requests \cup {"remove", "lookup", "mark"} =>
         told[job[m]["flush"].capture] = "queued"

\* "Replays queued work and removes it only after the server confirms success": a
\* capture reported as saved or queued is complete on the server, in the queue, or was
\* deleted by a sign-out; and however many tabs replay it, after however many lost
\* answers, it is one inspection there.
PromiseKept ==
  \A c \in Capture :
    /\ told[c] \in {"saved", "queued"} =>
         \/ ins[c].status = "completed"
         \/ queue[c] # "absent" /\ told[c] = "queued"
         \/ c \in cleared
    /\ ins[c].copies <= 1

=============================================================================

---------------------------- MODULE SystemConsole ----------------------------
(***************************************************************************)
(* The system operators' console: several operators work on one customer   *)
(* organization from cached copies of it.  Each change travels with an     *)
(* idempotency key the browser keeps for retries of the same payload, and  *)
(* the server stores the answer of every completed key; lifecycle and      *)
(* profile changes also carry the revision the browser has.  Requests may  *)
(* be delayed past the moment the browser gives up on them, so a retry and *)
(* the original can both arrive.                                           *)
(*                                                                         *)
(*   org     the organization: status, revision, profile, Admin            *)
(*           invitation, and whether a registered Admin proved their       *)
(*           address                                                       *)
(*   view    each operator's cached copy                                   *)
(*   task    the open dialog, form or list button of each operator         *)
(*   hook    the key each kind of dialog holds, with its payload           *)
(*   call    the attempt an operator's browser waits for                   *)
(*   net     requests on their way; attempts under one key are told apart  *)
(*           by their copy (ghost: current, its dialog and payload have    *)
(*           not changed since)                                            *)
(*   store   answers of completed keys (PlatformMutationRequest)           *)
(*   recent  whether the operator's authenticator step-up is recent        *)
(*   acts    ghost: effects of the current payload of the open dialog      *)
(*   desk    the operators and changes of this exploration, chosen once    *)
(***************************************************************************)
EXTENDS Naturals, FiniteSets

CONSTANTS Operators,
          Reasons,        \* texts an operator may give
          MaxKeys, MaxCopies, MaxRev,  \* largest bounds of a scope
          ConsoleScopes,  \* who makes which changes in each exploration
          None

\* The kinds of change the operators make.
Tasks == {"approve", "suspend", "reactivate", "update", "invite", "resend",
          "revoke", "recover"}

\* Who changes what, with which reasons; and three bounds: idempotency keys
\* drawn, attempts under one key on their way at once, and the revision.
ConsoleScope == [operators : SUBSET Operators, tasks : SUBSET Tasks,
                 reasons : SUBSET Reasons, keys : 0..MaxKeys,
                 copies : 0..MaxCopies, revs : 1..MaxRev]

ASSUME ConsoleAssumption ==
    /\ ConsoleScopes \subseteq ConsoleScope
    /\ MaxKeys \in Nat /\ MaxCopies \in Nat /\ MaxRev \in Nat \ {0}
    /\ None \notin Operators \cup Reasons

VARIABLES org, view, task, hook, lastKey, call, net, store, recent, acts, desk

consoleVars == <<org, view, task, hook, lastKey, call, net, store, recent, acts, desk>>

\* One field stands for the profile.
Fields == {"name"}
Profiles == [Fields -> Operators \cup {None}]
Lifecycle == {"approve", "suspend", "reactivate"}
Hooks == {"lifecycle"} \cup (Tasks \ Lifecycle)
HookOf(kind) == IF kind \in Lifecycle THEN "lifecycle" ELSE kind

Organization == [status : {"pending_approval", "active", "suspended"},
                 rev : 1..MaxRev, profile : Profiles,
                 invite : {"none", "pending", "revoked"}, ready : BOOLEAN]
Attempt == [key : 1..MaxKeys, copy : 1..MaxCopies]
Task == [kind : Tasks, reason : Reasons \cup {None},
         form : Profiles \cup {None}]
Payload == [kind : Tasks, reason : Reasons \cup {None},
            form : Profiles \cup {None}, rev : 0..MaxRev]
Stored == [op : Operators, payload : Payload, body : Organization]

\* A key that has not completed can be told from one that has.
ASSUME StoredAssumption == None \notin Stored

ConsoleInit ==
    /\ desk \in ConsoleScopes
    /\ org = [status |-> IF "approve" \in desk.tasks THEN "pending_approval" ELSE "active",
              rev |-> 1, profile |-> [f \in Fields |-> None], invite |-> "none",
              ready |-> "approve" \notin desk.tasks]
    /\ view = [o \in Operators |-> org]
    /\ task = [o \in Operators |-> None]
    /\ hook = [o \in Operators |-> [h \in Hooks |-> None]]
    /\ lastKey = 0
    /\ call = [o \in Operators |-> None]
    /\ net = {}
    /\ store = [k \in 1..MaxKeys |-> None]
    /\ recent = [o \in Operators |-> TRUE]
    /\ acts = [o \in Operators |-> 0]

-----------------------------------------------------------------------------
(* The browser.                                                            *)

\* What the page offers, from the copy it shows: one lifecycle action, the
\* profile form, and access changes while the organization is active.
Offered(o, kind) ==
    CASE kind = "approve"    -> view[o].status = "pending_approval" /\ view[o].ready
      [] kind = "suspend"    -> view[o].status = "active"
      [] kind = "reactivate" -> view[o].status = "suspended"
      [] kind = "update"     -> TRUE
      [] kind = "revoke"     -> view[o].invite = "pending"
      [] kind = "resend"     -> view[o].status = "active" /\ view[o].invite = "pending"
      [] OTHER               -> view[o].status = "active"

HasReason(kind) == kind \in Lifecycle \cup {"recover"}

\* A new payload, or a new dialog, is a new action: what is still on its way
\* belongs to the old one.
Outdate(o) == {IF r.op = o THEN [r EXCEPT !.current = FALSE] ELSE r : r \in net}

OpenDialog(o, kind, reason) ==
    /\ task[o] = None /\ Offered(o, kind)
    /\ (reason = None) = ~HasReason(kind)
    /\ task' = [task EXCEPT ![o] =
           [kind |-> kind, reason |-> reason,
            form |-> IF kind = "update" THEN view[o].profile ELSE None]]
    /\ net' = Outdate(o)
    /\ acts' = [acts EXCEPT ![o] = 0]
    /\ UNCHANGED <<org, view, hook, lastKey, call, store, recent, desk>>

\* The operator types another reason, or their own value into a field.
EditReason(o, reason) ==
    /\ task[o] # None /\ call[o] = None /\ HasReason(task[o].kind)
    /\ reason # task[o].reason
    /\ task' = [task EXCEPT ![o].reason = reason]
    /\ net' = Outdate(o)
    /\ acts' = [acts EXCEPT ![o] = 0]
    /\ UNCHANGED <<org, view, hook, lastKey, call, store, recent, desk>>

EditField(o, f) ==
    /\ task[o] # None /\ call[o] = None /\ task[o].kind = "update"
    /\ task[o].form[f] # o
    /\ task' = [task EXCEPT ![o].form[f] = o]
    /\ net' = Outdate(o)
    /\ acts' = [acts EXCEPT ![o] = 0]
    /\ UNCHANGED <<org, view, hook, lastKey, call, store, recent, desk>>

\* Cancelling drops the key, except for the buttons of the invitation list
\* and the invitation drawer, whose hook is dropped by success or unmounting.
CloseDialog(o) ==
    /\ task[o] # None /\ call[o] = None
    /\ task' = [task EXCEPT ![o] = None]
    /\ hook' = IF task[o].kind = "resend" THEN hook
               ELSE [hook EXCEPT ![o][HookOf(task[o].kind)] = None]
    /\ UNCHANGED <<org, view, lastKey, call, net, store, recent, acts, desk>>

\* Focusing the window refetches the copy; an open form keeps its values.
Refetch(o) ==
    /\ view[o] # org
    /\ view' = [view EXCEPT ![o] = org]
    /\ UNCHANGED <<org, task, hook, lastKey, call, net, store, recent, acts, desk>>

\* The revision sent is the cached one at the moment of sending.
PayloadOf(o) ==
    [kind |-> task[o].kind, reason |-> task[o].reason, form |-> task[o].form,
     rev |-> IF task[o].kind \in Lifecycle \cup {"update"} THEN view[o].rev ELSE 0]

\* Mutant: the key is kept until the dialog closes, whatever is sent.
KeyPerDialog(held, payload) == IF held # None THEN held.key ELSE lastKey + 1

keyFor(held, payload) ==
    IF held # None /\ held.payload = payload THEN held.key ELSE lastKey + 1

\* The copies no request under the key is using.
Free(key) == {c \in 1..desk.copies : \A r \in net : r.key = key => r.copy # c}

Send(o) ==
    LET payload == PayloadOf(o)
        held == hook[o][HookOf(task[o].kind)]
        key == keyFor(held, payload)
        fresh == held = None \/ held.payload # payload
        copy == CHOOSE c \in Free(key) : TRUE
    IN
    /\ task[o] # None /\ call[o] = None /\ key <= desk.keys /\ Free(key) # {}
    /\ hook' = [hook EXCEPT ![o][HookOf(task[o].kind)] =
                    [key |-> key, payload |-> payload]]
    /\ lastKey' = IF key > lastKey THEN key ELSE lastKey
    /\ call' = [call EXCEPT ![o] = [key |-> key, copy |-> copy]]
    /\ net' = (IF fresh THEN Outdate(o) ELSE net)
              \cup {[op |-> o, key |-> key, copy |-> copy, payload |-> payload,
                     current |-> TRUE]}
    /\ acts' = IF fresh THEN [acts EXCEPT ![o] = 0] ELSE acts
    /\ UNCHANGED <<org, view, task, store, recent, desk>>

\* The connection fails: the dialog shows an error and stays; the request may
\* still reach the server.
GiveUp(o) ==
    /\ call[o] # None
    /\ call' = [call EXCEPT ![o] = None]
    /\ UNCHANGED <<org, view, task, hook, lastKey, net, store, recent, acts, desk>>

LoseRequest(r) ==
    /\ net' = net \ {r}
    /\ UNCHANGED <<org, view, task, hook, lastKey, call, store, recent, acts, desk>>

-----------------------------------------------------------------------------
(* The server: one transaction per request, under the organization's lock. *)

\* The handler of each kind: whether it refuses, and the organization after.
Refuses(p) ==
    \/ p.kind = "approve"
       /\ (p.rev # org.rev \/ org.status # "pending_approval" \/ ~org.ready)
    \/ p.kind = "suspend" /\ org.status # "suspended"
       /\ (p.rev # org.rev \/ org.status # "active")
    \/ p.kind = "reactivate" /\ org.status # "active"
       /\ (p.rev # org.rev \/ org.status # "suspended")
    \/ p.kind = "update" /\ p.rev # org.rev
    \/ p.kind \in {"invite", "resend", "recover"} /\ org.status # "active"
    \/ p.kind = "invite" /\ org.invite = "pending"
    \/ p.kind \in {"resend", "revoke"} /\ org.invite # "pending"

\* Repeating a lifecycle step that has happened, or saving an unchanged
\* profile, is confirmed without effect; everything else is a new revision.
NoEffect(p) ==
    \/ p.kind = "suspend" /\ org.status = "suspended"
    \/ p.kind = "reactivate" /\ org.status = "active"
    \/ p.kind = "update" /\ p.form = org.profile

Changed(p) ==
    LET next == [org EXCEPT !.rev = @ + 1] IN
    CASE p.kind \in {"approve", "reactivate"} -> [next EXCEPT !.status = "active"]
      [] p.kind = "suspend" ->
            [next EXCEPT !.status = "suspended",
                         !.invite = IF @ = "pending" THEN "revoked" ELSE @]
      [] p.kind = "update"  -> [next EXCEPT !.profile = p.form]
      [] p.kind = "invite"  -> [next EXCEPT !.invite = "pending"]
      [] p.kind = "revoke"  -> [next EXCEPT !.invite = "revoked"]
      [] OTHER              -> next

\* The browser has not given up on this attempt.
Awaited(r) == call[r.op] = [key |-> r.key, copy |-> r.copy]

\* The browser of a waiting operator applies the answer: lifecycle and
\* profile answers are put into its copy, the key and the dialog are dropped.
Answer(r, body) ==
    IF Awaited(r)
    THEN /\ call' = [call EXCEPT ![r.op] = None]
         /\ task' = [task EXCEPT ![r.op] = None]
         /\ hook' = [hook EXCEPT ![r.op][HookOf(r.payload.kind)] = None]
         /\ view' = IF r.payload.kind \in Lifecycle \cup {"update"}
                    THEN [view EXCEPT ![r.op] = body] ELSE view
    ELSE UNCHANGED <<call, task, hook, view>>

Refusal(r) ==
    /\ call' = IF Awaited(r) THEN [call EXCEPT ![r.op] = None] ELSE call
    /\ UNCHANGED <<org, task, hook, view, store, acts>>

\* Mutant: the answer is not kept with its key.
Forgets(r, body) == store

\* Mutant: the request is kept in the place of the answer.
KeepsRequest(r, body) ==
    [store EXCEPT ![r.key] = [op |-> r.op, payload |-> r.payload, body |-> r.payload]]

\* A completed key keeps its request and its answer; a refusal rolls back the
\* row of its key with everything else.
Completes(r, body) ==
    [store EXCEPT ![r.key] = [op |-> r.op, payload |-> r.payload, body |-> body]]

Serve(r) ==
    LET done == store[r.key] IN
    /\ r \in net
    /\ net' = net \ {r}
    /\ IF ~recent[r.op] \/ (done # None /\ done.payload # r.payload)
       THEN Refusal(r)
       ELSE IF done # None
       THEN Answer(r, done.body) /\ UNCHANGED <<org, store, acts>>
       ELSE IF Refuses(r.payload)
       THEN Refusal(r)
       ELSE /\ NoEffect(r.payload) \/ org.rev < desk.revs
            /\ org' = IF NoEffect(r.payload) THEN org ELSE Changed(r.payload)
            /\ acts' = IF r.current /\ ~NoEffect(r.payload)
                       THEN [acts EXCEPT ![r.op] = @ + 1] ELSE acts
            /\ store' = Completes(r, org')
            /\ Answer(r, org')
    /\ UNCHANGED <<lastKey, recent, desk>>

\* VerifyEmailView: a member who proves their address completes the
\* registration and advances the revision an approval carries.
MemberVerifies ==
    /\ org.status # "suspended" /\ org.rev < desk.revs
    /\ org' = [org EXCEPT !.ready = TRUE, !.rev = @ + 1]
    /\ UNCHANGED <<view, task, hook, lastKey, call, net, store, recent, acts, desk>>

\* The authenticator step-up grows old, and is renewed on the account page.
StepUp(o) ==
    /\ recent' = [recent EXCEPT ![o] = ~@]
    /\ UNCHANGED <<org, view, task, hook, lastKey, call, net, store, acts, desk>>

ConsoleNext ==
    \/ \E o \in desk.operators :
          \/ \E kind \in desk.tasks, reason \in desk.reasons \cup {None} : OpenDialog(o, kind, reason)
          \/ \E reason \in desk.reasons : EditReason(o, reason)
          \/ \E f \in Fields : EditField(o, f)
          \/ CloseDialog(o) \/ Refetch(o) \/ Send(o) \/ GiveUp(o) \/ StepUp(o)
    \/ \E r \in net : LoseRequest(r) \/ Serve(r)
    \/ MemberVerifies

ConsoleSpec == ConsoleInit /\ [][ConsoleNext]_consoleVars

-----------------------------------------------------------------------------
(* Every variable keeps its type.                                          *)
ConsoleTypeOK ==
    /\ desk \in ConsoleScope
    /\ org \in Organization
    /\ view \in [Operators -> Organization]
    /\ task \in [Operators -> Task \cup {None}]
    /\ lastKey \in 0..MaxKeys
    /\ call \in [Operators -> Attempt \cup {None}]
    /\ \A r \in net : r.op \in Operators /\ r.key \in 1..lastKey
                      /\ r.copy \in 1..MaxCopies /\ r.payload \in Payload
    /\ \A k \in 1..MaxKeys : store[k] # None => k <= lastKey
                                                /\ store[k].body \in Organization
    /\ recent \in [Operators -> BOOLEAN]
    /\ acts \in [Operators -> 0..2]

(* One confirmation acts once: however often an unchanged dialog is        *)
(* retried after failed connections, and however late the first request    *)
(* arrives, its change is made at most once (useIdempotencyKey with        *)
(* idempotent_system_mutation). And no changed payload travels under an    *)
(* old key: a request on its way never carries a key that completed for a  *)
(* different payload or operator ("avoiding ambiguous 409s",               *)
(* useIdempotencyKey.ts).                                                  *)
ActsOnce ==
    /\ \A o \in Operators : acts[o] <= 1
    /\ \A r \in net : store[r.key] # None =>
          store[r.key].payload = r.payload /\ store[r.key].op = r.op
=============================================================================

---------------------------- MODULE WorkspaceSync ----------------------------
(***************************************************************************)
(* The workspace each browser keeps of its organization's records, and how  *)
(* it stays up to date: a poll by revision every five seconds, and the      *)
(* answers of the browser's own writes merged in between                    *)
(* (frontend/src/app/store.tsx, VesselCalls.tsx, MobileApp.tsx; the retired  *)
(* clients calabar/app.jsx and mobile/mobile-app.jsx work the same way with  *)
(* another rule for the poll cursor).                                       *)
(*                                                                         *)
(* A record is known by its version; what it says is left out. An open call *)
(* is pending or in progress, an open inspection a draft. history is the    *)
(* server's state at every revision and known the newest version of a record *)
(* a client was ever sent: both only serve to state properties.             *)
(***************************************************************************)
EXTENDS Integers, Sequences, FiniteSets, FiniteSetsExt

CONSTANTS
  Client, Call, Inspection,
  CallOf,       \* the vessel call of each inspection
  Nobody,       \* no record is open
  SyncScopes,   \* what the behaviours of a run contain; each keeps to one of them
  MaxInFlight   \* polls of one client that overlap

Entity == Call \cup Inspection

\* retired: the rules of the retired clients and their server, or the current ones;
\* surveyors: the clients whose users open the capture screen; revs: how many revisions.
ASSUME SyncAssumption ==
  /\ Call \cap Inspection = {} /\ Nobody \notin Entity
  /\ CallOf \in [Inspection -> Call]
  /\ SyncScopes \subseteq [retired : BOOLEAN, surveyors : SUBSET Client, revs : Nat \ {0}]
  /\ MaxInFlight \in Nat

VARIABLES
  history,  \* history[r] is the server's records at revision r
  store,    \* what each client shows
  poll,     \* polls under way
  write,    \* the write under way of each client
  known,    \* the newest version of each record a client was sent
  reach     \* the one of SyncScopes this behaviour keeps to

syncVars == <<history, store, poll, write, known, reach>>

Legacy == reach.retired

Absent == [version |-> 0, status |-> "absent"]
NoWrite == [phase |-> "none"]

rev == Len(history)
server == history[rev]

Status == {"absent", "open", "completed", "cancelled"}
Row == [version : 0..reach.revs, status : Status]

-----------------------------------------------------------------------------
(* What a client shows                                                      *)

\* addCall puts the new call in front and mergeCall replaces the listed copies;
\* mergeInspection drops an older copy first, the retired clients do not.
CopiesAfterMerge(s, w, e) ==
  CASE w.rows[e].version = 0 -> 0
    [] w.rows[e].version # 0 /\ e \in Inspection -> IF Legacy THEN s.copies[e] + 1 ELSE 1
    [] w.rows[e].version # 0 /\ e \in Call ->
         IF w.kind = "create" THEN s.copies[e] + 1 ELSE s.copies[e]

\* Mutant: the retired clients take the newest revision, as the current one does.
NewestRev(s, r) == Max({s.rev, r})

\* Mutant: the cursor counts the client's own writes instead of taking the answer's revision.
CountsWrites(s, r) == IF Legacy THEN s.rev ELSE s.rev + 1

\* The poll cursor after a write answered with revision r.
AdvanceRev(s, r) ==
  IF Legacy THEN (IF r = s.rev + 1 THEN r ELSE s.rev) ELSE Max({s.rev, r})

\* Mutant: the capture stays open.
KeepCapture(s) == s

\* An open capture whose call is no longer listed is closed.
CloseCapture(s) ==
  IF s.capture # Nobody /\ s.copies[s.capture] = 0 THEN [s EXCEPT !.capture = Nobody] ELSE s

\* mergeCall, mergeInspection and addCall: the records the answer holds, and the cursor.
MergeWrite(s, w) ==
  CloseCapture(
    [s EXCEPT !.rev = AdvanceRev(s, w.rev),
              !.row = [e \in Entity |-> IF e \in w.shown THEN w.rows[e] ELSE @[e]],
              !.copies = [e \in Entity |->
                            IF e \in w.shown THEN CopiesAfterMerge(s, w, e) ELSE @[e]]])

\* apply: everything is replaced by the snapshot.
ApplyState(s, rows, r) ==
  CloseCapture([s EXCEPT !.rev = r, !.row = rows,
                         !.copies = [e \in Entity |-> IF rows[e].version = 0 THEN 0 ELSE 1]])

Show(c, rows) == known' = [known EXCEPT ![c] = [e \in Entity |-> Max({@[e], rows[e].version})]]

-----------------------------------------------------------------------------
(* Polling                                                                  *)

SendPoll(c) ==
  /\ Cardinality(poll[c]) < MaxInFlight
  /\ poll' = [poll EXCEPT ![c] = @ \cup
                {[asked |-> store[c].rev, got |-> 0]}]
  /\ UNCHANGED <<history, store, write, known>>

\* StateView.get: nothing is sent to a client that has the current revision.
Unchanged(asked) == asked = rev

AnswerPoll(c, p) ==
  /\ p.got = 0
  /\ poll' = [poll EXCEPT ![c] = (@ \ {p}) \cup
                (IF Unchanged(p.asked) THEN {} ELSE {[p EXCEPT !.got = rev]})]
  /\ UNCHANGED <<history, store, write, known>>

\* Snapshots may arrive in another order than they were taken.
ApplyPoll(c, p) ==
  /\ p.got # 0
  /\ poll' = [poll EXCEPT ![c] = @ \ {p}]
  /\ store' = [store EXCEPT ![c] = ApplyState(@, history[p.got], p.got)]
  /\ Show(c, history[p.got])
  /\ UNCHANGED <<history, write>>

LosePoll(c, p) ==
  /\ poll' = [poll EXCEPT ![c] = @ \ {p}]
  /\ UNCHANGED <<history, store, write, known>>

-----------------------------------------------------------------------------
(* Screens                                                                  *)

\* form.seen is the version whose contents the fields started from, or hold.
\* EditVesselCall, and NewInspection for a draft, copy the record into their fields once,
\* when they open. The retired clients have neither.
OpenForm(c, e) ==
  /\ ~Legacy
  /\ store[c].copies[e] > 0 /\ store[c].row[e].status = "open"
  /\ store[c].form.entity = Nobody
  /\ write[c] = NoWrite
  /\ store' = [store EXCEPT ![c].form = [entity |-> e, seen |-> store[c].row[e].version]]
  /\ UNCHANGED <<history, poll, write, known>>

CloseForm(c) ==
  /\ store[c].form.entity # Nobody /\ write[c] = NoWrite
  /\ store' = [store EXCEPT ![c].form = [entity |-> Nobody, seen |-> 0]]
  /\ UNCHANGED <<history, poll, write, known>>

\* A surveyor opens the capture of a listed call.
OpenCapture(c, e) ==
  /\ c \in reach.surveyors /\ e \in Call
  /\ store[c].copies[e] > 0 /\ store[c].row[e].status = "open"
  /\ store[c].capture = Nobody
  /\ store' = [store EXCEPT ![c].capture = e]
  /\ UNCHANGED <<history, poll, write, known>>

LeaveCapture(c) ==
  /\ store[c].capture # Nobody
  /\ store' = [store EXCEPT ![c].capture = Nobody]
  /\ UNCHANGED <<history, poll, write, known>>

-----------------------------------------------------------------------------
(* Writes                                                                   *)

\* aim: an inspection is to be saved as a draft or completed.
Aim == {"save", "complete"}
Pending(kind, e, version, seen, aim) ==
  [phase |-> "sent", kind |-> kind, entity |-> e, version |-> version, seen |-> seen,
   aim |-> aim, rows |-> [f \in Entity |-> Absent], shown |-> {}, rev |-> 0]

SendCreate(c, e) ==
  /\ e \in Call /\ write[c] = NoWrite
  /\ store[c].copies[e] = 0 /\ server[e].version = 0
  /\ write' = [write EXCEPT ![c] = Pending("create", e, 0, 0, "save")]
  /\ UNCHANGED <<history, store, poll, known>>

\* addInspection for a call of the list, as a draft or to be completed.
SendInspection(c, i, aim) ==
  /\ i \in Inspection /\ write[c] = NoWrite
  /\ store[c].copies[CallOf[i]] > 0 /\ store[c].row[CallOf[i]].status = "open"
  /\ server[i].version = 0
  /\ write' = [write EXCEPT ![c] = Pending("draft", i, 0, 0, aim)]
  /\ UNCHANGED <<history, store, poll, known>>

\* store.updateCall and doSubmit take the version from the list at this moment, not the
\* one the form was filled from.
SendUpdate(c, aim) ==
  LET e == store[c].form.entity IN
  /\ e # Nobody /\ write[c] = NoWrite
  /\ aim = "complete" => e \in Inspection
  /\ write' = [write EXCEPT ![c] =
                 Pending("update", e, store[c].row[e].version, store[c].form.seen, aim)]
  /\ UNCHANGED <<history, store, poll, known>>

\* The current screen offers it for an open call, the retired one for any.
SendCancel(c, e) ==
  /\ e \in Call /\ write[c] = NoWrite
  /\ store[c].copies[e] > 0 /\ (Legacy \/ store[c].row[e].status = "open")
  /\ write' = [write EXCEPT ![c] =
       Pending("cancel", e, store[c].row[e].version, store[c].row[e].version, "save")]
  /\ UNCHANGED <<history, store, poll, known>>

Used(e) == \E r \in DOMAIN history : history[r][e].version # 0

\* Mutant: any version is accepted.
AnyVersion(w) ==
  IF w.kind \in {"create", "draft"} THEN ~Used(w.entity) ELSE server[w.entity].status = "open"

\* The server's checks: a record is new, its call takes inspections, and a written record
\* is of a status that may be written and, but for the retired server, unchanged since.
Accepts(w) ==
  LET row == server[w.entity]
      unchanged == Legacy \/ row.version = w.version
  IN
  CASE w.kind = "create" -> ~Used(w.entity)
    [] w.kind = "draft" ->
         ~Used(w.entity) /\ server[CallOf[w.entity]].status \notin {"absent", "cancelled"}
    [] w.kind = "update" ->
         unchanged /\ row.status \in (IF w.entity \in Call THEN {"open", "completed"} ELSE {"open"})
    [] w.kind = "finalize" -> unchanged
    [] w.kind = "cancel" ->
         unchanged /\ row.status \in (IF Legacy THEN {"open", "completed"} ELSE {"open"})

Now(status) == [version |-> 1, status |-> status]
Again(e, status) == [version |-> server[e].version + 1, status |-> status]

InspectionsOf(v) == {i \in Inspection : CallOf[i] = v}

\* The records after a write. A new inspection, and its completion, write its call too,
\* whatever version of it the client has; the retired server deletes a cancelled call with
\* its inspections.
Written(w) ==
  LET e == w.entity
      call == CallOf[e]
  IN
  CASE w.kind = "create" -> [server EXCEPT ![e] = Now("open")]
    [] w.kind = "draft" /\ ~Legacy ->
         [server EXCEPT ![e] = Now("open"), ![call] = Again(call, "open")]
    [] w.kind = "draft" /\ Legacy /\ w.aim = "save" -> [server EXCEPT ![e] = Now("open")]
    [] w.kind = "draft" /\ Legacy /\ w.aim = "complete" ->
         [server EXCEPT ![e] = Now("completed"), ![call] = Again(call, "completed")]
    [] w.kind = "update" -> [server EXCEPT ![e] = Again(e, server[e].status)]
    [] w.kind = "finalize" ->
         [server EXCEPT ![e] = Again(e, "completed"), ![call] = Again(call, "completed")]
    [] w.kind = "cancel" /\ ~Legacy -> [server EXCEPT ![e] = Again(e, "cancelled")]
    [] w.kind = "cancel" /\ Legacy ->
         [f \in Entity |-> IF f \in {e} \cup InspectionsOf(e) THEN Absent ELSE server[f]]

\* The records in the answer. That of a new draft leaves its call out; what a retired
\* client deleted it takes off its own lists.
Returned(w) ==
  CASE w.kind \in {"create", "update"} -> {w.entity}
    [] w.kind = "draft" -> IF Legacy THEN {w.entity, CallOf[w.entity]} ELSE {w.entity}
    [] w.kind = "finalize" -> {w.entity, CallOf[w.entity]}
    [] w.kind = "cancel" -> {w.entity} \cup (IF Legacy THEN InspectionsOf(w.entity) ELSE {})

AnswerWrite(c) ==
  LET w == write[c] IN
  /\ w.phase = "sent" /\ rev < reach.revs
  /\ IF Accepts(w)
     THEN /\ history' = Append(history, Written(w))
          /\ write' = [write EXCEPT ![c] =
               [w EXCEPT !.phase = "accepted", !.rows = Written(w), !.shown = Returned(w),
                         !.rev = rev + 1]]
     ELSE /\ write' = [write EXCEPT ![c].phase = "refused"]
          /\ UNCHANGED history
  /\ UNCHANGED <<store, poll, known>>

\* persistInspection goes on to complete what it has just saved and merges only the answer
\* to that; every other answer is merged at once and the form closed. After an error the
\* form stays.
ReceiveWrite(c) ==
  LET w == write[c]
      s == MergeWrite(store[c], w)
      goesOn == ~Legacy /\ w.aim = "complete" /\ w.kind # "finalize"
  IN
  /\ w.phase \in {"accepted", "refused"}
  /\ IF w.phase = "accepted"
     THEN /\ known' = [known EXCEPT ![c] = [e \in Entity |->
               IF e \in w.shown THEN Max({@[e], w.rows[e].version}) ELSE @[e]]]
          /\ IF goesOn
             THEN /\ write' = [write EXCEPT ![c] =
                       Pending("finalize", w.entity, w.rows[w.entity].version, w.seen, "complete")]
                  /\ store' = [store EXCEPT ![c].form.seen = w.rows[w.entity].version]
             ELSE /\ write' = [write EXCEPT ![c] = NoWrite]
                  /\ store' = [store EXCEPT ![c] =
                       [s EXCEPT !.form = [entity |-> Nobody, seen |-> 0]]]
     ELSE write' = [write EXCEPT ![c] = NoWrite] /\ UNCHANGED <<store, known>>
  /\ UNCHANGED <<history, poll>>

\* The form stays open; if its edit was accepted, it holds what the record now says.
LoseWrite(c) ==
  LET w == write[c]
      landed == w.phase = "accepted" /\ w.kind = "update"
  IN
  /\ w # NoWrite
  /\ write' = [write EXCEPT ![c] = NoWrite]
  /\ store' = [store EXCEPT ![c].form.seen = IF landed THEN w.rows[w.entity].version ELSE @]
  /\ UNCHANGED <<history, poll, known>>

-----------------------------------------------------------------------------
\* Every client has loaded the first revision; one call is on record.
SyncInit ==
  \E first \in Call :
    LET rows == [e \in Entity |->
                   IF e = first THEN [version |-> 1, status |-> "open"] ELSE Absent]
        blank == [rev |-> 0, row |-> rows, copies |-> [e \in Entity |-> 0],
                  form |-> [entity |-> Nobody, seen |-> 0], capture |-> Nobody]
    IN /\ history = <<rows>>
       /\ store = [c \in Client |-> ApplyState(blank, rows, 1)]
       /\ poll = [c \in Client |-> {}]
       /\ write = [c \in Client |-> NoWrite]
       /\ known = [c \in Client |-> [e \in Entity |-> rows[e].version]]
       /\ reach \in SyncScopes

SyncNext ==
  /\ \E c \in Client :
       \/ SendPoll(c)
       \/ \E p \in poll[c] : AnswerPoll(c, p) \/ ApplyPoll(c, p) \/ LosePoll(c, p)
       \/ \E e \in Entity :
            \/ OpenForm(c, e) \/ SendCreate(c, e) \/ OpenCapture(c, e) \/ SendCancel(c, e)
            \/ \E aim \in Aim : SendInspection(c, e, aim)
       \/ CloseForm(c)
       \/ LeaveCapture(c)
       \/ \E aim \in Aim : SendUpdate(c, aim)
       \/ AnswerWrite(c)
       \/ ReceiveWrite(c)
       \/ LoseWrite(c)
  /\ UNCHANGED reach

SyncSpec == SyncInit /\ [][SyncNext]_syncVars

-----------------------------------------------------------------------------
(* Properties                                                               *)

\* Rows, cursors and requests hold values of their kinds, and no client is ahead of the
\* server: a cursor names a revision that exists.
SyncTypeOK ==
  /\ \A r \in DOMAIN history : history[r] \in [Entity -> Row]
  /\ \A c \in Client :
       /\ store[c].row \in [Entity -> Row]
       /\ store[c].rev \in 1..rev
       /\ store[c].form.entity \in Entity \cup {Nobody}
       /\ store[c].capture \in Call \cup {Nobody}
       /\ \A p \in poll[c] : p.asked \in 1..rev /\ p.got \in 0..rev

\* "Never skip unseen revisions": a retired client whose cursor is r was sent every record
\* as new as revision r has it, so a poll that answers "unchanged" hides nothing from it,
\* and when it learns of the end of a call it "closes the capture flow": no capture stays
\* open on a call that its list no longer has. The current client's cursor takes the
\* newest revision and does skip.
RetiredKeepsUp ==
  Legacy => \A c \in Client :
    /\ \A e \in Entity : known[c][e] >= history[store[c].rev][e].version
    /\ store[c].capture # Nobody => store[c].row[store[c].capture].version # 0

\* An edit, a completion or a cancellation that the server accepts replaces a version of
\* that record its client was sent: a stale list is refused with a conflict. (The call of
\* a new or completed inspection is written without such a check.)
NoBlindWrite ==
  \A c \in Client :
    LET w == write[c] IN
    w # NoWrite /\ w.phase = "accepted" /\ w.kind \in {"update", "finalize", "cancel"} /\ ~Legacy =>
      known[c][w.entity] >= w.rows[w.entity].version - 1

\* "The resource changed. Refresh and try again": an edit the server accepts was made on the
\* version it replaces, the one the form of the current client was filled from.
EditOfCurrentVersion ==
  \A c \in Client :
    LET w == write[c] IN
    ~Legacy /\ w # NoWrite /\ w.phase = "accepted" /\ w.kind = "update" =>
      w.seen = w.rows[w.entity].version - 1

=============================================================================

------------------------------ MODULE MCStore -------------------------------
(***************************************************************************)
(* The two halves of the browser's store for TLC: the workspace that is     *)
(* kept up to date, and the queue of captures. They share no variable, so   *)
(* the run explores one of them at a time.                                  *)
(***************************************************************************)
EXTENDS WorkspaceSync, OfflineQueue, TLC

CONSTANTS c1, c2, m1, m2

\* One call, which the inspections are of.
MCCallOf == [i \in Inspection |-> CHOOSE v \in Call : TRUE]

\* Two writes under the current rules, and with a capture screen under the retired ones.
MCSyncScopes ==
  {[retired |-> FALSE, surveyors |-> {}, revs |-> 3],
   [retired |-> TRUE, surveyors |-> Client, revs |-> 3]}

\* The current rules alone.
MCCurrentScope == {r \in MCSyncScopes : ~r.retired}

\* Two tabs with a new capture and an update; a sign-out and a later sign-in.
MCQueueScopes ==
  {[started |-> Mount, updates |-> {2}, faults |-> 2, cancels |-> 1, signOuts |-> 0]}
  \cup {[started |-> {m}, updates |-> {}, faults |-> 1, cancels |-> 0, signOuts |-> 1] : m \in Mount}

VARIABLE half

Init ==
  /\ half \in {"sync", "queue"}
  /\ SyncInit /\ QueueInit
  /\ half = "sync" => span = CHOOSE s \in QueueScopes : TRUE
  /\ half = "queue" => reach = CHOOSE r \in SyncScopes : TRUE

Next ==
  \/ half = "sync" /\ SyncNext /\ UNCHANGED <<queueVars, half>>
  \/ half = "queue" /\ QueueNext /\ UNCHANGED <<syncVars, half>>

Spec == Init /\ [][Next]_<<syncVars, queueVars, half>>

\* Clients, and tabs, are interchangeable, since the scopes are.
MCSymmetry == Permutations({c1, c2}) \cup Permutations({m1, m2})

\* The type invariants of the workspace and the queue.
StoreTypeOK == SyncTypeOK /\ QueueTypeOK

=============================================================================

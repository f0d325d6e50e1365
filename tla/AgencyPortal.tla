---------------------------- MODULE AgencyPortal ----------------------------
(***************************************************************************)
(* The agencies' side of a measurement plan: staff hand out a secure link  *)
(* per agency, the agency opens it in any number of browser pages and      *)
(* submits its reading once, without signing in.  Answers get lost, pages  *)
(* time out and send again, and meanwhile staff replace and revoke links,  *)
(* record readings themselves, reschedule, edit the call, finalize or      *)
(* cancel, and the platform suspends the organization.                     *)
(*                                                                         *)
(*   voyage    the vessel call: its status and name, and the access of its *)
(*             organization                                                *)
(*   links     agency links in order of creation: the agency, whether the  *)
(*             link is neither revoked nor expired, the details it was     *)
(*             made for, and the reading submitted through it with the     *)
(*             request that did so                                         *)
(*   pages     browser pages: the link of the session in the address,      *)
(*             phase, the details the form was read with, last submitted   *)
(*             body, the newest request id, and whether other agencies'    *)
(*             readings are shown                                          *)
(*   posts     submissions on their way to the server                      *)
(***************************************************************************)
EXTENDS MeasurementPlan

CONSTANTS Pages, Bodies, Names,
          MaxLinks, MaxKeys   \* largest bounds of a scope: links of the plan,
                              \* request ids of a page

Accesses == {"active", "suspended"}

\* The pages, entries, links and request ids of a scope, the names its call may get and
\* the states of access its organization may be in.
ASSUME PortalAssumption ==
    /\ MaxLinks \in Nat /\ MaxKeys \in Nat /\ NoOne \notin Bodies
    /\ \A s \in Scopes : /\ s.pages \subseteq Pages /\ s.bodies \subseteq Bodies
                         /\ s.maxLinks \in 0..MaxLinks /\ s.maxKeys \in 0..MaxKeys
                         /\ s.names \subseteq Names /\ s.names # {}
                         /\ s.access \subseteq Accesses

VARIABLES voyage, links, pages, posts

portalVars == <<voyage, links, pages, posts>>
vars == <<planVars, portalVars>>

\* What the fingerprint of a plan covers, those details of it that can change.
Details == [schedule : Schedules, name : Names]
fingerprint == [schedule |-> plan.schedule, name |-> voyage.name]

Post == [page : Pages, link : 1..MaxLinks, print : Details, body : Bodies, key : 1..MaxKeys]

\* A link that has recorded nothing can be told from one that has.
ASSUME PostAssumption == NoOne \notin Post

Page == [link : 0..MaxLinks,
         phase : {"closed", "entry", "sent", "unsure", "refused", "failed", "receipt"},
         print : Details \cup {NoOne}, body : Bodies \cup {NoOne}, key : 0..MaxKeys,
         peers : BOOLEAN]
Link == [party : Agencies, live : BOOLEAN, print : Details,
         reading : 0..MaxReadings, request : Post \cup {NoOne}]

PortalInit ==
    /\ Init
    /\ voyage \in [status : {"open"}, name : scope.names, access : {"active"}]
    /\ links = <<>>
    /\ pages = [g \in Pages |-> [link |-> 0, phase |-> "closed", print |-> NoOne,
                                 body |-> NoOne, key |-> 0, peers |-> FALSE]]
    /\ posts = {}

-----------------------------------------------------------------------------
\* Mutant: only readings that came through a link count.
ReadByLink(p) == \E i \in 1..Len(readings) : readings[i].party = p /\ readings[i].by = "agency"
HasReading(p) == LatestReturn(p, Len(readings)) # 0

Active == voyage.access = "active"

\* The voyage takes agency readings (assert_open).
Open == voyage.status = "open" /\ AcceptsReturns

\* The link can be used at all (locked_link).
Usable(i) == Active /\ links[i].live

\* Mutant: the other agencies' readings are always part of the page.
AlwaysShown(i) == TRUE
\* They are part of it once this link's own reading is recorded.
ShowsPeers(i) == links[i].reading # 0

\* A new link for agency p ends its earlier ones.
CreateLink(p) ==
    /\ Active /\ Open /\ ~HasReading(p)
    /\ Len(links) < scope.maxLinks
    /\ links' = Append([i \in 1..Len(links) |->
                            IF links[i].party = p THEN [links[i] EXCEPT !.live = FALSE]
                            ELSE links[i]],
                       [party |-> p, live |-> TRUE, print |-> fingerprint,
                        reading |-> 0, request |-> NoOne])
    /\ UNCHANGED <<planVars, voyage, pages, posts>>

\* Staff revoke the link, or it expires.
EndLink(i) ==
    /\ links[i].live
    /\ links' = [links EXCEPT ![i].live = FALSE]
    /\ UNCHANGED <<planVars, voyage, pages, posts>>

\* The vessel call is cancelled; its measurement plans are not consulted.
CancelCall ==
    /\ Active /\ voyage.status = "open"
    /\ voyage' = [voyage EXCEPT !.status = "cancelled"]
    /\ UNCHANGED <<planVars, links, pages, posts>>

\* The vessel's name or the call's reference is edited: that changes the fingerprint.
EditCall(n) ==
    /\ Active /\ voyage.status = "open" /\ n # voyage.name
    /\ voyage' = [voyage EXCEPT !.name = n]
    /\ UNCHANGED <<planVars, links, pages, posts>>

\* The platform suspends the organization or lets it in again.
ChangeAccess(a) ==
    /\ a # voyage.access
    /\ voyage' = [voyage EXCEPT !.access = a]
    /\ UNCHANGED <<planVars, links, pages, posts>>

-----------------------------------------------------------------------------
(* A page of the agency.                                                   *)

\* A page shows the form of its link, or the receipt when the reading is in.
FirstPhase(i) == IF links[i].reading # 0 THEN "receipt" ELSE "entry"

\* A page that is loaded forgets the request id it kept for a retry.
Loaded(g, i, phase) ==
    [link |-> i, phase |-> phase, print |-> fingerprint, body |-> NoOne,
     key |-> pages[g].key, peers |-> phase # "closed" /\ ShowsPeers(i)]

\* The page trades the link's token for a session and reads its form.
OpenPage(g, i) ==
    /\ pages[g].phase = "closed"
    /\ Usable(i)
    /\ links[i].reading = 0 => Open /\ links[i].print = fingerprint
    /\ pages' = [pages EXCEPT ![g] = Loaded(g, i, FirstPhase(i))]
    /\ UNCHANGED <<planVars, voyage, links, posts>>

\* The page is reloaded with the session in its address: it shows the form again even
\* when the voyage has changed or closed since.
Reload(g) ==
    LET i == pages[g].link IN
    /\ i # 0
    /\ pages' = [pages EXCEPT ![g] =
           Loaded(g, i, IF Usable(i) THEN FirstPhase(i) ELSE "closed")]
    /\ UNCHANGED <<planVars, voyage, links, posts>>

\* The page goes away and forgets the request id it kept for a retry; what
\* it sent may still arrive.
ClosePage(g) ==
    /\ pages[g].link # 0
    /\ pages' = [pages EXCEPT ![g].link = 0, ![g].phase = "closed", ![g].print = NoOne,
                              ![g].body = NoOne, ![g].peers = FALSE]
    /\ UNCHANGED <<planVars, voyage, links, posts>>

\* The same entries are sent again under the same request id.
Submit(g, b) ==
    LET k == IF pages[g].body = b THEN pages[g].key ELSE pages[g].key + 1 IN
    /\ pages[g].phase \in {"entry", "refused", "failed"}
    /\ k <= scope.maxKeys
    /\ pages' = [pages EXCEPT ![g].phase = "sent", ![g].body = b, ![g].key = k]
    /\ posts' = posts \cup {[page |-> g, link |-> pages[g].link, print |-> pages[g].print,
                             body |-> b, key |-> k]}
    /\ UNCHANGED <<planVars, voyage, links>>

\* Mutant: a link that was used refuses every further submission.
NeverReplays(r) == FALSE
\* The submission repeats the one that was recorded.
Replays(r) == links[r.link].request = r

Accepts(r) ==
    LET i == r.link IN
    /\ links[i].reading = 0
    /\ Open /\ r.print = links[i].print /\ links[i].print = fingerprint
    /\ ~HasReading(links[i].party)

\* The page takes the answer to its latest submission unless it gave up
\* on it or the answer is lost.
Answer(r, outcome, arrives) ==
    LET g == r.page
        waiting == /\ pages[g].phase = "sent" /\ pages[g].link = r.link
                   /\ pages[g].key = r.key /\ pages[g].body = r.body
                   /\ pages[g].print = r.print IN
    pages' = IF arrives /\ waiting
             THEN [pages EXCEPT ![g].phase = outcome,
                                ![g].peers = outcome = "receipt"]
             ELSE pages

\* The server takes a submission; a copy of it may still be on its way.
Receive(r, arrives, copy) ==
    LET i == r.link IN
    /\ posts' = IF copy THEN posts ELSE posts \ {r}
    /\ UNCHANGED voyage
    /\ \/ /\ ~Usable(i)
          /\ Answer(r, "failed", arrives)
          /\ UNCHANGED <<planVars, links>>
       \/ /\ Usable(i) /\ links[i].reading # 0
          /\ Answer(r, IF Replays(r) THEN "receipt" ELSE "refused", arrives)
          /\ UNCHANGED <<planVars, links>>
       \/ /\ Usable(i) /\ links[i].reading = 0 /\ ~Accepts(r)
          /\ Answer(r, "refused", arrives)
          /\ UNCHANGED <<planVars, links>>
       \/ /\ Usable(i) /\ Accepts(r)
          /\ Record(links[i].party, "agency")
          /\ links' = [links EXCEPT ![i].reading = Len(readings'), ![i].request = r]
          /\ UNCHANGED <<proposals, assessments>>
          /\ Changed(NoOne, FALSE)
          /\ Answer(r, "receipt", arrives)

\* After 15 s without an answer the page reads its record again ...
TimeOut(g) ==
    /\ pages[g].phase = "sent"
    /\ pages' = [pages EXCEPT ![g].phase = "unsure"]
    /\ UNCHANGED <<planVars, voyage, links, posts>>

\* ... and shows the receipt if the reading was recorded after all.
Recover(g) ==
    LET i == pages[g].link IN
    /\ pages[g].phase = "unsure"
    /\ Usable(i) /\ links[i].reading # 0
    /\ pages' = [pages EXCEPT ![g].phase = "receipt", ![g].peers = ShowsPeers(i)]
    /\ UNCHANGED <<planVars, voyage, links, posts>>

\* Otherwise, or when that answer is lost too, it offers to send again.
GiveUp(g) ==
    /\ pages[g].phase = "unsure"
    /\ pages' = [pages EXCEPT ![g].phase = "failed"]
    /\ UNCHANGED <<planVars, voyage, links, posts>>

PageStep(g) ==
    \/ ClosePage(g) \/ Reload(g) \/ TimeOut(g) \/ Recover(g) \/ GiveUp(g)
    \/ \E i \in 1..Len(links) : OpenPage(g, i)
    \/ \E b \in scope.bodies : Submit(g, b)

PortalNext ==
    \/ Active /\ (\E u \in scope.staff : StaffStep(u)) /\ UNCHANGED portalVars
    \/ scope.maxLinks > 0 /\ CancelCall  \* only links ask about the call
    \/ \E n \in scope.names : EditCall(n)
    \/ \E a \in scope.access : ChangeAccess(a)
    \/ \E p \in scope.parties : CreateLink(p)
    \/ \E i \in 1..Len(links) : EndLink(i)
    \/ \E g \in scope.pages : PageStep(g)
    \/ \E r \in posts, arrives, copy \in BOOLEAN : Receive(r, arrives, copy)

PortalSpec == PortalInit /\ [][PortalNext]_vars

-----------------------------------------------------------------------------
(* Properties.                                                             *)

\* Every variable keeps its type.
PortalTypeOK ==
    /\ TypeOK
    /\ voyage \in [status : {"open", "cancelled"}, name : Names, access : Accesses]
    /\ links \in Seq(Link) /\ Len(links) <= MaxLinks
    /\ pages \in [Pages -> Page]
    /\ posts \subseteq Post

\* An agency's links yield one reading at most, the agency's first: no
\* retry, second page or second link records it twice or over a staff entry,
\* and the link that was used keeps its receipt (PortalSubmissionView). It
\* is made independently: other agencies' figures are on a page only once
\* the reading of its own agency came in through a link (context_data).
OneLinkReading ==
    /\ \A i \in 1..Len(readings) : readings[i].by = "agency" =>
          /\ \A j \in 1..(i - 1) : readings[j].party # readings[i].party
          /\ \E n \in 1..Len(links) : links[n].reading = i
    /\ \A m, n \in 1..Len(links) :
          m # n /\ links[m].party = links[n].party => 0 \in {links[m].reading, links[n].reading}
    /\ \A g \in Pages : pages[g].peers =>
          \E i \in 1..Len(readings) :
             readings[i].by = "agency" /\ readings[i].party = links[pages[g].link].party

\* A page is never told that its submission was refused when that very
\* submission is the one on record (the request id of a retry).
NoFalseRefusal ==
    [][\A g \in Pages :
          pages[g].phase = "sent" /\ pages'[g].phase = "refused" =>
              links[pages[g].link].request #
                  [page |-> g, link |-> pages[g].link, print |-> pages[g].print,
                   body |-> pages[g].body, key |-> pages[g].key]]_vars
=============================================================================

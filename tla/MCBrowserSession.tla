-------------------------- MODULE MCBrowserSession --------------------------
(* A small instance of BrowserSession for TLC: two tabs, two users.         *)
EXTENDS BrowserSession, TLC

CONSTANTS t1, t2, ann, ben

\* Sign-ins while one tab loads; rotations, temporary passwords and second factors; late
\* answers to ordinary requests; lost answers and closed tabs while both tabs load.
MCScopes ==
  {[hydrating |-> {t}, requests |-> {"login"},
    clicks |-> 2, polls |-> 0, lost |-> 0, ended |-> 0, closed |-> 0] : t \in Tab}
  \cup
  {[hydrating |-> {}, requests |-> {"login", "temporary", "mfa", "rotate", "reset"},
    clicks |-> 2, polls |-> 0, lost |-> 0, ended |-> 0, closed |-> 0],
   [hydrating |-> {}, requests |-> {"login", "rotate"},
    clicks |-> 2, polls |-> 1, lost |-> 0, ended |-> 1, closed |-> 0],
   [hydrating |-> Tab, requests |-> {"login"},
    clicks |-> 1, polls |-> 0, lost |-> 1, ended |-> 0, closed |-> 1]}

\* Tabs are interchangeable, since MCScopes is, and so are users.
MCSymmetry == Permutations({ann, ben}) \cup Permutations({t1, t2})

=============================================================================

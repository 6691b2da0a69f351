---------------------------- MODULE BrowserPages ----------------------------
(***************************************************************************)
(* A browser session as BrowserPageLifecycleManager keeps it: the pages in *)
(* the order they were opened, the active page, crash reports and recovery *)
(* plans, and the gate that pauses automation for a human takeover.        *)
(* Crash and health reports name a page and may arrive at any time, also   *)
(* after the page was closed.  Calls that return an error change nothing   *)
(* unless said otherwise.  URLs, titles and times are left out.            *)
(***************************************************************************)
EXTENDS Naturals, Sequences, FiniteSets, SequencesExt

CONSTANTS PageIds,   \* browser page ids
          SessionIds, \* browser session ids
          MaxPages   \* max_pages of the manager

NoPage == "none"

BrowserPageStatus == {"Active", "Background", "Closed", "Crashed"}
BrowserPageHealthStatus == {"Healthy", "Unresponsive", "Crashed", "Closed"}
BrowserPageInfo == [id : PageIds, status : BrowserPageStatus, health : BrowserPageHealthStatus]
BrowserRecoveryStrategy == {"FailFast", "ReopenActivePage", "RelaunchSession"}

VARIABLES pages,   \* session.pages
          active,  \* session.active_page_id
          plan,    \* the last recovery plan: what it does and to which pages
          lease    \* active_takeover of the gate: a session id, or NoPage

pvars == <<pages, active, plan, lease>>

Init ==
  /\ pages = <<>>
  /\ active = NoPage
  /\ plan = [kind |-> "none", on |-> {}]
  /\ lease = NoPage

page_ids == { pages[i].id : i \in DOMAIN pages }
page(p) == CHOOSE i \in DOMAIN pages : pages[i].id = p
is_open(info) == info.status # "Closed"
open_page_count == Len(SelectSeq(pages, is_open))

\* Faulty variant: the page that was active keeps its status.
keep_others_active(s, p) ==
  [i \in DOMAIN s |-> IF s[i].id = p THEN [s[i] EXCEPT !.status = "Active"] ELSE s[i]]

\* The loop of set_active_page over the pages s.
make_active(s, p) ==
  [i \in DOMAIN s |->
     CASE s[i].id = p -> [s[i] EXCEPT !.status = "Active"]
       [] s[i].id # p /\ s[i].status = "Active" -> [s[i] EXCEPT !.status = "Background"]
       [] OTHER -> s[i]]

open_page(p) ==
  /\ open_page_count < MaxPages
  /\ p \notin page_ids
  /\ LET s == Append(pages, [id |-> p, status |-> "Background", health |-> "Healthy"])
     IN IF active = NoPage
        THEN pages' = make_active(s, p) /\ active' = p
        ELSE pages' = s /\ UNCHANGED active
  /\ UNCHANGED <<plan, lease>>

\* Closing the active page hands over to the first page that is not closed.
close_page(p) ==
  /\ p \in page_ids
  /\ LET s == [pages EXCEPT ![page(p)].status = "Closed", ![page(p)].health = "Closed"]
         rest == {i \in DOMAIN s : is_open(s[i])}
     IN \/ active # p /\ pages' = s /\ UNCHANGED active
        \/ active = p /\ rest = {} /\ pages' = s /\ active' = NoPage
        \/ /\ active = p
           /\ \E i \in rest : /\ \A j \in rest : i <= j
                             /\ pages' = make_active(s, s[i].id) /\ active' = s[i].id
  /\ UNCHANGED <<plan, lease>>

switch_page(p) ==
  /\ p \in page_ids /\ is_open(pages[page(p)])
  /\ pages' = make_active(pages, p)
  /\ active' = p
  /\ UNCHANGED <<plan, lease>>

with_health(info, h) ==
  [info EXCEPT !.health = h, !.status = IF h \in {"Crashed", "Closed"} THEN h ELSE @]

update_page_health(p, h) ==
  /\ p \in page_ids
  /\ pages' = [pages EXCEPT ![page(p)] = with_health(@, h)]
  /\ UNCHANGED <<active, plan, lease>>

\* The pages after record_crash: of one page, or (NoPage) of the browser process.
crashed(p) ==
  IF p # NoPage
  THEN [pages EXCEPT ![page(p)] = with_health(@, "Crashed")]
  ELSE [i \in DOMAIN pages |-> IF is_open(pages[i]) THEN with_health(pages[i], "Crashed") ELSE pages[i]]

record_crash(p) ==
  /\ p \in page_ids \cup {NoPage}
  /\ pages' = crashed(p)
  /\ UNCHANGED <<active, plan, lease>>

open_ids(s) == { s[i].id : i \in { j \in DOMAIN s : is_open(s[j]) } }

\* plan_recovery, on the pages s of the session; reopening needs a page.
plan_recovery(strategy, p, s) ==
  CASE strategy = "FailFast" -> [kind |-> "Fail", on |-> {}]
    [] strategy = "ReopenActivePage" -> [kind |-> "ReopenPage", on |-> {IF p # NoPage THEN p ELSE active}]
    [] strategy = "RelaunchSession" -> [kind |-> "RelaunchSession", on |-> open_ids(s)]

\* The crash is recorded also when no plan can be made.
recover_from_crash(p, strategy) ==
  /\ p \in page_ids \cup {NoPage}
  /\ pages' = crashed(p)
  /\ IF strategy = "ReopenActivePage" /\ p = NoPage /\ active = NoPage
     THEN UNCHANGED plan
     ELSE plan' = plan_recovery(strategy, p, crashed(p))
  /\ UNCHANGED <<active, lease>>

\* A second request replaces the lease of the first.
pause_for_takeover(s) ==
  /\ lease' = s
  /\ UNCHANGED <<pages, active, plan>>

resume(s) ==
  /\ lease \in {s, NoPage}
  /\ lease' = NoPage
  /\ UNCHANGED <<pages, active, plan>>

Next ==
  \/ \E p \in PageIds : open_page(p) \/ close_page(p) \/ switch_page(p)
  \/ \E p \in PageIds, h \in BrowserPageHealthStatus : update_page_health(p, h)
  \/ \E p \in PageIds \cup {NoPage} : record_crash(p)
  \/ \E p \in PageIds \cup {NoPage}, strategy \in BrowserRecoveryStrategy : recover_from_crash(p, strategy)
  \/ \E s \in SessionIds : pause_for_takeover(s) \/ resume(s)

Spec == Init /\ [][Next]_pvars

-----------------------------------------------------------------------------
TypeOK ==
  /\ pages \in Seq(BrowserPageInfo)
  /\ active \in PageIds \cup {NoPage}
  /\ plan.kind \in {"none", "Fail", "ReopenPage", "RelaunchSession"} /\ plan.on \subseteq PageIds
  /\ lease \in SessionIds \cup {NoPage}

\* The active page id, kept beside the pages' own statuses, follows them through
\* opening, closing, switching and late crash reports: only the active page is
\* Active, it is a page of the session, and while a page is usable there is one.
ActiveTracked ==
  /\ active # NoPage => active \in page_ids
  /\ \A i \in DOMAIN pages : pages[i].status = "Active" => pages[i].id = active
  /\ active = NoPage => \A i \in DOMAIN pages : pages[i].status \in {"Closed", "Crashed"}

\* The manager enforces max_pages (test page_lifecycle_manager_enforces_max_pages).
\* A crash report for a page that was closed makes it count as open again.
OpenPagesBounded == open_page_count <= MaxPages
=============================================================================

-------------------------- MODULE BrowserExecutor ---------------------------
(***************************************************************************)
(* CdpBrowserExecutor::execute and the Chromium it drives.  The lifecycle  *)
(* manager launches or connects and shuts down before the executor takes   *)
(* it over; after that calls of execute run concurrently on one browser.   *)
(* A call is a list of steps, most of them awaits on the browser; each can *)
(* fail, and what was done before it stays done.  No call closes the page  *)
(* it opened.  Page content, selectors and scripts are data left out: an   *)
(* argument is valid or not.                                               *)
(***************************************************************************)
EXTENDS Naturals, Sequences

CONSTANTS Calls,      \* calls of execute
          Fields,     \* number of fields of a fill_form input
          HasStore,   \* an artifact store is configured
          Polls,      \* timeout_ms of wait_for_element in poll intervals
          MaxClock    \* bound: milliseconds that pass

VARIABLES browser,   \* lifecycle.browser is Some
          handler,   \* lifecycle.handler: the task that polls the connection
          owned,     \* the executor owns the lifecycle manager
          calls,     \* per call: kind, option, next step, polls, result
          artifacts, \* ids in the artifact store
          millis     \* Utc::now, the source of artifact ids

evars == <<browser, handler, owned, calls, artifacts, millis>>

\* The steps of each action.  opt is the input's option: a snapshot, a
\* selector or a submit, whichever the action has.
visit == <<"new_page", "goto">>
open_url(opt) == <<"url">> \o visit \o (IF opt THEN <<"read">> ELSE <<>>)
extract_content(opt) == <<"url">> \o visit \o (IF opt THEN <<"read", "put">> ELSE <<>>)
get_interactive_snapshot(opt) == <<"url">> \o visit \o <<"read">>
click_element(opt) == <<"url", "arg">> \o visit \o <<"find", "act">>
type_text(opt) ==
  <<"url">> \o visit \o (IF opt THEN <<"arg", "find", "act", "act">> ELSE <<"read", "refuse">>)
fill_form(opt) ==
  LET field == <<"arg", "find", "act", "act">>
      fill[n \in 0..Fields] == IF n = 0 THEN <<>> ELSE fill[n - 1] \o field
  IN <<"url", "arg">> \o visit \o fill[Fields] \o (IF opt THEN <<"submit">> ELSE <<>>)
select_option(opt) == <<"url", "arg">> \o visit \o <<"act">>
scroll_page(opt) == <<"url">> \o visit \o (IF opt THEN <<"arg">> ELSE <<>>) \o <<"act">>
press_key(opt) == <<"url">> \o visit \o (IF opt THEN <<"arg", "find">> ELSE <<>>) \o <<"act">>
execute_js(opt) == <<"url", "arg">> \o visit \o <<"act", "read">>
wait_for_element(opt) == <<"url", "arg">> \o visit \o <<"poll">>
get_page_screenshot(opt) ==
  <<"url">> \o visit \o (IF opt THEN <<"arg", "find">> ELSE <<>>) \o <<"read", "put_quiet">>
download_file(opt) == <<"arg", "put">>
upload_file(opt) == <<"approval">>
handle_dialog(opt) == <<"arg">>
handle_permission_prompt(opt) == <<"arg", "permission">>

\* The match of execute: what follows once Chromium is known to be there.
\* "unmatched" stands for the known kinds that no arm handles.
steps(kind, opt) ==
  CASE kind = "open_url" -> open_url(opt)
    [] kind = "extract_content" -> extract_content(opt)
    [] kind = "get_interactive_snapshot" -> get_interactive_snapshot(opt)
    [] kind = "click_element" -> click_element(opt)
    [] kind = "type_text" -> type_text(opt)
    [] kind = "fill_form" -> fill_form(opt)
    [] kind = "select_option" -> select_option(opt)
    [] kind = "scroll_page" -> scroll_page(opt)
    [] kind = "press_key" -> press_key(opt)
    [] kind = "execute_js" -> execute_js(opt)
    [] kind = "wait_for_element" -> wait_for_element(opt)
    [] kind = "get_page_screenshot" -> get_page_screenshot(opt)
    [] kind = "download_file" -> download_file(opt)
    [] kind = "upload_file" -> upload_file(opt)
    [] kind = "handle_dialog" -> handle_dialog(opt)
    [] kind = "handle_permission_prompt" -> handle_permission_prompt(opt)
    [] kind = "unmatched" -> <<"unsupported">>

KNOWN_BROWSER_ACTIONS ==
  {"open_url", "extract_content", "get_interactive_snapshot", "click_element", "type_text",
   "fill_form", "select_option", "scroll_page", "press_key", "execute_js", "wait_for_element",
   "get_page_screenshot", "download_file", "upload_file", "handle_dialog",
   "handle_permission_prompt", "unmatched"}

\* result: none, an ActionStatus or an ActionExecutorError; id: the artifact id
\* the result's payload names; acted: how many times the page was acted on.
Fresh == [kind |-> "none", opt |-> FALSE, at |-> 0, polls |-> 0, result |-> "none", id |-> 0, acted |-> 0]

Init ==
  /\ browser = FALSE /\ handler = FALSE /\ owned = FALSE
  /\ calls = [c \in Calls |-> Fresh]
  /\ artifacts = {}
  /\ millis = 1

-----------------------------------------------------------------------------
\* launch and connect: the browser and the task that polls it, or an error.
launch ==
  /\ ~owned
  /\ browser' = TRUE /\ handler' = TRUE
  /\ UNCHANGED <<owned, calls, artifacts, millis>>

\* Faulty variant: the polling task is stopped before the browser is closed.
shutdown_handler_first ==
  /\ ~owned
  /\ handler' = FALSE
  /\ browser' \in {FALSE, browser}
  /\ UNCHANGED <<owned, calls, artifacts, millis>>

\* The browser is taken first; when closing it fails the task is left running.
shutdown ==
  /\ ~owned
  /\ browser' = FALSE
  /\ handler' \in {FALSE, browser /\ handler}
  /\ UNCHANGED <<owned, calls, artifacts, millis>>

\* CdpBrowserExecutor::new takes the manager; it lends it out by & only.
new_executor ==
  /\ ~owned
  /\ owned' = TRUE
  /\ UNCHANGED <<browser, handler, calls, artifacts, millis>>

tick ==
  /\ millis < MaxClock
  /\ millis' = millis + 1
  /\ UNCHANGED <<browser, handler, owned, calls, artifacts>>

-----------------------------------------------------------------------------
ended(c) == calls[c].result # "none"
returns(c, r) == calls' = [calls EXCEPT ![c].result = r]

\* An unknown kind is refused before Chromium is looked for.
execute(c, kind, opt) ==
  /\ owned /\ calls[c] = Fresh
  /\ CASE kind \notin KNOWN_BROWSER_ACTIONS -> returns(c, "NotSupported")
       [] kind \in KNOWN_BROWSER_ACTIONS /\ ~browser -> returns(c, "ExecutionFailed")
       [] OTHER -> calls' = [calls EXCEPT ![c].kind = kind, ![c].opt = opt, ![c].at = 1]
  /\ UNCHANGED <<browser, handler, owned, artifacts, millis>>

plan_of(c) == steps(calls[c].kind, calls[c].opt)
running(c) == calls[c].at # 0 /\ ~ended(c)
current(c) == plan_of(c)[calls[c].at]

\* The call after a step that succeeded: the next one, or the Ok at the end.
advanced(c, call) ==
  IF call.at = Len(plan_of(c)) THEN [call EXCEPT !.result = "Completed"] ELSE [call EXCEPT !.at = @ + 1]

\* Deserialization, validate_url and the other checks of the input.
check_input(c) ==
  /\ running(c) /\ current(c) \in {"url", "arg", "refuse"}
  /\ \/ current(c) # "refuse" /\ calls' = [calls EXCEPT ![c] = advanced(c, @)]
     \/ returns(c, "InvalidInput")
  /\ UNCHANGED <<browser, handler, owned, artifacts, millis>>

\* An await on the browser; submitting a form ignores the errors.
use_page(c) ==
  /\ running(c) /\ current(c) \in {"new_page", "goto", "find", "read", "act", "submit"}
  /\ \/ calls' = [calls EXCEPT ![c] = advanced(c, IF current(c) \in {"act", "submit"}
                                                   THEN [calls[c] EXCEPT !.acted = @ + 1] ELSE @)]
     \/ current(c) # "submit" /\ returns(c, "ExecutionFailed")
  /\ UNCHANGED <<browser, handler, owned, artifacts, millis>>

\* Faulty variant: the timeout starts again instead of ending the wait.
poll_restarted(c) ==
  /\ running(c) /\ current(c) = "poll"
  /\ \/ calls' = [calls EXCEPT ![c] = advanced(c, @)]
     \/ calls' = [calls EXCEPT ![c].polls = IF @ < Polls THEN @ + 1 ELSE 0]
  /\ UNCHANGED <<browser, handler, owned, artifacts, millis>>

\* The loop of wait_for_element: look, give up at the timeout, sleep.
poll(c) ==
  /\ running(c) /\ current(c) = "poll"
  /\ \/ calls' = [calls EXCEPT ![c] = advanced(c, @)]
     \/ calls[c].polls >= Polls /\ returns(c, "ExecutionFailed")
     \/ calls[c].polls < Polls /\ calls' = [calls EXCEPT ![c].polls = @ + 1]
  /\ UNCHANGED <<browser, handler, owned, artifacts, millis>>

\* Faulty variant: the error of the artifact store is ignored.
put_unchecked(c) ==
  /\ running(c) /\ current(c) \in {"put", "put_quiet"}
  /\ artifacts' \in {artifacts, artifacts \cup {millis}}
  /\ calls' = [calls EXCEPT ![c] = advanced(c, [@ EXCEPT !.id = IF current(c) = "put" THEN millis ELSE 0])]
  /\ UNCHANGED <<browser, handler, owned, millis>>

\* The descriptor goes to the store under an id made of the time.  A download
\* or a DOM snapshot fails with the store and names the id in its result; a
\* screenshot does neither.
put(c) ==
  /\ running(c) /\ current(c) \in {"put", "put_quiet"}
  /\ \/ /\ artifacts' = IF HasStore THEN artifacts \cup {millis} ELSE artifacts
        /\ calls' = [calls EXCEPT ![c] = advanced(c, [@ EXCEPT !.id = IF current(c) = "put" THEN millis ELSE 0])]
     \/ /\ HasStore
        /\ IF current(c) = "put" THEN returns(c, "ExecutionFailed")
                                 ELSE calls' = [calls EXCEPT ![c] = advanced(c, @)]
        /\ UNCHANGED artifacts
  /\ UNCHANGED <<browser, handler, owned, millis>>

\* An upload is never done: a valid one asks for approval.
decide(c) ==
  /\ running(c) /\ current(c) \in {"approval", "permission", "unsupported"}
  /\ \E r \in CASE current(c) = "approval" -> {"ApprovalRequired", "Denied"}
                [] current(c) = "permission" -> {"ApprovalRequired", "Denied", "Completed"}
                [] current(c) = "unsupported" -> {"NotSupported"} : returns(c, r)
  /\ UNCHANGED <<browser, handler, owned, artifacts, millis>>

step(c) == check_input(c) \/ use_page(c) \/ poll(c) \/ put(c) \/ decide(c)

Next ==
  \/ launch \/ shutdown \/ new_executor \/ tick
  \/ \E c \in Calls, kind \in KNOWN_BROWSER_ACTIONS \cup {"other"}, opt \in BOOLEAN : execute(c, kind, opt)
  \/ \E c \in Calls : check_input(c) \/ use_page(c) \/ poll(c) \/ put(c) \/ decide(c)

Spec == Init /\ [][Next]_evars

\* Awaits on the browser and the store return, with an answer or an error.
Fairness == \A c \in Calls : WF_evars(step(c))

-----------------------------------------------------------------------------
TypeOK ==
  /\ browser \in BOOLEAN /\ handler \in BOOLEAN /\ owned \in BOOLEAN
  /\ millis \in 1..MaxClock /\ artifacts \subseteq 1..MaxClock
  /\ \A c \in Calls : calls[c].polls \in 0..Polls

\* A browser the manager offers is polled: without its task every await on it
\* would hang.
BrowserDriven == browser => handler

\* A result that names an artifact was returned after the store kept it; the
\* other results name none.
ArtifactKept ==
  \A c \in Calls : HasStore /\ calls[c].id # 0 => calls[c].id \in artifacts

\* Every call that got through to the browser returns, the polling ones too.
EveryCallReturns == \A c \in Calls : running(c) ~> ended(c)
=============================================================================

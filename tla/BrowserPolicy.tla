---------------------------- MODULE BrowserPolicy ----------------------------
(***************************************************************************)
(* The decisions of the browser kernel that hosts ask for: the security    *)
(* policy on URLs and scripts, the prompt policy on dialogs and permission *)
(* prompts, the wait strategy of a navigation and the approval of uploads. *)
(* Each is a function of a policy and an input.  A host is known by the    *)
(* domain lists it matches, a script by its risk and by whether it names   *)
(* credentials; times are in small units.                                  *)
(***************************************************************************)
EXTENDS Naturals, FiniteSetsExt

CONSTANTS MaxTime  \* bound: the largest timeout asked for

Decision == {"Allow", "Ask", "Deny"}
\* effective_strategy returned an error.
Error == [timeout |-> 0, poll |-> 0]

BrowserSecurityPolicy == [default_decision : Decision, high_risk_domain_decision : Decision]
Host == [denied : BOOLEAN, allowed : BOOLEAN, high_risk : BOOLEAN]
\* classify and detect: the terms of a script that make it risky and those that
\* name credentials overlap, but neither list contains the other.
Script == [js_risk : {"Low", "Medium", "High"}, credential : BOOLEAN]

evaluate_url(policy, host) ==
  CASE host.denied -> "Deny"
    [] ~host.denied /\ host.allowed -> "Allow"
    [] OTHER -> policy.default_decision

\* Faulty variant: the scripts are weighed before the domain is.
evaluate_script_first(policy, host, script) ==
  LET url == evaluate_url(policy, host)
      d1 == IF url = "Allow" /\ (script.js_risk = "High" \/ script.credential) THEN "Ask" ELSE url
  IN IF host.high_risk /\ d1 \in {"Allow", "Ask"} THEN policy.high_risk_domain_decision ELSE d1

\* The decision passes through four overrides in this order.
evaluate_execute_js(policy, host, script) ==
  LET d0 == evaluate_url(policy, host)
      d1 == IF host.high_risk /\ d0 = "Allow" THEN policy.high_risk_domain_decision ELSE d0
      d2 == IF host.high_risk /\ d1 = "Ask" THEN policy.high_risk_domain_decision ELSE d1
      d3 == IF script.js_risk = "High" /\ d2 = "Allow" THEN "Ask" ELSE d2
  IN IF script.credential /\ d3 = "Allow" THEN "Ask" ELSE d3

NavigationTimeoutPolicy == [default : 0..MaxTime, max : 0..MaxTime, poll : 0..MaxTime]

validate_timeouts(p) ==
  /\ p.default > 0 /\ p.max > 0 /\ p.default <= p.max
  /\ p.poll > 0 /\ p.poll <= p.default

\* NavigationWaitStrategy::validate.
validate_strategy(s) == s.timeout > 0 /\ s.poll > 0 /\ s.poll <= s.timeout

\* requested is MaxTime + 1 for None.
effective_strategy(p, requested) ==
  LET wanted == IF requested > MaxTime THEN p.default ELSE requested
      timeout == Min({wanted, p.max})
      s == [timeout |-> timeout, poll |-> Min({p.poll, timeout})]
  IN IF validate_timeouts(p) /\ validate_strategy(s) THEN s ELSE Error

BrowserDialogKind == {"Alert", "Confirm", "Prompt", "BeforeUnload"}
DialogDecision == {"Accept", "Dismiss"}

\* The text is the policy's, or else the page's default.
resolve_dialog(policy, kind, policy_text, page_text) ==
  [decision |-> policy[kind],
   text |-> IF kind # "Prompt" \/ policy[kind] # "Accept" THEN "none"
            ELSE IF policy_text THEN "policy" ELSE IF page_text THEN "page" ELSE "none"]

resolve_permission_prompt(default, allowed) == IF allowed THEN "Allow" ELSE default

\* approval_requirement of an upload whose input is valid or not.
approval_requirement(valid) == IF valid THEN "Ask" ELSE "Deny"

VARIABLE asked  \* the last question and its answer

Init == asked = [op |-> "none"]

AskScript ==
  \E p \in BrowserSecurityPolicy, h \in Host, s \in Script :
    asked' = [op |-> "js", policy |-> p, host |-> h, script |-> s, answer |-> evaluate_execute_js(p, h, s)]

AskWait ==
  \E p \in NavigationTimeoutPolicy, t \in 0..(MaxTime + 1) :
    asked' = [op |-> "wait", policy |-> p, requested |-> t, strategy |-> effective_strategy(p, t)]

AskDialog ==
  \E p \in [BrowserDialogKind -> DialogDecision], k \in BrowserDialogKind, a, b \in BOOLEAN :
    asked' = [op |-> "dialog", kind |-> k, resolved |-> resolve_dialog(p, k, a, b)]

AskPermission ==
  \E d \in Decision, allowed \in BOOLEAN :
    asked' = [op |-> "permission", default |-> d, allowed |-> allowed,
              answer |-> resolve_permission_prompt(d, allowed)]

AskUpload == \E v \in BOOLEAN : asked' = [op |-> "upload", answer |-> approval_requirement(v)]

Next == asked.op = "none" /\ (AskScript \/ AskWait \/ AskDialog \/ AskPermission \/ AskUpload)

Spec == Init /\ [][Next]_asked

-----------------------------------------------------------------------------
\* Whatever the policy, a script that touches credentials or acts on the page
\* is never run without asking, a denied domain stays denied through all the
\* overrides, an accepted wait polls within a timeout the policy allows, and a
\* text is typed only into a prompt that is accepted.
DecisionsGuarded ==
  /\ asked.op = "js" =>
       /\ asked.script.js_risk = "High" \/ asked.script.credential => asked.answer # "Allow"
       /\ asked.host.denied => asked.answer = "Deny"
  /\ asked.op = "wait" /\ asked.strategy # Error =>
       /\ asked.strategy.poll \in 1..asked.strategy.timeout
       /\ asked.strategy.timeout <= asked.policy.max
  /\ asked.op = "dialog" /\ asked.resolved.text # "none" =>
       asked.kind = "Prompt" /\ asked.resolved.decision = "Accept"
  /\ asked.op = "permission" /\ asked.answer = "Allow" => asked.allowed \/ asked.default = "Allow"
=============================================================================

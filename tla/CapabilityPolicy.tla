--------------------------- MODULE CapabilityPolicy ---------------------------
(***************************************************************************)
(* How an action comes to be allowed: the action registry and the policy,  *)
(* loaded from a file, built from the configuration or from a client's     *)
(* safety profile, decide on a request by the side effect of its kind; a   *)
(* request that must ask gets an approval, and the receipt of it, bound to *)
(* the action and the hash of its payload, is validated before the action  *)
(* runs.  The host keeps the receipts: it validates one, and then consumes *)
(* it and runs the action.                                                 *)
(***************************************************************************)
EXTENDS Naturals, Sequences, FiniteSets

CONSTANTS Kinds,     \* action kinds
          Effects,   \* the SideEffectKinds that occur
          Actions,   \* action ids
          Payloads,  \* inputs of a request
          Hosts,     \* tasks that run actions
          Reuse,     \* reuse policy of the approvals: OneTime or ReusableUntilExpiry
          MaxTime    \* bound: time

VARIABLES registry,  \* side effect of each registered kind, or None
          policy,    \* rules in order, the default decision, and whether from a file
          requests,  \* per action: its kind and payload, or None
          receipts,  \* per action: the receipt, or None
          hosts,     \* per host: what it is about to run
          clock,
          ran        \* ghost: what ran, on what ground and how often

wvars == <<registry, policy, requests, receipts, hosts, clock, ran>>

None == "none"
Decision == {"Allow", "Ask", "Deny"}
NoRequest == [kind |-> None, payload |-> None]
NoReceipt == [request |-> NoRequest, kind |-> None, expires |-> 0, consumed |-> FALSE]
rule(e, d) == [side_effect |-> e, decision |-> d]
Idle == [at |-> "idle", action |-> None, request |-> NoRequest, ground |-> None, shared |-> FALSE]
default_of(rules, d) == [rules |-> rules, default |-> d, file |-> FALSE]


safe == [e \in Effects |-> CASE e \in {"None", "ReadOnly"} -> "Allow"
                            [] e \in {"RuntimeStateMutation", "NetworkAccess", "UiSideEffect"} -> "Ask"
                            [] OTHER -> "Deny"]

profiled == [e \in Effects |-> CASE e \in {"None", "ReadOnly"} -> "Allow"
                                [] e = "DeviceControl" -> "Deny"
                                [] OTHER -> "Ask"]

\* One rule per effect: the order makes no difference when no effect is twice.
ordered == CHOOSE s \in [1..Cardinality(Effects) -> Effects] : \A i, j \in DOMAIN s : s[i] = s[j] => i = j
rules_of(decision) == [i \in DOMAIN ordered |-> rule(ordered[i], decision[ordered[i]])]

default_safe == default_of(rules_of(safe), "Deny")

\* ClientSafetyProfile: the exception for external mutations comes last.
to_capability_policy(external_mutations_require_approval) ==
  default_of(IF external_mutations_require_approval THEN rules_of(profiled)
             ELSE Append(rules_of(profiled), rule("ExternalSystemMutation", "Allow")), "Ask")

capability_policy_from_config(mode) ==
  default_of(<<rule("None", "Allow"), rule("ReadOnly", "Allow")>>,
             CASE mode = "allow" -> "Allow" [] mode = "deny" -> "Deny" [] OTHER -> "Ask")

Init ==
  /\ registry = [k \in Kinds |-> None]
  /\ policy \in {default_safe} \cup {to_capability_policy(b) : b \in BOOLEAN}
                \cup {capability_policy_from_config(mode) : mode \in {"allow", "deny", "ask", "inherit"}}
  /\ requests = [a \in Actions |-> NoRequest] /\ receipts = [a \in Actions |-> NoReceipt]
  /\ hosts = [h \in Hosts |-> Idle]
  /\ clock = 0 /\ ran = {}

-----------------------------------------------------------------------------
(* The policy file: validate looks for repeated rules.  The rules of action *)
(* kinds and of provider domains are validated and then left out.          *)
Documents == {<<>>} \cup {<<rule(e, d)>> : e \in Effects, d \in Decision}
             \cup {<<rule(e, "Allow"), rule(f, "Deny")>> : e, f \in Effects}

is_valid(rules) == \A i, j \in 1..Len(rules) : i # j => rules[i].side_effect # rules[j].side_effect

from_policy_file(rules, default) ==
  /\ clock = 0 /\ \A a \in Actions : requests[a] = NoRequest
  /\ is_valid(rules)
  /\ policy' = [rules |-> rules, default |-> default, file |-> TRUE]
  /\ UNCHANGED <<registry, requests, receipts, hosts, clock, ran>>

register(k, effect) ==
  /\ registry[k] = None
  /\ registry' = [registry EXCEPT ![k] = effect]
  /\ UNCHANGED <<policy, requests, receipts, hosts, clock, ran>>

-----------------------------------------------------------------------------
(* Requests, approvals and receipts.                                       *)
\* An unknown kind is taken for network access; the first rule of an effect
\* counts, and the default when there is none.
side_effect(k) == IF registry[k] = None THEN "NetworkAccess" ELSE registry[k]

evaluate(effect) ==
  LET matching == {i \in 1..Len(policy.rules) : policy.rules[i].side_effect = effect}
  IN IF matching = {} THEN policy.default
     ELSE policy.rules[CHOOSE i \in matching : \A j \in matching : i <= j].decision

\* A request, and the caller's change of what it asks for under the same id.
request(a, k, p) ==
  /\ requests[a] # NoRequest => requests[a].kind = k /\ requests[a].payload # p
  /\ requests' = [requests EXCEPT ![a] = [kind |-> k, payload |-> p]]
  /\ UNCHANGED <<registry, policy, receipts, hosts, clock, ran>>

\* KernelApprovalRequest and the decision on it; the receipt names both.
issue(a, kind, expires) ==
  /\ requests[a] # NoRequest /\ receipts[a] = NoReceipt
  /\ evaluate(side_effect(requests[a].kind)) = "Ask"
  /\ receipts' = [receipts EXCEPT ![a] = [request |-> requests[a], kind |-> kind,
                                          expires |-> expires, consumed |-> FALSE]]
  /\ UNCHANGED <<registry, policy, requests, hosts, clock, ran>>

\* Faulty variant: the payload that was approved is not compared.
validate_unhashed(a) ==
  /\ receipts[a] # NoReceipt
  /\ receipts[a].kind = "Approved"
  /\ receipts[a].expires # 0 => clock <= receipts[a].expires
  /\ ~(receipts[a].consumed /\ Reuse = "OneTime")

\* validate_approval_receipt; a receipt is good at the moment it expires.
validate_approval_receipt(a) ==
  /\ receipts[a] # NoReceipt
  /\ receipts[a].kind = "Approved"
  /\ receipts[a].expires # 0 => clock <= receipts[a].expires
  /\ ~(receipts[a].consumed /\ Reuse = "OneTime")
  /\ receipts[a].request = requests[a]

\* A host takes up an action that is allowed or that a receipt covers.
take_up(h, a) ==
  /\ hosts[h] = Idle /\ requests[a] # NoRequest
  /\ LET allowed == evaluate(side_effect(requests[a].kind)) = "Allow"
         asks == evaluate(side_effect(requests[a].kind)) = "Ask"
     IN /\ allowed \/ (asks /\ validate_approval_receipt(a))
        /\ hosts' = [g \in Hosts |->
             IF g = h THEN [at |-> "run", action |-> a, request |-> requests[a],
                            ground |-> IF allowed THEN "policy" ELSE "receipt",
                            shared |-> \E o \in Hosts : hosts[o].action = a]
             ELSE IF hosts[g].action = a THEN [hosts[g] EXCEPT !.shared = TRUE] ELSE hosts[g]]
  /\ UNCHANGED <<registry, policy, requests, receipts, clock, ran>>

\* ApprovalReceipt::consume and the action with it.
executed(c) ==
  LET before == {x \in ran : x.action = c.action /\ x.request = c.request /\ x.ground = c.ground}
  IN (ran \ before) \cup {[action |-> c.action, request |-> c.request, ground |-> c.ground,
                           twice |-> (before # {} /\ ~c.shared) \/ \E x \in before : x.twice]}

execute(h) ==
  /\ hosts[h].at = "run"
  /\ LET a == hosts[h].action
     IN /\ receipts' = IF hosts[h].ground = "receipt"
                       THEN [receipts EXCEPT ![a].consumed = TRUE] ELSE receipts
        /\ ran' = executed(hosts[h])
  /\ hosts' = [hosts EXCEPT ![h] = Idle]
  /\ UNCHANGED <<registry, policy, requests, clock>>

tick ==
  /\ clock < MaxTime
  /\ clock' = clock + 1
  /\ UNCHANGED <<registry, policy, requests, receipts, hosts, ran>>

Next ==
  \/ \E rules \in Documents, d \in Decision : from_policy_file(rules, d)
  \/ \E k \in Kinds, e \in Effects : register(k, e)
  \/ \E a \in Actions, k \in Kinds, p \in Payloads : request(a, k, p)
  \/ \E a \in Actions, kind \in {"Approved", "Denied"}, expires \in 0..1 : issue(a, kind, expires)
  \/ \E h \in Hosts : (\E a \in Actions : take_up(h, a)) \/ execute(h)
  \/ tick

Spec == Init /\ [][Next]_wvars

-----------------------------------------------------------------------------
\* An action that had to ask runs only as it was approved, whatever the caller
\* made of the request meanwhile; a receipt for one use is used once by hosts that
\* do not take the action up at the same time (two that validate it before
\* either consumes it both run it); and in a policy from a file no order of rules matters.
ReceiptsSound ==
  /\ \A x \in ran : x.ground = "receipt" =>
       /\ receipts[x.action].kind = "Approved" /\ receipts[x.action].request = x.request
       /\ Reuse = "OneTime" => ~x.twice
  /\ policy.file => \A i, j \in 1..Len(policy.rules) :
       policy.rules[i].side_effect = policy.rules[j].side_effect => i = j
=============================================================================

------------------------------ MODULE Connectors ------------------------------
(***************************************************************************)
(* The connector runtime: servers, the accounts bound to them and the      *)
(* audit of every attempt to bind, and the Gmail connector with its token, *)
(* its retry policy and the audit of its operations.  Binding an account   *)
(* and disconnecting a server are calls of several steps over two stores,  *)
(* and other calls run between the steps.                                  *)
(***************************************************************************)
EXTENDS Naturals, Sequences

CONSTANTS Callers,      \* tasks that run the calls
          Agents,       \* AgentOS identities
          Servers,      \* server ids
          MaxAudit,     \* bound: audit events of either log
          MaxAttempts,  \* max_attempts of the retry policy
          BaseDelay, MaxDelay, MaxU64  \* its delays, and the largest u64

VARIABLES servers,   \* server registry: trust status of each id, or None
          bindings,  \* account store: set of bindings
          audit,     \* binding audit events, in order
          calls,     \* per caller: the call it is in
          gmail,     \* the connector: token, its account, the operation under way
          operations,\* connector operation audit events, in order
          crossed    \* ghost: servers a disconnection met a bind of

nvars == <<servers, bindings, audit, calls, gmail, operations, crossed>>

None == "none"
ServerTrustStatus == {"Trusted", "Unverified", "Blocked"}
BindingApproval == {"NotRequired", "Approved"}
\* nr: the attempt a binding comes from, which stands for its fresh id.
Idle == [at |-> "idle", agent |-> None, server |-> None, nr |-> 0, todo |-> {}]

Init ==
  /\ servers = [s \in Servers |-> None]
  /\ bindings = {} /\ audit = <<>> /\ operations = <<>> /\ crossed = {}
  /\ calls = [p \in Callers |-> Idle]
  /\ gmail = [token |-> "empty", refreshable |-> FALSE, lifecycle |-> "Active",
              attempt |-> 0, decision |-> None, delay |-> 0]

rest == UNCHANGED <<gmail, operations>>

-----------------------------------------------------------------------------
(* Servers and bindings.  register_server always registers a server nobody *)
(* has verified; a host that uses the registry itself gives any status.    *)
register(s, trust) ==
  /\ servers[s] = None
  /\ servers' = [servers EXCEPT ![s] = trust]
  /\ UNCHANGED <<bindings, audit, calls, crossed>> /\ rest

evaluate_server_binding_trust(trust, approval) ==
  IF trust = "Trusted" THEN "Allowed"
  ELSE IF trust = "Blocked" THEN "Rejected"
  ELSE IF approval = "Approved" THEN "Allowed" ELSE "RequiresApproval"

busy(s, ats) == \E p \in Callers : calls[p].server = s /\ calls[p].at \in ats

\* Faulty variant: the binding is stored before the attempt is on record.
bind_account_unaudited(p, a, s, approval) ==
  /\ calls[p] = Idle /\ Len(audit) < MaxAudit
  /\ servers[s] # None
  /\ LET outcome == evaluate_server_binding_trust(servers[s], approval)
     IN IF outcome = "Allowed"
        THEN /\ calls' = [calls EXCEPT ![p] = [Idle EXCEPT !.at = "bind", !.agent = a, !.server = s,
                                                             !.nr = Len(audit) + 1]]
             /\ UNCHANGED audit
        ELSE /\ audit' = Append(audit, [agent |-> a, server |-> s, trust |-> servers[s],
                                        approval |-> approval, outcome |-> outcome])
             /\ UNCHANGED calls
  /\ UNCHANGED <<servers, bindings, crossed>> /\ rest

\* bind_account_with_approval: the server is read and judged and the outcome
\* recorded; only then is the binding of an allowed attempt stored.
bind_account_with_approval(p, a, s, approval) ==
  /\ calls[p] = Idle /\ Len(audit) < MaxAudit
  /\ servers[s] # None
  /\ LET outcome == evaluate_server_binding_trust(servers[s], approval)
     IN /\ audit' = Append(audit, [agent |-> a, server |-> s, trust |-> servers[s],
                                   approval |-> approval, outcome |-> outcome])
        /\ calls' = IF outcome = "Allowed"
                    THEN [calls EXCEPT ![p] = [Idle EXCEPT !.at = "bind", !.agent = a, !.server = s,
                                                                   !.nr = Len(audit) + 1]]
                    ELSE calls
  /\ crossed' = IF busy(s, {"unbind", "unregister"}) THEN crossed \cup {s} ELSE crossed
  /\ UNCHANGED <<servers, bindings>> /\ rest

\* ServerAccountStore::bind, which may fail.
bind(p) ==
  /\ calls[p].at = "bind"
  /\ \/ bindings' = bindings \cup {[agent |-> calls[p].agent, server |-> calls[p].server, nr |-> calls[p].nr]}
     \/ UNCHANGED bindings
  /\ calls' = [calls EXCEPT ![p] = Idle]
  /\ UNCHANGED <<servers, audit, crossed>> /\ rest

\* disconnect_server: the bindings are listed once and removed one by one, the
\* server after the last of them; a step that fails ends the call there.
disconnect_server(p, s) ==
  /\ calls[p] = Idle
  /\ LET listed == {b \in bindings : b.server = s}
     IN calls' = [calls EXCEPT ![p] = [Idle EXCEPT !.server = s, !.todo = listed,
                                         !.at = IF listed = {} THEN "unregister" ELSE "unbind"]]
  /\ crossed' = IF busy(s, {"bind"}) THEN crossed \cup {s} ELSE crossed
  /\ UNCHANGED <<servers, bindings, audit>> /\ rest

unbind(p) ==
  /\ calls[p].at = "unbind"
  /\ \E b \in calls[p].todo :
       /\ bindings' = bindings \ {b}
       /\ calls' = [calls EXCEPT ![p].todo = @ \ {b},
                                 ![p].at = IF calls[p].todo = {b} THEN "unregister" ELSE "unbind"]
  /\ UNCHANGED <<servers, audit, crossed>> /\ rest

unregister(p) ==
  /\ calls[p].at = "unregister"
  /\ servers' = [servers EXCEPT ![calls[p].server] = None]
  /\ calls' = [calls EXCEPT ![p] = Idle]
  /\ UNCHANGED <<bindings, audit, crossed>> /\ rest

fails(p) ==
  /\ calls[p].at \in {"unbind", "unregister"}
  /\ calls' = [calls EXCEPT ![p] = Idle]
  /\ UNCHANGED <<servers, bindings, audit, crossed>> /\ rest

-----------------------------------------------------------------------------
(* The Gmail connector.                                                    *)
Capped(n, cap) == IF n > cap THEN cap ELSE n

is_authenticated == gmail.token = "valid"

\* The errors of an operation: of this connector, and of the host's adapter.
\* The class of ServiceUnavailable is looked up in the text of its message,
\* and the message of get_resource quotes the id that was asked for.
classify_gmail_provider_error(err) ==
  CASE err = "RateLimited" -> "RateLimited"
    [] err \in {"AuthenticationRequired", "TokenExpired", "OAuthRefresh"} -> "Authentication"
    [] err = "InvalidRequest" -> "InvalidRequest"
    [] err = "ResourceNotFound" -> "NotFound"
    [] err = "unavailable: timeout" -> "Timeout"
    [] err = "unavailable: 500" -> "TransientProvider"
    [] OTHER -> "Unknown"

is_retryable(class) == class \in {"RateLimited", "Timeout", "TransientProvider"}

\* GmailProviderRetryPolicy::decide; a provider's retry_after is not capped.
decide(err, attempt, after) ==
  LET class == classify_gmail_provider_error(err)
      backoff == Capped(Capped(BaseDelay * Capped(2 ^ (attempt - 1), MaxU64), MaxU64), MaxDelay)
  IN IF ~is_retryable(class) THEN [decision |-> "DoNotRetry", delay |-> 0]
     ELSE IF attempt >= MaxAttempts THEN [decision |-> "Exhausted", delay |-> 0]
     ELSE [decision |-> "Retry",
           delay |-> IF err = "RateLimited" THEN Capped(after * 1000, MaxU64) ELSE backoff]

event(outcome, class) == [outcome |-> outcome, class |-> class]

core == UNCHANGED <<servers, bindings, audit, calls, crossed>>

\* The host asks for access before an operation and records what it is told.
evaluate_connector_account_access ==
  /\ gmail.decision \notin {"running", "Retry"} /\ Len(operations) < MaxAudit
  /\ IF gmail.lifecycle = "Active"
     THEN /\ operations' = Append(operations, event("Started", None))
          /\ gmail' = [gmail EXCEPT !.attempt = 1, !.decision = "running", !.delay = 0]
     ELSE /\ operations' = Append(operations, event("Denied", "Authentication"))
          /\ gmail' = [gmail EXCEPT !.decision = None]
  /\ core

\* list_resources and get_resource: no resource comes from the connector
\* itself, and the host's adapter, behind the same check, may answer.
errors == IF is_authenticated
          THEN {"RateLimited", "InvalidRequest", "ResourceNotFound",
                "unavailable: timeout", "unavailable: 500", "unavailable"}
          ELSE {"AuthenticationRequired"}

get_resource ==
  /\ gmail.decision = "running" /\ Len(operations) < MaxAudit
  /\ \/ /\ is_authenticated
        /\ operations' = Append(operations, event("Succeeded", None))
        /\ gmail' = [gmail EXCEPT !.decision = None, !.attempt = 0]
     \/ \E err \in errors, after \in 0..1 :
          LET d == decide(err, gmail.attempt, after)
          IN /\ gmail' = [gmail EXCEPT !.decision = d.decision, !.delay = d.delay]
             /\ operations' = IF d.decision = "Retry" THEN operations
                              ELSE Append(operations, event("Failed", classify_gmail_provider_error(err)))
  /\ core

\* The host waits out the delay and tries again.
retry ==
  /\ gmail.decision = "Retry"
  /\ gmail' = [gmail EXCEPT !.decision = "running", !.attempt = @ + 1]
  /\ UNCHANGED operations /\ core

\* refresh_token needs the reference and the provider; a failure keeps the token.
refresh_token ==
  /\ gmail.refreshable
  /\ gmail' = [gmail EXCEPT !.token = "valid"]
  /\ UNCHANGED operations /\ core

with_token_refresh_provider ==
  /\ ~gmail.refreshable
  /\ gmail' = [gmail EXCEPT !.refreshable = TRUE]
  /\ UNCHANGED operations /\ core

is_expired == gmail.token = "valid" /\ gmail' = [gmail EXCEPT !.token = "expired"]
              /\ UNCHANGED operations /\ core

account(lifecycle) ==
  /\ gmail.lifecycle # lifecycle
  /\ gmail' = [gmail EXCEPT !.lifecycle = lifecycle]
  /\ UNCHANGED operations /\ core

BindingNext ==
  \/ \E s \in Servers, trust \in ServerTrustStatus : register(s, trust)
  \/ \E p \in Callers :
       \/ \E a \in Agents, s \in Servers, approval \in BindingApproval :
            bind_account_with_approval(p, a, s, approval)
       \/ \E s \in Servers : disconnect_server(p, s)
       \/ bind(p) \/ unbind(p) \/ unregister(p) \/ fails(p)

GmailNext ==
  \/ evaluate_connector_account_access \/ get_resource \/ retry
  \/ with_token_refresh_provider \/ refresh_token \/ is_expired
  \/ \E l \in {"Active", "Disabled", "Offboarded"} : account(l)

Next == BindingNext \/ GmailNext
Spec == Init /\ [][Next]_nvars

-----------------------------------------------------------------------------
\* What the two audits and the stores promise one another, whatever fails in
\* between.  Every binding goes back to a recorded attempt of its own that was
\* allowed, and never on a blocked server; a server that no bind and
\* disconnection met on is registered as long as an account is bound to it; and
\* an operation that ended has started, and is not tried again once it was tried
\* MaxAttempts times.
ConnectorsSound ==
  /\ \A b \in bindings :
       /\ b.nr <= Len(audit)
       /\ audit[b.nr].outcome = "Allowed" /\ audit[b.nr].trust # "Blocked"
       /\ audit[b.nr].agent = b.agent /\ audit[b.nr].server = b.server
  /\ \A b \in bindings : servers[b.server] # None \/ b.server \in crossed
  /\ \A i \in 1..Len(operations) :
       operations[i].outcome \in {"Succeeded", "Failed"} =>
         i > 1 /\ operations[i - 1].outcome = "Started"
  /\ gmail.attempt > 1 => gmail.attempt <= MaxAttempts
  /\ gmail.decision = "Retry" => ~gmail.attempt = MaxAttempts
=============================================================================

---------------------------- MODULE AccessProofs ----------------------------
(***************************************************************************)
(* Proofs that access ends when what gave it ends, the four parts of       *)
(* AccessEnds of MCHost: the approval receipts of CapabilityPolicy, the    *)
(* OAuth credentials of Credentials, the grants and the permission cache   *)
(* of EnterprisePermissions, and the bindings and operations of            *)
(* Connectors, each for every value of its constants that the theorem's    *)
(* hypotheses admit.                                                       *)
(***************************************************************************)
EXTENDS CapabilityPolicy, TLAPS, FiniteSetTheorems

CONSTANTS Ids, Callers, Keychain, MaxTokens, MaxCalls  \* of Credentials
CONSTANTS Users, Resources, Units, GrantIds,
          FreshFor, StaleFor, Redact, MaxGrants, Leads    \* of EnterprisePermissions
CONSTANTS Agents, Servers, MaxAudit, MaxAttempts,
          BaseDelay, MaxDelay, MaxU64                  \* of Connectors, with Callers

VARIABLES metadata, secrets, live, calls, count, ghost                    \* of Credentials
VARIABLES grants, lifecycle, server, cache, now, answer, given            \* of EnterprisePermissions
VARIABLES servers, bindings, audit, steps, gmail, operations, crossed     \* of Connectors

Accounts == INSTANCE Credentials
Grants == INSTANCE EnterprisePermissions WITH clock <- now, ghost <- given
Connections == INSTANCE Connectors WITH calls <- steps

-----------------------------------------------------------------------------
(* Receipts.  The invariant: what runs on a receipt is approved by it, and *)
(* a receipt that may be used once is used once.                           *)
AllRequests == [kind : Kinds \cup {None}, payload : Payloads \cup {None}]
AllReceipts == [request : AllRequests, kind : {None, "Approved", "Denied"}, expires : Nat, consumed : BOOLEAN]
Grounds == {"policy", "receipt"}

\* What a host holds is idle, or a run of some action on some ground.
Holding == [at : {"idle", "run"}, action : Actions \cup {None}, request : AllRequests,
            ground : Grounds \cup {None}, shared : BOOLEAN]

AccessTypeOK ==
  /\ requests \in [Actions -> AllRequests]
  /\ receipts \in [Actions -> AllReceipts]
  /\ hosts \in [Hosts -> Holding]
  /\ ran \subseteq [action : Actions, request : AllRequests, ground : Grounds, twice : BOOLEAN]
  /\ \A h \in Hosts : hosts[h].at = "run" => hosts[h].action \in Actions /\ hosts[h].ground \in Grounds

\* The receipt of a approves r.
approves(a, r) == receipts[a].kind = "Approved" /\ receipts[a].request = r

\* Host h runs action a because of its receipt.
running(h, a) == hosts[h].at = "run" /\ hosts[h].ground = "receipt" /\ hosts[h].action = a

\* Whatever runs or ran because of a receipt, the receipt approves as it was taken up.
CoverInv ==
  /\ \A h \in Hosts, a \in Actions : running(h, a) => approves(a, hosts[h].request)
  /\ \A x \in ran : x.ground = "receipt" => approves(x.action, x.request)

\* A receipt that something ran on is consumed; hosts that hold the same action know
\* that they share it; and a host that holds it alone is the first to use its receipt.
OnceInv ==
  /\ \A x \in ran : x.ground = "receipt" => receipts[x.action].consumed
  /\ \A g, h \in Hosts : g # h /\ hosts[g].at = "run" /\ hosts[h].at = "run" /\ hosts[g].action = hosts[h].action
                           => hosts[h].shared
  /\ Reuse = "OneTime" =>
       /\ \A h \in Hosts, a \in Actions : running(h, a) /\ ~hosts[h].shared =>
            \A x \in ran : x.ground = "receipt" => x.action # a
       /\ \A x \in ran : x.ground = "receipt" => ~x.twice

\* A policy that came from a file names each effect once.
FileInv == policy.file => is_valid(policy.rules)

IInv == AccessTypeOK /\ CoverInv /\ OnceInv /\ FileInv

-----------------------------------------------------------------------------
(* Initially nothing runs and no receipt exists.                           *)
\* No state of the start breaks the invariant: there are no receipts, the hosts are
\* idle and the policy is not from a file.
LEMMA Starts == Init => IInv
<1> SUFFICES ASSUME Init PROVE IInv
  OBVIOUS
<1>1. policy.file = FALSE
  BY DEF Init, default_of, default_safe, to_capability_policy, capability_policy_from_config
<1>2. AccessTypeOK
  BY DEF Init, AccessTypeOK, AllRequests, AllReceipts, Holding, Grounds, NoRequest, NoReceipt, Idle
<1>3. CoverInv /\ OnceInv
  BY DEF Init, CoverInv, OnceInv, running, Idle
<1> QED BY <1>1, <1>2, <1>3 DEF IInv, FileInv

-----------------------------------------------------------------------------
(* One lemma per action that touches requests, receipts or hosts.          *)
\* A request changes no receipt and nothing that runs.
LEMMA RequestKeeps ==
  ASSUME IInv, NEW a \in Actions, NEW k \in Kinds, NEW p \in Payloads, request(a, k, p)
  PROVE  IInv'
<1>1. AccessTypeOK'
  BY DEF IInv, AccessTypeOK, request, AllRequests
<1>2. CoverInv'
  BY DEF IInv, CoverInv, running, approves, request
<1>3. OnceInv'
  BY DEF IInv, OnceInv, running, request
<1>4. FileInv'
  BY DEF IInv, FileInv, is_valid, request
<1> QED BY <1>1, <1>2, <1>3, <1>4 DEF IInv

\* A decision makes a receipt where there was none, so that nothing runs on it yet.
LEMMA IssueKeeps ==
  ASSUME IInv, NEW a \in Actions, NEW kind \in {"Approved", "Denied"}, NEW expires \in 0..1,
         issue(a, kind, expires)
  PROVE  IInv'
<1> USE DEF IInv
<1>1. receipts[a].kind # "Approved"
  BY DEF issue, NoReceipt, None
<1>2. /\ receipts' = [receipts EXCEPT ![a] = receipts'[a]]
      /\ receipts'[a] \in AllReceipts
      /\ UNCHANGED <<policy, requests, hosts, ran>>
  BY DEF issue, AccessTypeOK, AllReceipts
<1>3. AccessTypeOK'
  BY <1>2 DEF AccessTypeOK
<1>4. \A b \in Actions : \A r : approves(b, r) => b # a /\ receipts'[b] = receipts[b]
  BY <1>1, <1>2 DEF AccessTypeOK, approves
<1>5. \A x \in ran : x.ground = "receipt" => x.action # a /\ receipts'[x.action] = receipts[x.action]
  BY <1>4 DEF CoverInv, AccessTypeOK
<1>6. CoverInv'
  BY <1>2, <1>4, <1>5 DEF CoverInv, running, approves
<1>7. OnceInv'
  BY <1>2, <1>5 DEF OnceInv, running
<1>8. FileInv'
  BY <1>2 DEF FileInv, is_valid
<1> QED BY <1>3, <1>6, <1>7, <1>8

\* A host that takes up an action on a receipt has validated it: it approves the
\* request as it is, and under OneTime nothing ran on it yet; every host that already
\* holds the action learns that it shares it.
LEMMA TakeUpKeeps ==
  ASSUME IInv, NEW h \in Hosts, NEW a \in Actions, take_up(h, a)
  PROVE  IInv'
<1> USE DEF IInv
<1> DEFINE taken == \E o \in Hosts : hosts[o].action = a
<1>1. PICK ground \in Grounds :
        /\ hosts' = [g \in Hosts |->
             IF g = h THEN [at |-> "run", action |-> a, request |-> requests[a],
                            ground |-> ground, shared |-> taken]
             ELSE IF hosts[g].action = a THEN [hosts[g] EXCEPT !.shared = TRUE] ELSE hosts[g]]
        /\ ground = "receipt" => validate_approval_receipt(a)
        /\ UNCHANGED <<policy, requests, receipts, ran>>
  <2> DEFINE allowed == evaluate(side_effect(requests[a].kind)) = "Allow"
  <2>1. CASE allowed
    BY <2>1 DEF take_up, Grounds
  <2>2. CASE ~allowed
    BY <2>2 DEF take_up, Grounds
  <2> QED BY <2>1, <2>2
<1>2. hosts'[h] = [at |-> "run", action |-> a, request |-> requests[a], ground |-> ground, shared |-> taken]
  BY <1>1
<1>3. \A g \in Hosts : g # h =>
        /\ hosts'[g].at = hosts[g].at /\ hosts'[g].action = hosts[g].action
        /\ hosts'[g].request = hosts[g].request /\ hosts'[g].ground = hosts[g].ground
        /\ hosts[g].shared \/ hosts[g].action = a => hosts'[g].shared
        /\ hosts'[g] \in Holding
  BY <1>1 DEF AccessTypeOK, Holding
<1> HIDE DEF taken
<1>4. AccessTypeOK'
  <2>1. hosts'[h] \in Holding
    BY <1>2 DEF AccessTypeOK, Holding, taken
  <2>2. hosts' \in [Hosts -> Holding]
    BY <1>1, <1>3, <2>1
  <2>3. \A g \in Hosts : hosts'[g].at = "run" => hosts'[g].action \in Actions /\ hosts'[g].ground \in Grounds
    BY <1>2, <1>3 DEF AccessTypeOK
  <2> QED BY <1>1, <2>2, <2>3 DEF AccessTypeOK
<1>5. CoverInv'
  <2>1. ASSUME NEW g \in Hosts, NEW b \in Actions, running(g, b)'
        PROVE  approves(b, hosts[g].request)'
    <3>1. CASE g = h
      BY <1>1, <1>2, <2>1, <3>1 DEF running, approves, validate_approval_receipt
    <3>2. CASE g # h
      BY <1>1, <1>3, <2>1, <3>2 DEF running, approves, CoverInv
    <3> QED BY <3>1, <3>2
  <2> QED BY <1>1, <2>1 DEF CoverInv, approves
<1>6. OnceInv'
  <2>1. \A x \in ran' : x.ground = "receipt" => receipts'[x.action].consumed
    BY <1>1 DEF OnceInv
  <2>2. ASSUME NEW f \in Hosts, NEW g \in Hosts, f # g, hosts'[f].at = "run", hosts'[g].at = "run",
               hosts'[f].action = hosts'[g].action
        PROVE  hosts'[g].shared
    <3>1. CASE g = h
      <4>1. hosts[f].action = a
        BY <1>2, <1>3, <2>2, <3>1
      <4> QED BY <1>2, <3>1, <4>1 DEF taken
    <3>2. CASE f = h
      BY <1>2, <1>3, <2>2, <3>2
    <3>3. CASE f # h /\ g # h
      BY <1>3, <2>2, <3>3 DEF OnceInv
    <3> QED BY <3>1, <3>2, <3>3
  <2>3. ASSUME Reuse = "OneTime", NEW g \in Hosts, NEW b \in Actions, running(g, b)', ~hosts'[g].shared,
               NEW x \in ran, x.ground = "receipt"
        PROVE  x.action # b
    <3>1. CASE g = h
      <4>1. b = a /\ ~receipts[a].consumed
        BY <1>1, <1>2, <2>3, <3>1 DEF running, validate_approval_receipt, AccessTypeOK, AllReceipts
      <4> QED BY <2>3, <4>1 DEF OnceInv
    <3>2. CASE g # h
      <4>1. running(g, b) /\ ~hosts[g].shared
        BY <1>3, <2>3, <3>2 DEF running
      <4> QED BY <2>3, <4>1 DEF OnceInv
    <3> QED BY <3>1, <3>2
  <2> QED BY <1>1, <2>1, <2>2, <2>3 DEF OnceInv
<1>7. FileInv'
  BY <1>1 DEF FileInv, is_valid
<1> QED BY <1>4, <1>5, <1>6, <1>7

\* What executed adds to what ran is of the host's action, request and ground.
LEMMA ExecutedIs ==
  ASSUME NEW c, NEW x \in executed(c)
  PROVE  \/ x \in ran
         \/ /\ x.action = c.action /\ x.request = c.request /\ x.ground = c.ground
            /\ x = [action |-> c.action, request |-> c.request, ground |-> c.ground, twice |-> x.twice]
            /\ x.twice \in BOOLEAN
<1> DEFINE before == {y \in ran : y.action = c.action /\ y.request = c.request /\ y.ground = c.ground}
           again == (before # {} /\ ~c.shared) \/ \E y \in before : y.twice
<1>1. x \in (ran \ before) \cup {[action |-> c.action, request |-> c.request, ground |-> c.ground,
                                  twice |-> again]}
  BY DEF executed
<1>2. again \in BOOLEAN
  OBVIOUS
<1> HIDE DEF again, before
<1> QED BY <1>1, <1>2

\* It counts as a second time only after a first one that the host did not share.
LEMMA ExecutedTwice ==
  ASSUME NEW c, NEW x \in executed(c), x \notin ran, x.twice
  PROVE  \E y \in ran : y.action = c.action /\ y.ground = c.ground /\ (~c.shared \/ y.twice)
<1> DEFINE before == {y \in ran : y.action = c.action /\ y.request = c.request /\ y.ground = c.ground}
           again == (before # {} /\ ~c.shared) \/ \E y \in before : y.twice
<1>1. x \in (ran \ before) \cup {[action |-> c.action, request |-> c.request, ground |-> c.ground,
                                  twice |-> again]}
  BY DEF executed
<1>2. again => \E y \in ran : y.action = c.action /\ y.ground = c.ground /\ (~c.shared \/ y.twice)
  OBVIOUS
<1> HIDE DEF again, before
<1>3. x = [action |-> c.action, request |-> c.request, ground |-> c.ground, twice |-> again]
  BY <1>1, x \notin ran
<1>4. again
  BY <1>3, x.twice
<1> QED BY <1>2, <1>4

\* The host that executes consumes the receipt it runs on; no other receipt changes.
LEMMA ExecuteKeeps ==
  ASSUME IInv, NEW h \in Hosts, execute(h)
  PROVE  IInv'
<1> USE DEF IInv
<1> DEFINE c == hosts[h]
           a == hosts[h].action
<1>1. /\ c \in Holding /\ c.at = "run" /\ a \in Actions /\ c.ground \in Grounds
      /\ ran' = executed(c) /\ hosts' = [hosts EXCEPT ![h] = Idle]
      /\ UNCHANGED <<policy, requests>>
  BY DEF execute, AccessTypeOK
<1>2. /\ receipts' \in [Actions -> AllReceipts]
      /\ \A b \in Actions : receipts'[b].kind = receipts[b].kind /\ receipts'[b].request = receipts[b].request
      /\ \A b \in Actions : receipts[b].consumed => receipts'[b].consumed
      /\ c.ground = "receipt" => receipts'[a].consumed
  <2>1. CASE c.ground = "receipt"
    <3>1. receipts' = [receipts EXCEPT ![a].consumed = TRUE]
      BY <2>1 DEF execute
    <3> QED BY <1>1, <3>1 DEF AccessTypeOK, AllReceipts
  <2>2. CASE c.ground # "receipt"
    <3>1. receipts' = receipts
      BY <2>2 DEF execute
    <3> QED BY <2>2, <3>1 DEF AccessTypeOK
  <2> QED BY <2>1, <2>2
<1>3. \A g \in Hosts : \A b : running(g, b)' => g # h /\ running(g, b) /\ hosts'[g] = hosts[g]
  BY <1>1 DEF running, Idle, AccessTypeOK
<1>4. \A g \in Hosts : hosts'[g].at = "run" => g # h /\ hosts'[g] = hosts[g]
  BY <1>1 DEF Idle, AccessTypeOK
<1>5. \A x \in ran' : \/ x \in ran
                      \/ /\ x.action = a /\ x.request = c.request /\ x.ground = c.ground
                         /\ x = [action |-> a, request |-> c.request, ground |-> c.ground, twice |-> x.twice]
                         /\ x.twice \in BOOLEAN
  BY <1>1, ExecutedIs
<1>6. \A x \in ran' : x \notin ran /\ x.twice =>
            \E y \in ran : y.action = a /\ y.ground = c.ground /\ (~c.shared \/ y.twice)
  <2> SUFFICES ASSUME NEW x \in ran', x \notin ran, x.twice
               PROVE  \E y \in ran : y.action = a /\ y.ground = c.ground /\ (~c.shared \/ y.twice)
    OBVIOUS
  <2>1. x \in executed(c)
    BY <1>1
  <2> HIDE DEF c
  <2> QED BY <2>1, ExecutedTwice, Zenon DEF a, c
<1> HIDE DEF c, a
<1>7. AccessTypeOK'
  <2>1. hosts' \in [Hosts -> Holding]
    BY <1>1 DEF AccessTypeOK, Holding, Idle, AllRequests, NoRequest
  <2>2. ran' \subseteq [action : Actions, request : AllRequests, ground : Grounds, twice : BOOLEAN]
    BY <1>1, <1>5 DEF AccessTypeOK, Holding
  <2>3. \A g \in Hosts : hosts'[g].at = "run" => hosts'[g].action \in Actions /\ hosts'[g].ground \in Grounds
    BY <1>4 DEF AccessTypeOK
  <2> QED BY <1>1, <1>2, <2>1, <2>2, <2>3 DEF AccessTypeOK
<1>8. CoverInv'
  <2>1. \A b \in Actions : receipts'[b].kind = receipts[b].kind /\ receipts'[b].request = receipts[b].request
    BY <1>2
  <2>2. c.ground = "receipt" => approves(a, c.request)
    BY <1>1 DEF CoverInv, running, c, a
  <2>3. \A x \in ran' : x.ground = "receipt" => x.action \in Actions /\ approves(x.action, x.request)
    BY <1>1, <1>5, <2>2 DEF CoverInv, AccessTypeOK
  <2>4. ASSUME NEW g \in Hosts, NEW b \in Actions, running(g, b)'
        PROVE  approves(b, hosts[g].request)'
    <3>1. running(g, b) /\ hosts'[g] = hosts[g]
      BY <1>3, <2>4
    <3>2. approves(b, hosts[g].request)
      BY <3>1 DEF CoverInv
    <3>3. receipts'[b].kind = "Approved" /\ receipts'[b].request = hosts'[g].request
      BY <2>1, <3>1, <3>2 DEF approves
    <3> QED BY <3>3 DEF approves
  <2>5. \A x \in ran' : x.ground = "receipt" =>
           receipts'[x.action].kind = "Approved" /\ receipts'[x.action].request = x.request
    BY <2>1, <2>3 DEF approves
  <2> QED BY <2>4, <2>5 DEF CoverInv, approves
<1>9. OnceInv'
  <2>1. \A x \in ran' : x.ground = "receipt" => receipts'[x.action].consumed
    BY <1>1, <1>2, <1>5 DEF OnceInv, AccessTypeOK
  <2>2. \A f, g \in Hosts : f # g /\ hosts'[f].at = "run" /\ hosts'[g].at = "run"
                              /\ hosts'[f].action = hosts'[g].action => hosts'[g].shared
    BY <1>4 DEF OnceInv
  <2>3. ASSUME Reuse = "OneTime", NEW g \in Hosts, NEW b \in Actions, running(g, b)', ~hosts'[g].shared,
               NEW x \in ran', x.ground = "receipt"
        PROVE  x.action # b
    <3>1. g # h /\ running(g, b) /\ hosts'[g] = hosts[g]
      BY <1>3, <2>3
    <3>2. a # b
      <4>1. a = b => hosts[g].shared
        BY <1>1, <3>1 DEF OnceInv, running, c, a
      <4> QED BY <2>3, <3>1, <4>1
    <3>3. x \in ran => x.action # b
      BY <2>3, <3>1 DEF OnceInv
    <3> QED BY <1>5, <3>2, <3>3
  <2>4. ASSUME Reuse = "OneTime", NEW x \in ran', x.ground = "receipt"
        PROVE  ~x.twice
    <3>1. CASE x \in ran
      BY <2>4, <3>1 DEF OnceInv
    <3>2. CASE x \notin ran
      <4>1. c.ground = "receipt" /\ running(h, a)
        BY <1>1, <1>5, <2>4, <3>2 DEF running, c, a
      <4>2. \A y \in ran : y.ground = "receipt" /\ y.action = a => c.shared /\ ~y.twice
        BY <1>1, <2>4, <4>1 DEF OnceInv, c
      <4>3. x.twice => \E y \in ran : y.action = a /\ y.ground = "receipt" /\ (~c.shared \/ y.twice)
        <5>1. x.twice => \E y \in ran : y.action = a /\ y.ground = c.ground /\ (~c.shared \/ y.twice)
          BY <1>6, <3>2, Zenon
        <5>2. c.ground = "receipt"
          BY <4>1
        <5> QED BY <5>1, <5>2, Zenon
      <4> QED BY <4>2, <4>3, Zenon
    <3> QED BY <3>1, <3>2
  <2> QED BY <2>1, <2>2, <2>3, <2>4 DEF OnceInv
<1>10. FileInv'
  BY <1>1 DEF FileInv, is_valid
<1> QED BY <1>7, <1>8, <1>9, <1>10

-----------------------------------------------------------------------------
(* Every step preserves the invariant, which gives the property.           *)
\* The policy file, registrations and time touch neither receipts nor hosts; what a
\* file puts in place is validated.
LEMMA StepKeeps == IInv /\ [Next]_wvars => IInv'
<1> SUFFICES ASSUME IInv, [Next]_wvars PROVE IInv'
  OBVIOUS
<1>1. ASSUME UNCHANGED <<requests, receipts, hosts, ran>>, FileInv' PROVE IInv'
  BY <1>1 DEF IInv, AccessTypeOK, CoverInv, OnceInv, running, approves
<1>2. ASSUME NEW rules \in Documents, NEW d \in Decision, from_policy_file(rules, d) PROVE IInv'
  BY <1>1, <1>2 DEF from_policy_file, FileInv, is_valid
<1>3. ASSUME NEW k \in Kinds, NEW e \in Effects, register(k, e) PROVE IInv'
  BY <1>1, <1>3 DEF register, IInv, FileInv, is_valid
<1>4. CASE tick
  BY <1>1, <1>4 DEF tick, IInv, FileInv, is_valid
<1>5. CASE UNCHANGED wvars
  BY <1>1, <1>5 DEF wvars, IInv, FileInv, is_valid
<1> QED
  BY <1>2, <1>3, <1>4, <1>5, RequestKeeps, IssueKeeps, TakeUpKeeps, ExecuteKeeps DEF Next

\* Receipts cover what runs (validate_approval_receipt, consume): an action that had to
\* ask ran only as it was approved, whatever became of its request meanwhile; a receipt
\* for one use is used twice only by hosts that hold the action at the same time; and
\* no order of the rules of a policy file matters.
THEOREM ReceiptsCover == Spec => []ReceiptsSound
<1>1. IInv => ReceiptsSound
  <2> SUFFICES ASSUME IInv PROVE ReceiptsSound
    OBVIOUS
  <2>1. \A x \in ran : x.ground = "receipt" =>
          /\ receipts[x.action].kind = "Approved" /\ receipts[x.action].request = x.request
          /\ Reuse = "OneTime" => ~x.twice
    BY DEF IInv, CoverInv, OnceInv, approves
  <2>2. policy.file => \A i, j \in 1..Len(policy.rules) :
          policy.rules[i].side_effect = policy.rules[j].side_effect => i = j
    BY DEF IInv, FileInv, is_valid
  <2> QED BY <2>1, <2>2 DEF ReceiptsSound
<1> QED BY <1>1, Starts, StepKeeps, PTL DEF Spec

\* Receipts, requests and what the hosts hold are of the types the code gives them.
THEOREM AccessTyped == Spec => []AccessTypeOK
<1>1. IInv => AccessTypeOK
  BY DEF IInv
<1> QED BY <1>1, Starts, StepKeeps, PTL DEF Spec

-----------------------------------------------------------------------------
(* Credentials.  The invariant follows each call through its reads and     *)
(* writes of the two stores, on the ids that no two calls overlap on.      *)
Ops == {"connect", "refresh", "rotate", "revoke", "offboard", "revoke_device"}
Stages == {"read", "secret", "ask", "rotated", "write", "metadata", "delete", "forget"}
CallRecord == [op : Ops \cup {"idle"}, at : Stages \cup {"idle"}, id : Ids \cup {Accounts!None},
               todo : SUBSET Ids, scope : Accounts!Scope \cup {Accounts!None}, token : Nat]

\* What a caller holds: nothing, or a call on one of the ids, and those it has still to do.
CallOK(c) ==
  /\ c \in CallRecord
  /\ \/ c = Accounts!Idle
     \/ /\ c.op \in Ops /\ c.at \in Stages /\ c.id \in Ids
        /\ c.todo # {} => c.op \in {"offboard", "revoke_device"}
        /\ c.at = "write" => c.token # 0

\* Secrets and tokens are numbers, 0 standing for none.
StoreTypeOK ==
  /\ metadata \in [Ids -> Accounts!Scope \cup {Accounts!None}] /\ secrets \in [Ids -> Nat]
  /\ live \in [Ids -> SUBSET (Nat \ {0})]
  /\ count \in [tokens : Nat, calls : Nat]
  /\ ghost \in [gone : SUBSET Ids, overlapped : SUBSET Ids, stranded : SUBSET Nat]

\* What the callers hold is of the types of the code.
CallsOK == calls \in [Callers -> CallRecord] /\ \A p \in Callers : CallOK(calls[p])

\* Every token that the provider honours is stored or known to be stranded, and what is gone is gone.
Kept(i) ==
  /\ live[i] \subseteq {secrets[i]} \cup ghost.stranded
  /\ i \in ghost.gone => metadata[i] = Accounts!None /\ secrets[i] = 0

\* How far the call c has come with the credential i it works on.
Reached(c, i) ==
  /\ c.at = "read" => Kept(i)
  /\ c.at \in {"secret", "ask", "rotated", "metadata"} => Kept(i) /\ i \notin ghost.gone
  /\ c.at \in {"ask", "rotated"} => c.token = secrets[i]
  /\ c.at = "write" => live[i] \subseteq {c.token} \cup ghost.stranded /\ i \notin ghost.gone
  /\ c.at = "delete" /\ c.op = "revoke_device" => Kept(i)
  /\ c.at = "delete" /\ c.op # "revoke_device" => live[i] \subseteq ghost.stranded /\ i \notin ghost.gone
  /\ c.at = "forget" => /\ secrets[i] = 0
                        /\ i \in ghost.gone => metadata[i] = Accounts!None
                        /\ c.op # "revoke_device" => live[i] \subseteq ghost.stranded

\* The call c is at work on the credential i.
works(c, i) == c.op # "idle" /\ c.id = i

\* A call that has done nothing yet with the credential it comes to.
fresh(c) == c.at = "read" \/ (c.at = "delete" /\ c.op = "revoke_device")

\* On an id that is not overlapped, one call has it to do.
AloneInv == \A i \in Ids \ ghost.overlapped : \A p, q \in Callers :
  p # q => i \notin Accounts!targets(calls[p]) \/ i \notin Accounts!targets(calls[q])

\* There, the store is as far as that call has come, and consistent if none works on it.
ReachedInv == \A i \in Ids \ ghost.overlapped :
  /\ \A p \in Callers : works(calls[p], i) => Reached(calls[p], i)
  /\ (\A p \in Callers : ~works(calls[p], i)) => Kept(i)

CInv == StoreTypeOK /\ CallsOK /\ AloneInv /\ ReachedInv

\* In the stores of a new process there is no credential and no call.
LEMMA CInit == Accounts!Init => CInv
<1> SUFFICES ASSUME Accounts!Init PROVE CInv
  OBVIOUS
<1>1. StoreTypeOK
  BY DEF Accounts!Init, StoreTypeOK
<1>2. CallsOK
  BY DEF Accounts!Init, CallsOK, CallOK, CallRecord, Accounts!Idle
<1>3. AloneInv
  BY DEF Accounts!Init, AloneInv, Accounts!targets, Accounts!Idle
<1>4. ReachedInv
  BY DEF Accounts!Init, ReachedInv, works, Kept, Accounts!Idle
<1> QED BY <1>1, <1>2, <1>3, <1>4 DEF CInv

\* The credential a call works on is one it may touch.
LEMMA WorksOnTarget == ASSUME NEW c, NEW i \in Ids, works(c, i) PROVE i \in Accounts!targets(c)
BY DEF works, Accounts!targets

\* The calls begun while p was idle are fresh on every id that is not overlapped by them.
LEMMA BeginKeeps ==
  ASSUME CInv, NEW p \in Callers, calls[p] = Accounts!Idle,
         calls' = [calls EXCEPT ![p] = calls'[p]], CallOK(calls'[p]), calls'[p] = Accounts!Idle \/ fresh(calls'[p]),
         ghost' = [ghost EXCEPT !.overlapped =
                     @ \cup UNION {Accounts!targets(calls'[p]) \cap Accounts!targets(calls[q]) : q \in Callers \ {p}}],
         count' = [count EXCEPT !.calls = @ + 1],
         UNCHANGED <<metadata, secrets, live>>
  PROVE  CInv'
<1> USE DEF CInv
<1>1. /\ \A q \in Callers \ {p} : calls'[q] = calls[q]
      /\ \A i \in Ids \ ghost'.overlapped :
           i \notin ghost.overlapped
            /\ \A q \in Callers \ {p} : i \notin Accounts!targets(calls'[p]) \/ i \notin Accounts!targets(calls[q])
      /\ ghost'.gone = ghost.gone /\ ghost'.stranded = ghost.stranded
  BY DEF StoreTypeOK, CallsOK
<1>2. StoreTypeOK'
  <2>1. \A c : Accounts!targets(c) \cap Ids \subseteq Ids
    OBVIOUS
  <2>2. \A q \in Callers : Accounts!targets(calls[q]) \subseteq Ids
    BY DEF CallsOK, CallOK, Accounts!targets, Accounts!Idle
  <2>3. ghost'.overlapped \subseteq Ids
    BY <2>2 DEF StoreTypeOK
  <2>4. ghost' \in [gone : SUBSET Ids, overlapped : SUBSET Ids, stranded : SUBSET Nat]
    BY <2>3 DEF StoreTypeOK
  <2> QED BY <2>4 DEF StoreTypeOK
<1>3. CallsOK'
  BY DEF CallsOK, CallOK
<1>4. AloneInv'
  BY <1>1 DEF AloneInv
<1>5. ASSUME NEW i \in Ids \ ghost'.overlapped
      PROVE  /\ \A q \in Callers : works(calls'[q], i) => Reached(calls[q], i)'
             /\ (\A q \in Callers : ~works(calls'[q], i)) => Kept(i)'
  <2>1. (Kept(i) => Kept(i)') /\ i \notin ghost.overlapped
    BY <1>1 DEF Kept
  <2>2. ASSUME NEW q \in Callers \ {p}, works(calls'[q], i) PROVE Reached(calls[q], i)'
    BY <1>1, <2>1, <2>2 DEF ReachedInv, Reached, Kept
  <2>3. ASSUME works(calls'[p], i) PROVE Reached(calls[p], i)'
    <3>1. i \in Accounts!targets(calls'[p])
      BY <2>3, WorksOnTarget
    <3>2. \A q \in Callers : ~works(calls[q], i)
      BY <1>1, <3>1, WorksOnTarget DEF works, Accounts!Idle
    <3>3. Kept(i)'
      BY <2>1, <3>2 DEF ReachedInv
    <3>4. fresh(calls'[p])
      BY <2>3 DEF works, Accounts!Idle
    <3> QED BY <3>3, <3>4 DEF Reached, fresh
  <2>4. ASSUME \A q \in Callers : ~works(calls'[q], i) PROVE Kept(i)'
    <3>1. \A q \in Callers : ~works(calls[q], i)
      BY <1>1, <2>4 DEF works, Accounts!Idle
    <3> QED BY <2>1, <3>1 DEF ReachedInv
  <2> QED BY <2>2, <2>3, <2>4
<1>6. ReachedInv'
  BY <1>5 DEF ReachedInv, works
<1> QED BY <1>2, <1>3, <1>4, <1>6

\* A step of a call of p on the credential j, if it leaves j as the stage it reaches demands.
LEMMA MoveKeeps ==
  ASSUME CInv, NEW p \in Callers, NEW j \in Ids, works(calls[p], j),
         calls' = [calls EXCEPT ![p] = calls'[p]], CallOK(calls'[p]), Accounts!targets(calls'[p]) \subseteq Accounts!targets(calls[p]),
         StoreTypeOK', ghost'.overlapped = ghost.overlapped, ghost.stranded \subseteq ghost'.stranded,
         \A i \in Ids \ {j} : /\ metadata'[i] = metadata[i] /\ secrets'[i] = secrets[i] /\ live'[i] = live[i]
                              /\ i \in ghost'.gone => i \in ghost.gone,
         \A i \in Ids \ {j} : works(calls'[p], i) => fresh(calls'[p]),
         j \notin ghost.overlapped /\ works(calls'[p], j) => Reached(calls[p], j)',
         j \notin ghost.overlapped /\ ~works(calls'[p], j) => Kept(j)'
  PROVE  CInv'
<1> USE DEF CInv
<1>1. \A q \in Callers \ {p} : calls'[q] = calls[q]
  BY DEF CallsOK
<1>2. CallsOK'
  BY DEF CallsOK, CallOK
<1>3. AloneInv'
  BY <1>1 DEF AloneInv
<1>4. ASSUME NEW i \in Ids \ ghost.overlapped
      PROVE  /\ \A q \in Callers : works(calls'[q], i) => Reached(calls[q], i)'
             /\ (\A q \in Callers : ~works(calls'[q], i)) => Kept(i)'
  <2>1. CASE i = j
    <3>1. ASSUME NEW q \in Callers \ {p}, works(calls'[q], j) PROVE FALSE
      <4>1. j \in Accounts!targets(calls[q]) /\ j \in Accounts!targets(calls[p])
        BY <1>1, <3>1, WorksOnTarget
      <4> QED BY <1>4, <2>1, <4>1 DEF AloneInv
    <3> QED BY <1>4, <2>1, <3>1
  <2>2. CASE i # j
    <3>1. Kept(i) => Kept(i)'
      BY <2>2 DEF Kept
    <3>2. ASSUME NEW q \in Callers \ {p}, works(calls'[q], i) PROVE Reached(calls[q], i)'
      <4>1. calls'[q] = calls[q] /\ Reached(calls[q], i)
        BY <1>1, <1>4, <3>2 DEF ReachedInv
      <4>2. /\ metadata'[i] = metadata[i] /\ secrets'[i] = secrets[i] /\ live'[i] = live[i]
            /\ i \in ghost'.gone => i \in ghost.gone
            /\ ghost.stranded \subseteq ghost'.stranded
        BY <2>2
      <4> QED BY <3>1, <4>1, <4>2 DEF Reached
    <3>3. ~works(calls[p], i)
      BY <2>2 DEF works
    <3>4. ASSUME works(calls'[p], i) PROVE Reached(calls[p], i)'
      <4>1. i \in Accounts!targets(calls[p])
        BY <3>4, WorksOnTarget
      <4>2. \A q \in Callers : ~works(calls[q], i)
        BY <1>4, <3>3, <4>1, WorksOnTarget DEF AloneInv
      <4>3. Kept(i)'
        BY <1>4, <3>1, <4>2 DEF ReachedInv
      <4>4. fresh(calls'[p])
        BY <2>2, <3>4
      <4> QED BY <4>3, <4>4 DEF Reached, fresh
    <3>5. ASSUME \A q \in Callers : ~works(calls'[q], i) PROVE Kept(i)'
      <4>1. \A q \in Callers : ~works(calls[q], i)
        BY <1>1, <3>3, <3>5
      <4> QED BY <1>4, <3>1, <4>1 DEF ReachedInv
    <3> QED BY <3>2, <3>4, <3>5
  <2> QED BY <2>1, <2>2
<1>5. ReachedInv'
  BY <1>4 DEF ReachedInv, works
<1> QED BY <1>2, <1>3, <1>5

\* What a call holds when it goes on: a fresh start on the next id, or nothing.
LEMMA AfterIs ==
  ASSUME NEW c \in CallRecord, c.op \in Ops, c.todo # {} => c.op \in {"offboard", "revoke_device"}
  PROVE  /\ CallOK(Accounts!after(c))
         /\ Accounts!after(c) = Accounts!Idle \/ fresh(Accounts!after(c))
         /\ c.id \in Ids => Accounts!targets(Accounts!after(c)) \subseteq Accounts!targets(c)
<1>1. CASE c.todo = {}
  BY <1>1 DEF Accounts!after, CallOK, CallRecord, Accounts!Idle, Accounts!targets
<1>2. CASE c.todo # {}
  <2> DEFINE i == CHOOSE i \in c.todo : TRUE
             d == [c EXCEPT !.id = i, !.todo = @ \ {i}, !.token = 0,
                            !.at = IF c.op = "revoke_device" THEN "delete" ELSE "read"]
  <2>1. Accounts!after(c) = d
    BY <1>2 DEF Accounts!after
  <2>2. i \in c.todo /\ i \in Ids
    BY <1>2 DEF CallRecord
  <2> HIDE DEF i
  <2>3. /\ d \in CallRecord /\ d.op = c.op /\ d.id = i
        /\ d.at = IF c.op = "revoke_device" THEN "delete" ELSE "read"
    BY <2>2 DEF CallRecord, Stages
  <2>4. CallOK(d) /\ fresh(d)
    BY <1>2, <2>2, <2>3 DEF CallOK, fresh, Stages
  <2>5. Accounts!targets(d) \subseteq Accounts!targets(c)
    BY <1>2, <2>3 DEF Accounts!targets
  <2> QED BY <2>1, <2>4, <2>5
<1> QED BY <1>1, <1>2

\* A call that is done with j, and keeps it, goes on.
LEMMA AfterKeeps ==
  ASSUME CInv, NEW p \in Callers, NEW j \in Ids, works(calls[p], j), Accounts!goto(p, Accounts!after(calls[p])),
         StoreTypeOK', ghost'.overlapped = ghost.overlapped, ghost.stranded \subseteq ghost'.stranded,
         \A i \in Ids \ {j} : /\ metadata'[i] = metadata[i] /\ secrets'[i] = secrets[i] /\ live'[i] = live[i]
                              /\ i \in ghost'.gone => i \in ghost.gone,
         j \notin ghost.overlapped => Kept(j)'
  PROVE  CInv'
<1> DEFINE d == Accounts!after(calls[p])
<1>1. calls' = [calls EXCEPT ![p] = d] /\ calls'[p] = d
  BY DEF Accounts!goto, CInv, CallsOK
<1>2. calls[p] \in CallRecord /\ CallOK(calls[p]) /\ calls[p].op \in Ops /\ calls[p].id \in Ids
  BY DEF CInv, CallsOK, CallOK, works, Accounts!Idle
<1>3. CallOK(d) /\ (d = Accounts!Idle \/ fresh(d)) /\ Accounts!targets(d) \subseteq Accounts!targets(calls[p])
  <2>1. calls[p].todo # {} => calls[p].op \in {"offboard", "revoke_device"}
    <3>1. calls[p] # Accounts!Idle
      BY <1>2 DEF Accounts!Idle, Ops
    <3> QED BY <1>2, <3>1 DEF CallOK
  <2> QED BY <1>2, <2>1, AfterIs
<1> HIDE DEF d
<1>4. \A i \in Ids : works(calls'[p], i) => fresh(calls'[p])
  BY <1>1, <1>3 DEF works, Accounts!Idle
<1>5. j \notin ghost.overlapped /\ works(calls'[p], j) => Reached(calls[p], j)'
  BY <1>4 DEF Reached, fresh
<1> QED BY <1>1, <1>3, <1>4, <1>5, MoveKeeps

\* A call that stays with its credential and comes to another stage of it.
LEMMA StageKeeps ==
  ASSUME CInv, NEW p \in Callers, NEW j \in Ids, works(calls[p], j),
         NEW d \in CallRecord, Accounts!goto(p, d), d.op = calls[p].op, d.id = j, d.todo = calls[p].todo,
         d.at \in Stages, d.at = "write" => d.token # 0,
         StoreTypeOK', ghost'.overlapped = ghost.overlapped, ghost.stranded \subseteq ghost'.stranded,
         \A i \in Ids \ {j} : /\ metadata'[i] = metadata[i] /\ secrets'[i] = secrets[i] /\ live'[i] = live[i]
                              /\ i \in ghost'.gone => i \in ghost.gone,
         j \notin ghost.overlapped => Reached(calls[p], j)'
  PROVE  CInv'
<1>1. calls' = [calls EXCEPT ![p] = d] /\ calls'[p] = d
  BY DEF Accounts!goto, CInv, CallsOK
<1>2. calls[p] \in CallRecord /\ CallOK(calls[p]) /\ calls[p].op \in Ops /\ calls[p].id = j
  BY DEF CInv, CallsOK, CallOK, works, Accounts!Idle
<1>3. CallOK(d) /\ Accounts!targets(d) = Accounts!targets(calls[p])
  BY <1>2 DEF CallOK, Accounts!targets, Accounts!Idle, Ops
<1>4. \A i \in Ids : works(calls'[p], i) <=> i = j
  BY <1>1, <1>2 DEF works, Ops
<1>5. /\ calls' = [calls EXCEPT ![p] = calls'[p]] /\ CallOK(calls'[p])
      /\ Accounts!targets(calls'[p]) \subseteq Accounts!targets(calls[p])
  BY <1>1, <1>3
<1>6. (\A i \in Ids \ {j} : works(calls'[p], i) => fresh(calls'[p])) /\ works(calls'[p], j)
  BY <1>4
<1> QED BY <1>5, <1>6, MoveKeeps

-----------------------------------------------------------------------------
\* A step of a call is on the credential it works on, and what it has reached there holds.
LEMMA StepFacts ==
  ASSUME CInv, NEW p \in Callers, calls[p].at # "idle"
  PROVE  \E j \in Ids : /\ calls[p].id = j /\ works(calls[p], j) /\ calls[p].op \in Ops /\ calls[p].at \in Stages
                        /\ calls[p] \in CallRecord
                        /\ j \notin ghost.overlapped => Reached(calls[p], j)
<1>1. calls[p] \in CallRecord /\ calls[p].op \in Ops /\ calls[p].at \in Stages /\ calls[p].id \in Ids
  BY DEF CInv, CallsOK, CallOK, Accounts!Idle
<1>2. works(calls[p], calls[p].id)
  BY <1>1 DEF works, Ops
<1> QED BY <1>1, <1>2 DEF CInv, ReachedInv

\* A connection stores the token of a new authorization under an id that is free or replaced.
LEMMA ConnectKeeps ==
  ASSUME CInv, NEW p \in Callers, NEW j \in Ids, NEW s \in Accounts!Scope, Accounts!connect(p, j, s)
  PROVE  CInv'
<1> USE DEF CInv
<1> DEFINE t == count.tokens + 1
           c == [Accounts!Idle EXCEPT !.op = "connect", !.at = "write", !.id = j, !.scope = s, !.token = t]
<1>1. /\ calls[p] = Accounts!Idle /\ calls' = [calls EXCEPT ![p] = c]
      /\ live' = [live EXCEPT ![j] = @ \cup {t}]
      /\ ghost' = [ghost EXCEPT
             !.overlapped = @ \cup UNION {Accounts!targets(c) \cap Accounts!targets(calls[q]) : q \in Callers \ {p}},
             !.gone = @ \ {j},
             !.stranded = IF secrets[j] = 0 THEN @ ELSE @ \cup {secrets[j]}]
      /\ count' = [tokens |-> t, calls |-> count.calls + 1] /\ UNCHANGED <<metadata, secrets>>
  BY DEF Accounts!connect
<1>2. t \in Nat \ {0} /\ c \in CallRecord /\ c.op = "connect" /\ c.at = "write" /\ c.id = j /\ c.todo = {} /\ c.token = t
  <2>1. t \in Nat \ {0}
    BY DEF StoreTypeOK
  <2> HIDE DEF t
  <2>2. c.op = "connect" /\ c.at = "write" /\ c.id = j /\ c.todo = {} /\ c.token = t
    BY DEF Accounts!Idle
  <2>3. c \in CallRecord
    BY <2>1 DEF Accounts!Idle, CallRecord, Ops, Stages
  <2> HIDE DEF c
  <2> QED BY <2>1, <2>2, <2>3
<1> HIDE DEF t, c
<1>3. Accounts!targets(c) = {j}
  BY <1>2 DEF Accounts!targets
<1>4. /\ calls'[p] = c /\ \A q \in Callers \ {p} : calls'[q] = calls[q]
      /\ ghost.stranded \subseteq ghost'.stranded /\ ghost'.gone = ghost.gone \ {j}
      /\ secrets[j] # 0 => secrets[j] \in ghost'.stranded
      /\ \A i \in Ids \ ghost'.overlapped :
           i \notin ghost.overlapped /\ \A q \in Callers \ {p} : i # j \/ i \notin Accounts!targets(calls[q])
  BY <1>1, <1>3 DEF StoreTypeOK, CallsOK
<1>5. StoreTypeOK'
  <2>1. ghost'.overlapped \subseteq Ids
    BY <1>1, <1>3 DEF StoreTypeOK
  <2>2. ghost' \in [gone : SUBSET Ids, overlapped : SUBSET Ids, stranded : SUBSET Nat]
    <3>1. ghost'.stranded \subseteq Nat /\ ghost'.gone \subseteq Ids
      BY <1>1 DEF StoreTypeOK
    <3>2. ghost' = [gone |-> ghost'.gone, overlapped |-> ghost'.overlapped, stranded |-> ghost'.stranded]
      BY <1>1 DEF StoreTypeOK
    <3> QED BY <2>1, <3>1, <3>2
  <2>3. live' \in [Ids -> SUBSET (Nat \ {0})]
    BY <1>1, <1>2 DEF StoreTypeOK
  <2>4. count' \in [tokens : Nat, calls : Nat]
    BY <1>1, <1>2 DEF StoreTypeOK
  <2> QED BY <1>1, <2>2, <2>3, <2>4 DEF StoreTypeOK
<1>6. CallsOK'
  BY <1>1, <1>2, <1>4 DEF CallsOK, CallOK, Ops, Stages
<1>7. AloneInv'
  BY <1>3, <1>4 DEF AloneInv
<1>8. ASSUME NEW i \in Ids \ ghost'.overlapped
      PROVE  /\ \A q \in Callers : works(calls'[q], i) => Reached(calls[q], i)'
             /\ (\A q \in Callers : ~works(calls'[q], i)) => Kept(i)'
  <2>1. CASE i = j
    <3>1. \A q \in Callers : ~works(calls[q], j)
      BY <1>1, <1>4, <2>1, WorksOnTarget DEF works, Accounts!Idle
    <3>2. Kept(j) /\ 0 \notin live[j] /\ live'[j] = live[j] \cup {t}
      BY <1>1, <1>4, <2>1, <3>1 DEF ReachedInv, StoreTypeOK
    <3>3. live'[j] \subseteq {t} \cup ghost'.stranded /\ j \notin ghost'.gone
      BY <1>4, <3>2 DEF Kept
    <3>4. Reached(calls[p], j)'
      BY <1>2, <1>4, <3>3 DEF Reached
    <3>5. \A q \in Callers \ {p} : ~works(calls'[q], j)
      BY <1>4, <3>1
    <3>6. works(calls'[p], j)
      BY <1>2, <1>4 DEF works
    <3> QED BY <2>1, <3>4, <3>5, <3>6
  <2>2. CASE i # j
    <3>1. /\ metadata'[i] = metadata[i] /\ secrets'[i] = secrets[i] /\ live'[i] = live[i]
          /\ i \in ghost'.gone => i \in ghost.gone
      BY <1>1, <1>4, <2>2 DEF StoreTypeOK
    <3>2. Kept(i) => Kept(i)'
      BY <1>4, <3>1 DEF Kept
    <3>3. ~works(calls'[p], i) /\ ~works(calls[p], i)
      BY <1>1, <1>2, <1>4, <2>2 DEF works, Accounts!Idle
    <3>4. ASSUME NEW q \in Callers \ {p}, works(calls'[q], i) PROVE Reached(calls[q], i)'
      <4>1. calls'[q] = calls[q] /\ Reached(calls[q], i)
        BY <1>4, <3>4 DEF ReachedInv
      <4> QED BY <1>4, <3>1, <3>2, <4>1 DEF Reached
    <3>5. ASSUME \A q \in Callers : ~works(calls'[q], i) PROVE Kept(i)'
      <4>1. \A q \in Callers : ~works(calls[q], i)
        BY <1>4, <3>3, <3>5
      <4> QED BY <1>4, <3>2, <4>1 DEF ReachedInv
    <3> QED BY <3>3, <3>4, <3>5
  <2> QED BY <2>1, <2>2
<1>9. ReachedInv'
  BY <1>8 DEF ReachedInv, works
<1> QED BY <1>5, <1>6, <1>7, <1>9

\* The calls that begin with a look at the store.
LEMMA BeginsKeep ==
  ASSUME CInv, NEW p \in Callers,
         \/ \E i \in Ids, s \in Accounts!Scope : Accounts!refresh_oauth_credential(p, i, s)
         \/ \E i \in Ids : Accounts!rotate_credential_secret(p, i) \/ Accounts!revoke_oauth_credential(p, i)
         \/ Accounts!offboard_connector_account_oauth_credentials(p) \/ Accounts!revoke_device_credentials(p)
  PROVE  CInv'
<1>1. ASSUME NEW c, Accounts!begin(p, c), CallOK(c), c = Accounts!Idle \/ fresh(c)
      PROVE  CInv'
  <2>1. calls'[p] = c /\ calls' = [calls EXCEPT ![p] = c]
    BY <1>1 DEF Accounts!begin, CInv, CallsOK
  <2>2. /\ calls[p] = Accounts!Idle /\ count' = [count EXCEPT !.calls = @ + 1] /\ UNCHANGED <<metadata, secrets, live>>
        /\ ghost' = [ghost EXCEPT !.overlapped =
                       @ \cup UNION {Accounts!targets(c) \cap Accounts!targets(calls[q]) : q \in Callers \ {p}}]
    BY <1>1 DEF Accounts!begin
  <2>3. /\ CallOK(calls'[p]) /\ (calls'[p] = Accounts!Idle \/ fresh(calls'[p]))
        /\ calls' = [calls EXCEPT ![p] = calls'[p]]
        /\ ghost' = [ghost EXCEPT !.overlapped =
                       @ \cup UNION {Accounts!targets(calls'[p]) \cap Accounts!targets(calls[q]) : q \in Callers \ {p}}]
    BY <1>1, <2>1, <2>2
  <2> QED BY <2>2, <2>3, BeginKeeps
<1>2. ASSUME NEW c \in CallRecord, Accounts!begin(p, c), c.op \in Ops, c.at = "read", c.id \in Ids, c.todo = {}
      PROVE  CInv'
  BY <1>1, <1>2 DEF CallOK, fresh, Stages
<1>3. ASSUME NEW c \in CallRecord, Accounts!begin(p, Accounts!after(c)), c.op \in {"offboard", "revoke_device"}
      PROVE  CInv'
  <2>1. CallOK(Accounts!after(c)) /\ (Accounts!after(c) = Accounts!Idle \/ fresh(Accounts!after(c)))
    BY <1>3, AfterIs DEF Ops
  <2> QED BY <1>1, <1>3, <2>1
<1>4. \A s : Accounts!list_by_scope(s) \in SUBSET Ids
  BY DEF Accounts!list_by_scope
<1>5. ASSUME NEW i \in Ids, NEW s \in Accounts!Scope, Accounts!refresh_oauth_credential(p, i, s) PROVE CInv'
  <2> DEFINE c == [Accounts!Idle EXCEPT !.op = "refresh", !.at = "read", !.id = i, !.scope = s]
  <2>1. c \in CallRecord /\ c.op \in Ops /\ c.at = "read" /\ c.id \in Ids /\ c.todo = {}
    BY DEF Accounts!Idle, CallRecord, Ops, Stages
  <2>2. Accounts!begin(p, c)
    BY <1>5 DEF Accounts!refresh_oauth_credential
  <2> HIDE DEF c
  <2> QED BY <1>2, <2>1, <2>2
<1>6. ASSUME NEW i \in Ids, Accounts!rotate_credential_secret(p, i) PROVE CInv'
  <2> DEFINE c == [Accounts!Idle EXCEPT !.op = "rotate", !.at = "read", !.id = i]
  <2>1. c \in CallRecord /\ c.op \in Ops /\ c.at = "read" /\ c.id \in Ids /\ c.todo = {}
    BY DEF Accounts!Idle, CallRecord, Ops, Stages
  <2>2. Accounts!begin(p, c)
    BY <1>6 DEF Accounts!rotate_credential_secret
  <2> HIDE DEF c
  <2> QED BY <1>2, <2>1, <2>2
<1>7. ASSUME NEW i \in Ids, Accounts!revoke_oauth_credential(p, i) PROVE CInv'
  <2> DEFINE c == [Accounts!Idle EXCEPT !.op = "revoke", !.at = "read", !.id = i]
  <2>1. c \in CallRecord /\ c.op \in Ops /\ c.at = "read" /\ c.id \in Ids /\ c.todo = {}
    BY DEF Accounts!Idle, CallRecord, Ops, Stages
  <2>2. Accounts!begin(p, c)
    BY <1>7 DEF Accounts!revoke_oauth_credential
  <2> HIDE DEF c
  <2> QED BY <1>2, <2>1, <2>2
<1>8. ASSUME Accounts!offboard_connector_account_oauth_credentials(p) PROVE CInv'
  <2> DEFINE c == [Accounts!Idle EXCEPT !.op = "offboard", !.todo = Accounts!list_by_scope("ConnectorAccount")]
  <2>1. c \in CallRecord /\ c.op \in {"offboard", "revoke_device"}
    BY <1>4 DEF Accounts!Idle, CallRecord, Ops
  <2>2. Accounts!begin(p, Accounts!after(c))
    BY <1>8 DEF Accounts!offboard_connector_account_oauth_credentials
  <2> HIDE DEF c
  <2> QED BY <1>3, <2>1, <2>2
<1>9. ASSUME Accounts!revoke_device_credentials(p) PROVE CInv'
  <2> DEFINE c == [Accounts!Idle EXCEPT !.op = "revoke_device", !.todo = Accounts!list_by_scope("Device")]
  <2>1. c \in CallRecord /\ c.op \in {"offboard", "revoke_device"}
    BY <1>4 DEF Accounts!Idle, CallRecord, Ops
  <2>2. Accounts!begin(p, Accounts!after(c))
    BY <1>9 DEF Accounts!revoke_device_credentials
  <2> HIDE DEF c
  <2> QED BY <1>3, <2>1, <2>2
<1> QED BY <1>5, <1>6, <1>7, <1>8, <1>9

\* A call that fails does nothing more; a token it was about to store is stranded.
LEMMA FailsKeeps ==
  ASSUME CInv, NEW p \in Callers, Accounts!fails(p)
  PROVE  CInv'
<1>1. calls[p].at \in {"read", "secret", "ask", "write", "delete"} /\ calls' = [calls EXCEPT ![p] = Accounts!Idle]
  BY DEF Accounts!fails, Accounts!goto
<1>2. PICK j \in Ids : /\ works(calls[p], j) /\ calls[p].id = j /\ calls[p] \in CallRecord
                       /\ j \notin ghost.overlapped => Reached(calls[p], j)
  BY <1>1, StepFacts
<1>3. calls'[p] = Accounts!Idle /\ CallOK(Accounts!Idle) /\ Accounts!targets(Accounts!Idle) = {}
       /\ \A i \in Ids : ~works(Accounts!Idle, i)
  BY <1>1 DEF CInv, CallsOK, CallOK, CallRecord, Accounts!Idle, Accounts!targets, works
<1>4. UNCHANGED <<metadata, secrets, live, count>>
  BY DEF Accounts!fails
<1>5. /\ ghost'.gone = ghost.gone /\ ghost'.overlapped = ghost.overlapped /\ ghost.stranded \subseteq ghost'.stranded
      /\ ghost' \in [gone : SUBSET Ids, overlapped : SUBSET Ids, stranded : SUBSET Nat]
      /\ calls[p].at = "write" /\ calls[p].token # 0 => calls[p].token \in ghost'.stranded
  BY <1>2 DEF Accounts!fails, Accounts!abandoned, CInv, StoreTypeOK, CallRecord
<1>6. StoreTypeOK'
  BY <1>4, <1>5 DEF CInv, StoreTypeOK
<1>7. ASSUME j \notin ghost.overlapped PROVE Kept(j)'
  <2>1. Reached(calls[p], j)
    BY <1>2, <1>7
  <2>2. Kept(j) => Kept(j)'
    BY <1>4, <1>5 DEF Kept
  <2>3. CASE calls[p].at = "write"
    <3>1. calls[p].token \in ghost'.stranded
      BY <1>5, <2>3 DEF CInv, CallsOK, CallOK, Accounts!Idle
    <3> QED BY <1>4, <1>5, <2>1, <2>3, <3>1 DEF Reached, Kept
  <2>4. CASE calls[p].at = "delete" /\ calls[p].op # "revoke_device"
    BY <1>4, <1>5, <2>1, <2>4 DEF Reached, Kept
  <2>5. CASE calls[p].at \in {"read", "secret", "ask"} \/ (calls[p].at = "delete" /\ calls[p].op = "revoke_device")
    BY <2>1, <2>2, <2>5 DEF Reached
  <2> QED BY <1>1, <2>3, <2>4, <2>5
<1>8. \A i \in Ids : ~works(calls'[p], i)
  BY <1>3
<1> QED BY <1>1, <1>2, <1>3, <1>4, <1>5, <1>6, <1>7, <1>8, MoveKeeps

\* What a call reads of the store while it changes nothing there.
LEMMA ReadKeeps ==
  ASSUME CInv, NEW p \in Callers, Accounts!read(p) \/ Accounts!read_secret(p)
  PROVE  CInv'
<1> DEFINE c == calls[p]
           d == calls'[p]
<1>1. c.at \in {"read", "secret"} /\ UNCHANGED <<metadata, secrets, live, count, ghost>>
  BY DEF Accounts!read, Accounts!read_secret
<1>2. PICK j \in Ids : /\ works(c, j) /\ c.id = j /\ c \in CallRecord /\ c.op \in Ops
                       /\ j \notin ghost.overlapped => Reached(c, j)
  BY <1>1, StepFacts DEF Stages
<1>3. StoreTypeOK' /\ (Kept(j) => Kept(j)')
  BY <1>1 DEF CInv, StoreTypeOK, Kept
<1>4. /\ d \in CallRecord /\ Accounts!goto(p, d) /\ d.op = c.op /\ d.id = j /\ d.todo = c.todo
      /\ d.at \in {"secret", "ask", "rotated"}
      /\ d.at # "secret" => d.token = secrets[j]
      /\ c.at = "read" => metadata[j] # Accounts!None
  <2>1. c.at \in Stages /\ metadata[j] \in Accounts!Scope \cup {Accounts!None} /\ secrets[j] \in Nat
         /\ calls \in [Callers -> CallRecord]
    BY <1>1 DEF CInv, StoreTypeOK, CallsOK, Stages
  <2>2. CASE Accounts!read(p)
    BY <1>2, <2>1, <2>2 DEF Accounts!read, Accounts!goto, Accounts!with_secret, CallRecord, Stages
  <2>3. CASE Accounts!read_secret(p)
    BY <1>2, <2>1, <2>3 DEF Accounts!read_secret, Accounts!goto, Accounts!with_secret, CallRecord, Stages
  <2> QED BY <2>2, <2>3
<1> HIDE DEF c, d
<1>5. ASSUME j \notin ghost.overlapped PROVE Reached(calls[p], j)'
  <2>1. Kept(j) /\ j \notin ghost.gone
    BY <1>1, <1>2, <1>4, <1>5 DEF Reached, Kept
  <2> QED BY <1>1, <1>3, <1>4, <2>1 DEF Reached, d
<1> QED BY <1>1, <1>2, <1>3, <1>4, <1>5, StageKeeps DEF c, d, Stages

\* The provider puts a new token in the place of the one that the call read.
LEMMA RenewKeeps ==
  ASSUME CInv, NEW p \in Callers, Accounts!rotated(p) \/ Accounts!refresh(p)
  PROVE  CInv'
<1> DEFINE c == calls[p]
           t == count.tokens + 1
           d == [c EXCEPT !.at = "write", !.token = t]
<1>1. /\ c.at \in {"ask", "rotated"} /\ Accounts!goto(p, d) /\ live' = [live EXCEPT ![c.id] = (@ \ {c.token}) \cup {t}]
      /\ count' = [count EXCEPT !.tokens = t] /\ UNCHANGED <<metadata, secrets, ghost>>
  BY DEF Accounts!rotated, Accounts!refresh, CInv, StoreTypeOK
<1>2. PICK j \in Ids : /\ works(c, j) /\ c.id = j /\ c \in CallRecord /\ c.op \in Ops
                       /\ j \notin ghost.overlapped => Reached(c, j)
  BY <1>1, StepFacts DEF Stages
<1>3. t \in Nat \ {0} /\ calls \in [Callers -> CallRecord]
  BY DEF CInv, StoreTypeOK, CallsOK
<1> HIDE DEF t
<1>4. /\ d \in CallRecord /\ d.op = c.op /\ d.id = j /\ d.todo = c.todo /\ d.at = "write" /\ d.token = t
  BY <1>2, <1>3 DEF CallRecord, Stages
<1>5. /\ live'[j] = (live[j] \ {c.token}) \cup {t} /\ \A i \in Ids \ {j} : live'[i] = live[i]
      /\ live' \in [Ids -> SUBSET (Nat \ {0})]
  BY <1>1, <1>2, <1>3 DEF CInv, StoreTypeOK
<1>6. StoreTypeOK'
  BY <1>1, <1>3, <1>5 DEF CInv, StoreTypeOK
<1>7. calls'[p] = d
  BY <1>1, <1>3 DEF Accounts!goto
<1> HIDE DEF c, d
<1>8. ASSUME j \notin ghost.overlapped PROVE Reached(calls[p], j)'
  <2>1. Kept(j) /\ j \notin ghost.gone /\ c.token = secrets[j]
    BY <1>1, <1>2, <1>8 DEF Reached
  <2>2. live'[j] \subseteq {t} \cup ghost'.stranded
    BY <1>1, <1>5, <2>1 DEF Kept
  <2> QED BY <1>1, <1>4, <1>7, <2>1, <2>2 DEF Reached
<1>9. d.at \in Stages /\ (d.at = "write" => d.token # 0)
  BY <1>3, <1>4 DEF Stages
<1> QED BY <1>1, <1>2, <1>4, <1>5, <1>6, <1>8, <1>9, StageKeeps DEF c

\* A refresh that finds the token still valid ends.
LEMMA StillValidKeeps ==
  ASSUME CInv, NEW p \in Callers, Accounts!still_valid(p)
  PROVE  CInv'
<1>1. calls[p].at = "ask" /\ calls' = [calls EXCEPT ![p] = Accounts!Idle]
       /\ UNCHANGED <<metadata, secrets, live, count, ghost>>
  BY DEF Accounts!still_valid, Accounts!goto
<1>2. PICK j \in Ids : /\ works(calls[p], j)
                       /\ j \notin ghost.overlapped => Reached(calls[p], j)
  BY <1>1, StepFacts
<1>3. calls'[p] = Accounts!Idle /\ CallOK(Accounts!Idle) /\ Accounts!targets(Accounts!Idle) = {}
       /\ \A i \in Ids : ~works(Accounts!Idle, i)
  BY <1>1 DEF CInv, CallsOK, CallOK, CallRecord, Accounts!Idle, Accounts!targets, works
<1>4. StoreTypeOK' /\ (j \notin ghost.overlapped => Kept(j)')
  BY <1>1, <1>2 DEF CInv, StoreTypeOK, Reached, Kept
<1>5. \A i \in Ids : ~works(calls'[p], i)
  BY <1>3
<1> QED BY <1>1, <1>2, <1>3, <1>4, <1>5, MoveKeeps

\* A lost answer ends the call; a token it named is stranded.
LEMMA LostKeeps ==
  ASSUME CInv, NEW p \in Callers, Accounts!answer_lost(p)
  PROVE  CInv'
<1> DEFINE c == calls[p]
           t == count.tokens + 1
<1>1. /\ c.at = "ask" /\ calls' = [calls EXCEPT ![p] = Accounts!Idle]
      /\ UNCHANGED <<metadata, secrets>>
      /\ \/ /\ live' = [live EXCEPT ![c.id] = (@ \ {c.token}) \cup {t}]
            /\ ghost' = [ghost EXCEPT !.stranded = @ \cup {t}]
            /\ count' = [count EXCEPT !.tokens = t]
         \/ /\ live' = [live EXCEPT ![c.id] = @ \ {c.token}]
            /\ UNCHANGED <<ghost, count>>
  BY DEF Accounts!answer_lost, Accounts!goto
<1>2. PICK j \in Ids : /\ works(c, j) /\ c.id = j
                       /\ j \notin ghost.overlapped => Reached(c, j)
  BY <1>1, StepFacts
<1>3. calls'[p] = Accounts!Idle /\ CallOK(Accounts!Idle) /\ Accounts!targets(Accounts!Idle) = {}
       /\ \A i \in Ids : ~works(Accounts!Idle, i)
  BY <1>1 DEF CInv, CallsOK, CallOK, CallRecord, Accounts!Idle, Accounts!targets, works
<1>4. t \in Nat \ {0}
  BY DEF CInv, StoreTypeOK
<1> HIDE DEF c, t
<1>5. /\ \A i \in Ids \ {j} : live'[i] = live[i]
      /\ live' \in [Ids -> SUBSET (Nat \ {0})]
      /\ live'[j] \subseteq (live[j] \ {c.token}) \cup ghost'.stranded
      /\ ghost'.gone = ghost.gone /\ ghost'.overlapped = ghost.overlapped /\ ghost.stranded \subseteq ghost'.stranded
      /\ ghost' \in [gone : SUBSET Ids, overlapped : SUBSET Ids, stranded : SUBSET Nat]
      /\ count' \in [tokens : Nat, calls : Nat]
  <2>1. /\ live \in [Ids -> SUBSET (Nat \ {0})] /\ count \in [tokens : Nat, calls : Nat]
        /\ ghost \in [gone : SUBSET Ids, overlapped : SUBSET Ids, stranded : SUBSET Nat]
    BY DEF CInv, StoreTypeOK
  <2>2. CASE /\ live' = [live EXCEPT ![c.id] = (@ \ {c.token}) \cup {t}]
             /\ ghost' = [ghost EXCEPT !.stranded = @ \cup {t}]
             /\ count' = [count EXCEPT !.tokens = t]
    BY <1>2, <1>4, <2>1, <2>2
  <2>3. CASE live' = [live EXCEPT ![c.id] = @ \ {c.token}] /\ UNCHANGED <<ghost, count>>
    BY <1>2, <2>1, <2>3
  <2> QED BY <1>1, <2>2, <2>3
<1>6. StoreTypeOK'
  BY <1>1, <1>5 DEF CInv, StoreTypeOK
<1>7. ASSUME j \notin ghost.overlapped PROVE Kept(j)'
  <2>1. Kept(j)
    BY <1>1, <1>2, <1>7 DEF Reached
  <2> QED BY <1>1, <1>5, <2>1 DEF Kept
<1>8. \A i \in Ids : ~works(calls'[p], i)
  BY <1>3
<1>9. /\ works(calls[p], j) /\ calls' = [calls EXCEPT ![p] = calls'[p]] /\ CallOK(calls'[p])
      /\ Accounts!targets(calls'[p]) \subseteq Accounts!targets(calls[p])
  BY <1>1, <1>2, <1>3 DEF c
<1>10. \A i \in Ids \ {j} : /\ metadata'[i] = metadata[i] /\ secrets'[i] = secrets[i] /\ live'[i] = live[i]
                            /\ i \in ghost'.gone => i \in ghost.gone
  BY <1>1, <1>5
<1>11. /\ \A i \in Ids \ {j} : works(calls'[p], i) => fresh(calls'[p])
       /\ j \notin ghost.overlapped /\ works(calls'[p], j) => Reached(calls[p], j)'
       /\ j \notin ghost.overlapped /\ ~works(calls'[p], j) => Kept(j)'
  BY <1>7, <1>8
<1> HIDE DEF c
<1> QED BY <1>5, <1>6, <1>9, <1>10, <1>11, MoveKeeps

\* The provider's answer to a revocation: the token that was read is dead.
LEMMA RevokeKeeps ==
  ASSUME CInv, NEW p \in Callers, Accounts!revoke(p)
  PROVE  CInv'
<1> DEFINE c == calls[p]
           d == [c EXCEPT !.at = "delete"]
<1>1. /\ c.at = "ask" /\ c.op \in {"revoke", "offboard"} /\ Accounts!goto(p, d) /\ live' = [live EXCEPT ![c.id] = @ \ {c.token}]
      /\ UNCHANGED <<metadata, secrets, count, ghost>>
  BY DEF Accounts!revoke
<1>2. PICK j \in Ids : /\ works(c, j) /\ c.id = j /\ c \in CallRecord
                       /\ j \notin ghost.overlapped => Reached(c, j)
  BY <1>1, StepFacts
<1>3. /\ d \in CallRecord /\ d.op = c.op /\ d.id = j /\ d.todo = c.todo /\ d.at = "delete"
  BY <1>2 DEF CallRecord, Stages
<1>4. /\ live'[j] = live[j] \ {c.token} /\ \A i \in Ids \ {j} : live'[i] = live[i]
      /\ live' \in [Ids -> SUBSET (Nat \ {0})]
  BY <1>1, <1>2 DEF CInv, StoreTypeOK
<1>5. StoreTypeOK' /\ calls'[p] = d
  BY <1>1, <1>4 DEF CInv, StoreTypeOK, CallsOK, Accounts!goto
<1> HIDE DEF c, d
<1>6. ASSUME j \notin ghost.overlapped PROVE Reached(calls[p], j)'
  <2>1. Kept(j) /\ j \notin ghost.gone /\ c.token = secrets[j]
    BY <1>1, <1>2, <1>6 DEF Reached
  <2>2. live'[j] \subseteq ghost'.stranded
    BY <1>1, <1>4, <2>1 DEF Kept
  <2> QED BY <1>1, <1>3, <1>5, <2>1, <2>2 DEF Reached
<1> QED BY <1>1, <1>2, <1>3, <1>4, <1>5, <1>6, StageKeeps DEF c, Stages

\* The store takes the secret; the keychain store has its metadata still to write.
LEMMA WriteKeeps ==
  ASSUME CInv, NEW p \in Callers, Accounts!write(p)
  PROVE  CInv'
<1> DEFINE c == calls[p]
           d == [c EXCEPT !.at = "metadata"]
<1>1. /\ c.at = "write" /\ secrets' = [secrets EXCEPT ![c.id] = c.token]
      /\ \/ Accounts!goto(p, d) /\ metadata' = metadata
         \/ Accounts!goto(p, Accounts!after(c)) /\ metadata' = [metadata EXCEPT ![c.id] = c.scope]
      /\ UNCHANGED <<live, count, ghost>>
  BY DEF Accounts!write
<1>2. PICK j \in Ids : /\ works(c, j) /\ c.id = j /\ c \in CallRecord
                       /\ j \notin ghost.overlapped => Reached(c, j)
  BY <1>1, StepFacts
<1>3. secrets'[j] = c.token /\ \A i \in Ids \ {j} : secrets'[i] = secrets[i] /\ metadata'[i] = metadata[i]
  BY <1>1, <1>2 DEF CInv, StoreTypeOK
<1>4. StoreTypeOK'
  BY <1>1, <1>2 DEF CInv, StoreTypeOK, CallRecord
<1>5. /\ d \in CallRecord /\ d.op = c.op /\ d.id = j /\ d.todo = c.todo /\ d.at = "metadata"
      /\ Accounts!goto(p, d) => calls'[p] = d
  BY <1>2 DEF CallRecord, Stages, Accounts!goto, CInv, CallsOK
<1> HIDE DEF c, d
<1>6. j \notin ghost.overlapped => Kept(j)' /\ j \notin ghost'.gone
  BY <1>1, <1>2, <1>3 DEF Reached, Kept
<1>7. CASE Accounts!goto(p, d)
  <2>1. j \notin ghost.overlapped => Reached(calls[p], j)'
    BY <1>5, <1>6, <1>7 DEF Reached
  <2> QED BY <1>1, <1>2, <1>3, <1>4, <1>5, <1>7, <2>1, StageKeeps DEF c, Stages
<1>8. CASE Accounts!goto(p, Accounts!after(c))
  BY <1>1, <1>2, <1>3, <1>4, <1>6, <1>8, AfterKeeps DEF c
<1> QED BY <1>1, <1>7, <1>8

\* The keychain store's second write.
LEMMA WriteMetadataKeeps ==
  ASSUME CInv, NEW p \in Callers, Accounts!write_metadata(p)
  PROVE  CInv'
<1> DEFINE c == calls[p]
<1>1. /\ c.at = "metadata" /\ metadata' = [metadata EXCEPT ![c.id] = c.scope] /\ Accounts!goto(p, Accounts!after(c))
      /\ UNCHANGED <<secrets, live, count, ghost>>
  BY DEF Accounts!write_metadata
<1>2. PICK j \in Ids : /\ works(c, j) /\ c.id = j /\ c \in CallRecord
                       /\ j \notin ghost.overlapped => Reached(c, j)
  BY <1>1, StepFacts
<1>3. \A i \in Ids \ {j} : metadata'[i] = metadata[i]
  BY <1>1, <1>2 DEF CInv, StoreTypeOK
<1>4. StoreTypeOK'
  BY <1>1, <1>2 DEF CInv, StoreTypeOK, CallRecord
<1> HIDE DEF c
<1>5. j \notin ghost.overlapped => Kept(j)'
  BY <1>1, <1>2 DEF Reached, Kept
<1> QED BY <1>1, <1>2, <1>3, <1>4, <1>5, AfterKeeps DEF c

\* What is deleted is gone; a device's secrets are not the provider's, which knows nothing of it.
LEMMA DeleteKeeps ==
  ASSUME CInv, NEW p \in Callers, Accounts!delete(p) \/ Accounts!delete_metadata(p)
  PROVE  CInv'
<1> DEFINE c == calls[p]
           d == [c EXCEPT !.at = "forget"]
<1>1. PICK j \in Ids : /\ works(c, j) /\ c.id = j /\ c \in CallRecord
                       /\ j \notin ghost.overlapped => Reached(c, j)
  BY StepFacts DEF Accounts!delete, Accounts!delete_metadata
<1>2. CASE c.at = "delete" /\ secrets' = [secrets EXCEPT ![j] = 0] /\ Accounts!goto(p, d)
            /\ UNCHANGED <<metadata, ghost, live, count>>
  <2>1. secrets'[j] = 0 /\ \A i \in Ids \ {j} : secrets'[i] = secrets[i]
    BY <1>2 DEF CInv, StoreTypeOK
  <2>2. StoreTypeOK'
    BY <1>2 DEF CInv, StoreTypeOK
  <2>3. /\ d \in CallRecord /\ d.op = c.op /\ d.id = j /\ d.todo = c.todo /\ d.at = "forget" /\ calls'[p] = d
    BY <1>1, <1>2 DEF CallRecord, Stages, Accounts!goto, CInv, CallsOK
  <2> HIDE DEF c, d
  <2>4. j \notin ghost.overlapped => Reached(calls[p], j)'
    BY <1>1, <1>2, <2>1, <2>3 DEF Reached, Kept
  <2> QED BY <1>1, <1>2, <2>1, <2>2, <2>3, <2>4, StageKeeps DEF c, Stages
<1>3. CASE /\ Accounts!goto(p, Accounts!after(c)) /\ metadata' = [metadata EXCEPT ![j] = Accounts!None] /\ Accounts!deleted(c)
           /\ UNCHANGED <<live, count>>
           /\ \/ c.at = "delete" /\ secrets' = [secrets EXCEPT ![j] = 0]
              \/ c.at = "forget" /\ secrets' = secrets
  <2>1. \A i \in Ids \ {j} : secrets'[i] = secrets[i] /\ metadata'[i] = metadata[i]
    BY <1>3 DEF CInv, StoreTypeOK
  <2>2. /\ ghost'.gone = ghost.gone \cup {j} /\ ghost'.overlapped = ghost.overlapped
        /\ ghost.stranded \subseteq ghost'.stranded
        /\ c.op = "revoke_device" => live[j] \subseteq ghost'.stranded
        /\ ghost' \in [gone : SUBSET Ids, overlapped : SUBSET Ids, stranded : SUBSET Nat]
    BY <1>1, <1>3 DEF Accounts!deleted, CInv, StoreTypeOK
  <2>3. StoreTypeOK'
    BY <1>3, <2>2 DEF CInv, StoreTypeOK
  <2>4. metadata'[j] = Accounts!None
    BY <1>3 DEF CInv, StoreTypeOK
  <2> HIDE DEF c, d
  <2>5. ASSUME j \notin ghost.overlapped PROVE Kept(j)'
    <3>1. Reached(c, j)
      BY <1>1, <2>5
    <3>2. secrets'[j] = 0
      BY <1>3, <3>1 DEF Reached, CInv, StoreTypeOK
    <3>3. live'[j] \subseteq ghost'.stranded
      BY <1>3, <2>2, <3>1 DEF Reached
    <3> QED BY <2>4, <3>2, <3>3 DEF Kept
  <2> QED BY <1>1, <1>3, <2>1, <2>2, <2>3, <2>5, AfterKeeps DEF c
<1> QED BY <1>1, <1>2, <1>3 DEF Accounts!delete, Accounts!delete_metadata

\* Every step of a call on the credential stores preserves the invariant.
LEMMA CStep == CInv /\ [Accounts!Next]_(Accounts!cvars) => CInv'
<1> SUFFICES ASSUME CInv, [Accounts!Next]_(Accounts!cvars) PROVE CInv'
  OBVIOUS
<1>1. CASE UNCHANGED Accounts!cvars
  BY <1>1 DEF Accounts!cvars, CInv, StoreTypeOK, CallsOK, AloneInv, ReachedInv, Reached, Kept
<1>2. CASE Accounts!Next
  <2> SUFFICES ASSUME NEW p \in Callers,
                      \/ \E i \in Ids, s \in Accounts!Scope : Accounts!connect(p, i, s)
                      \/ \E i \in Ids, s \in {"ConnectorAccount", "Connector"} : Accounts!refresh_oauth_credential(p, i, s)
                      \/ \E i \in Ids : Accounts!rotate_credential_secret(p, i) \/ Accounts!revoke_oauth_credential(p, i)
                      \/ Accounts!offboard_connector_account_oauth_credentials(p) \/ Accounts!revoke_device_credentials(p)
                      \/ Accounts!fails(p) \/ Accounts!read(p) \/ Accounts!read_secret(p) \/ Accounts!rotated(p)
                      \/ Accounts!still_valid(p) \/ Accounts!answer_lost(p)
                      \/ Accounts!refresh(p) \/ Accounts!revoke(p)
                      \/ Accounts!write(p) \/ Accounts!write_metadata(p) \/ Accounts!delete(p) \/ Accounts!delete_metadata(p)
               PROVE  CInv'
    BY <1>2 DEF Accounts!Next
  <2>1. CASE \E i \in Ids, s \in Accounts!Scope : Accounts!connect(p, i, s)
    BY <2>1, ConnectKeeps
  <2>2. CASE \/ \E i \in Ids, s \in {"ConnectorAccount", "Connector"} : Accounts!refresh_oauth_credential(p, i, s)
             \/ \E i \in Ids : Accounts!rotate_credential_secret(p, i) \/ Accounts!revoke_oauth_credential(p, i)
             \/ Accounts!offboard_connector_account_oauth_credentials(p) \/ Accounts!revoke_device_credentials(p)
    BY <2>2, BeginsKeep DEF Accounts!Scope
  <2>3. CASE \/ Accounts!fails(p) \/ Accounts!read(p) \/ Accounts!read_secret(p) \/ Accounts!still_valid(p)
             \/ Accounts!answer_lost(p)
    BY <2>3, FailsKeeps, ReadKeeps, StillValidKeeps, LostKeeps
  <2>4. CASE Accounts!rotated(p) \/ Accounts!refresh(p) \/ Accounts!revoke(p)
    BY <2>4, RenewKeeps, RevokeKeeps
  <2>5. CASE Accounts!write(p) \/ Accounts!write_metadata(p) \/ Accounts!delete(p) \/ Accounts!delete_metadata(p)
    BY <2>5, WriteKeeps, WriteMetadataKeeps, DeleteKeeps
  <2> QED BY <2>1, <2>2, <2>3, <2>4, <2>5
<1> QED BY <1>1, <1>2

\* A credential that was revoked, or deleted with its device or account, is gone from both
\* stores, and the provider honours no token but the stored one and those a failed step is
\* known to have stranded, whenever no call is at work on it and no two calls overlapped.
THEOREM RevocationsSound == Accounts!Spec => []Accounts!RevocationSound
<1>1. CInv => Accounts!RevocationSound
  <2> SUFFICES ASSUME CInv, NEW i \in Ids \ ghost.overlapped, Accounts!resting(i)
               PROVE  Kept(i)
    BY DEF Accounts!RevocationSound, Kept
  <2>1. \A p \in Callers : ~works(calls[p], i)
    BY WorksOnTarget DEF Accounts!resting
  <2> QED BY <2>1 DEF CInv, ReachedInv
<1> QED BY <1>1, CInit, CStep, PTL DEF Accounts!Spec

-----------------------------------------------------------------------------
(* Grants.  The invariant: what the cached store gives, the server gave no *)
(* earlier than the fetch.                                                 *)
\* When the cached snapshot came, by the clock of the host.
since == cache.fetched - given.lead

\* The clock, what the store has fetched and since when each access was last given are times.
TimesOK ==
  /\ server \subseteq Grants!Items /\ cache.store \subseteq Grants!Items
  /\ now \in Nat /\ cache.fetched \in Int /\ since <= now
  /\ given \in [held : [Users -> [Resources -> Int]], lead : Int, offboarded : SUBSET Users]

\* What the cached store would give, the server gives now or gave when it was fetched or later.
GivenInv == \A u \in Users, r \in Resources :
  Grants!inherits(cache.store, u, r) => Grants!inherits(server, u, r) \/ given.held[u][r] >= since

\* The last search, while nothing else has happened, was filtered by the store as it is.
FilteredInv == answer.kind = "search" =>
  /\ \A r \in answer.results : Grants!permits(answer.source, answer.user, r)
  /\ answer.status = "expired" => answer.results = {}
  /\ Redact => answer.total = Grants!Cardinality(answer.results)

\* The invariant of the permission stores.
GInv == TimesOK /\ GivenInv /\ FilteredInv

\* An answer of no results counts none.
LEMMA EmptyCount == Grants!Cardinality({}) = 0
BY FS_EmptySet DEF Cardinality, Grants!Cardinality

\* No store has items, and nothing was searched.
LEMMA GInit == ASSUME FreshFor \in Nat, StaleFor \in Nat, MaxTime \in Nat PROVE Grants!Init => GInv
<1> SUFFICES ASSUME Grants!Init PROVE GInv
  OBVIOUS
<1>1. TimesOK
  BY DEF Grants!Init, TimesOK, Grants!Long, since
<1>2. GivenInv
  BY DEF Grants!Init, GivenInv, Grants!inherits
<1>3. FilteredInv
  BY DEF Grants!Init, FilteredInv, Grants!NoAnswer, Grants!None
<1> QED BY <1>1, <1>2, <1>3 DEF GInv

\* A store gives no more when items leave it.
LEMMA InheritsLess ==
  ASSUME NEW s, NEW t \in SUBSET s, NEW u, NEW r, Grants!inherits(t, u, r)
  PROVE  Grants!inherits(s, u, r)
BY DEF Grants!inherits

\* A step that searches nothing leaves no answer.
LEMMA Unanswered == ASSUME answer' = Grants!NoAnswer PROVE FilteredInv'
BY DEF FilteredInv, Grants!NoAnswer, Grants!None

\* A grant or a membership of an item ends at some time.
LEMMA ItemExpires ==
  ASSUME MaxTime \in Nat, NEW i \in Grants!Items, i.kind \in {"direct", "member"} PROVE i.expires \in Nat
BY DEF Grants!Items, Grants!Never

\* Time passes: what expires at the server was held until now, and a cached item expires too.
LEMMA TickKeeps ==
  ASSUME FreshFor \in Nat, StaleFor \in Nat, MaxTime \in Nat, GInv, Grants!tick
  PROVE  GInv'
<1> USE DEF GInv
<1>1. TimesOK'
  BY DEF Grants!tick, TimesOK, Grants!held_now, since
<1>2. ASSUME NEW u \in Users, NEW r \in Resources, Grants!inherits(cache.store, u, r)', ~Grants!inherits(server, u, r)'
      PROVE  given'.held[u][r] >= since'
  <2>1. Grants!inherits(cache.store, u, r)
    <3>1. \A i \in cache.store : i.kind \in {"direct", "member"} => i.expires \in Nat
      BY ItemExpires DEF TimesOK
    <3>2. now' = now + 1 /\ now \in Nat /\ cache' = cache
      BY DEF Grants!tick, TimesOK
    <3>3. \A i \in cache.store : i.kind \in {"direct", "member"} /\ now' < i.expires => now < i.expires
      BY <3>1, <3>2
    <3> QED BY <1>2, <3>2, <3>3 DEF Grants!inherits
  <2>2. CASE Grants!inherits(server, u, r)
    <3>1. given'.held[u][r] = now
      BY <2>2 DEF Grants!tick, Grants!held_now, TimesOK
    <3> QED BY <3>1 DEF TimesOK, Grants!tick, since
  <2>3. CASE ~Grants!inherits(server, u, r)
    <3>1. given.held[u][r] >= since
      BY <2>1, <2>3 DEF GivenInv
    <3>2. given'.held[u][r] \in {now, given.held[u][r]}
      BY DEF Grants!tick, Grants!held_now
    <3> QED BY <3>1, <3>2 DEF TimesOK, Grants!tick, since
  <2> QED BY <2>2, <2>3
<1>3. GivenInv'
  BY <1>2 DEF GivenInv
<1> QED BY <1>1, <1>3, Unanswered DEF Grants!tick

\* The server gives or takes an item while the cache keeps what it has fetched.
LEMMA SnapshotKeeps ==
  ASSUME FreshFor \in Nat, StaleFor \in Nat, MaxTime \in Nat, GInv, NEW i \in Grants!Items, Grants!set_snapshot(i)
  PROVE  GInv'
<1> USE DEF GInv
<1>1. TimesOK'
  BY DEF Grants!set_snapshot, Grants!remote, TimesOK, Grants!held_now, since
<1>2. ASSUME NEW u \in Users, NEW r \in Resources, Grants!inherits(cache.store, u, r)', ~Grants!inherits(server, u, r)'
      PROVE  given'.held[u][r] >= since'
  <2>1. Grants!inherits(cache.store, u, r)
    BY <1>2 DEF Grants!set_snapshot, Grants!remote, Grants!inherits
  <2>2. CASE Grants!inherits(server, u, r)
    <3>1. given'.held[u][r] = now
      BY <2>2 DEF Grants!set_snapshot, Grants!held_now, TimesOK
    <3> QED BY <3>1 DEF TimesOK, Grants!set_snapshot, Grants!remote, since
  <2>3. CASE ~Grants!inherits(server, u, r)
    <3>1. given.held[u][r] >= since
      BY <2>1, <2>3 DEF GivenInv
    <3>2. given'.held[u][r] \in {now, given.held[u][r]}
      BY DEF Grants!set_snapshot, Grants!held_now
    <3> QED BY <3>1, <3>2 DEF TimesOK, Grants!set_snapshot, Grants!remote, since
  <2> QED BY <2>2, <2>3
<1>3. GivenInv'
  BY <1>2 DEF GivenInv
<1> QED BY <1>1, <1>3, Unanswered DEF Grants!set_snapshot, Grants!remote

\* A refresh fetches the server's items, or keeps the cached ones if it is unavailable.
LEMMA RefreshKeeps ==
  ASSUME Leads \subseteq Int, GInv, NEW available \in BOOLEAN, NEW lead \in Leads, Grants!refresh(available, lead)
  PROVE  GInv'
<1> USE DEF GInv
<1>1. UNCHANGED <<server, now>> /\ answer' = Grants!NoAnswer
  BY DEF Grants!refresh, Grants!remote
<1>l. lead \in Int
  OBVIOUS
<1>2. TimesOK'
  <2>1. CASE available
    <3>1. /\ cache'.fetched = now + lead /\ given'.lead = lead /\ cache'.store = server
          /\ given' \in [held : [Users -> [Resources -> Int]], lead : Int, offboarded : SUBSET Users]
      BY <1>l, <2>1 DEF Grants!refresh, Grants!fetched_store, TimesOK
    <3> QED BY <1>1, <1>l, <3>1 DEF TimesOK, since
  <2>2. CASE ~available
    BY <1>1, <2>2 DEF Grants!refresh, TimesOK, since
  <2> QED BY <2>1, <2>2
<1>3. GivenInv'
  <2>1. CASE available
    BY <1>1, <2>1 DEF Grants!refresh, Grants!fetched_store, GivenInv, Grants!inherits
  <2>2. CASE ~available
    BY <1>1, <2>2 DEF Grants!refresh, GivenInv, Grants!inherits, since
  <2> QED BY <2>1, <2>2
<1> QED BY <1>1, <1>2, <1>3, Unanswered

\* A search filters what it found by the store it asks, and changes no store.
LEMMA SearchKeeps ==
  ASSUME GInv, NEW source \in {"local", "cached"}, NEW u \in Users, NEW found \in SUBSET Resources,
         NEW total, Grants!search_at(source, u, found, total)
  PROVE  GInv'
<1> USE DEF GInv
<1>1. UNCHANGED <<grants, lifecycle, server, cache, now, given>>
  BY DEF Grants!search_at
<1>2. TimesOK' /\ GivenInv'
  BY <1>1 DEF TimesOK, GivenInv, Grants!inherits, since
<1>3. FilteredInv'
  <2> DEFINE results == {r \in found : Grants!permits(source, u, r)}
  <2>1. CASE Grants!user_lifecycle(source, u) # "active"
    <3>1. answer'.results = {} /\ answer'.total = 0
      BY <2>1 DEF Grants!search_at
    <3> QED BY <3>1, EmptyCount DEF FilteredInv
  <2>2. CASE Grants!user_lifecycle(source, u) = "active"
    <3>1. /\ answer'.results = results /\ answer'.source = source /\ answer'.user = u
          /\ answer'.status = Grants!most_conservative_cache_status(source, found)
          /\ Redact => answer'.total = Grants!Cardinality(results)
      BY <2>2 DEF Grants!search_at
    <3>2. \A r \in Resources : Grants!permits(source, u, r)' = Grants!permits(source, u, r)
      BY <1>1 DEF Grants!permits, Grants!check, Grants!is_active, Grants!check_with_inheritance,
           Grants!cache_status_at, Grants!inherits
    <3>3. answer'.status = "expired" => results = {}
      BY <3>1 DEF Grants!most_conservative_cache_status, Grants!status, Grants!permits,
           Grants!check_with_inheritance, Grants!None
    <3>4. \A r \in results : Grants!permits(source, u, r)'
      BY <3>2
    <3> HIDE DEF results
    <3> QED BY <3>1, <3>3, <3>4 DEF FilteredInv, Grants!permits, Grants!check, Grants!is_active,
         Grants!check_with_inheritance, Grants!cache_status_at, Grants!inherits
  <2> QED BY <2>1, <2>2
<1> QED BY <1>2, <1>3

\* Every operation of the permission stores preserves the invariant.
LEMMA GStep ==
  ASSUME FreshFor \in Nat, StaleFor \in Nat, MaxTime \in Nat, GInv, [Grants!Next]_(Grants!bvars), Leads \subseteq Int PROVE GInv'
<1> USE DEF GInv
<1>1. ASSUME UNCHANGED <<server, now, given>>, cache'.store \subseteq cache.store, cache'.fetched = cache.fetched
      PROVE  TimesOK' /\ GivenInv'
  BY <1>1 DEF TimesOK, GivenInv, Grants!inherits, since
<1>2. ASSUME Grants!local PROVE GInv'
  BY <1>1, <1>2, Unanswered DEF Grants!local
<1>3. ASSUME NEW g, Grants!add_grant(g) PROVE GInv'
  BY <1>2, <1>3 DEF Grants!add_grant
<1>4. ASSUME NEW id, Grants!revoke_grant(id) PROVE GInv'
  BY <1>2, <1>4 DEF Grants!revoke_grant
<1>5. ASSUME NEW u, Grants!revoke_all_grants_for_user(u) PROVE GInv'
  BY <1>2, <1>5 DEF Grants!revoke_all_grants_for_user
<1>6. ASSUME NEW u, NEW next, Grants!set_user_lifecycle(u, next) PROVE GInv'
  BY <1>2, <1>6 DEF Grants!set_user_lifecycle
<1>7. ASSUME NEW base, NEW u, NEW role, NEW r, NEW a, Grants!evaluate_with_context(base, u, role, r, a) PROVE GInv'
  <2>1. answer'.kind = "policy"
    BY <1>7 DEF Grants!evaluate_with_context
  <2>2. FilteredInv'
    BY <2>1 DEF FilteredInv
  <2> QED BY <1>1, <1>7, <2>2 DEF Grants!evaluate_with_context
<1>8. ASSUME NEW u \in Users, Grants!invalidate_user(u) PROVE GInv'
  <2>1. cache'.store \subseteq cache.store /\ cache'.fetched = cache.fetched
    BY <1>8 DEF Grants!invalidate_user
  <2> QED BY <1>1, <1>8, <2>1, Unanswered DEF Grants!invalidate_user, Grants!remote
<1>9. ASSUME NEW u \in Users, NEW next, Grants!cached_set_user_lifecycle(u, next) PROVE GInv'
  <2>1. cache'.store = cache.store /\ cache'.fetched = cache.fetched
    BY <1>9 DEF Grants!cached_set_user_lifecycle
  <2>2. /\ given'.held = given.held /\ given'.lead = given.lead /\ UNCHANGED <<server, now>>
        /\ given' \in [held : [Users -> [Resources -> Int]], lead : Int, offboarded : SUBSET Users]
    BY <1>9 DEF Grants!cached_set_user_lifecycle, Grants!remote, TimesOK
  <2>3. TimesOK' /\ GivenInv'
    BY <2>1, <2>2 DEF TimesOK, GivenInv, Grants!inherits, since
  <2> QED BY <1>9, <2>3, Unanswered DEF Grants!cached_set_user_lifecycle, Grants!remote
<1>10. CASE UNCHANGED Grants!bvars
  <2>1. FilteredInv'
    BY <1>10 DEF Grants!bvars, FilteredInv, Grants!permits, Grants!check, Grants!is_active,
         Grants!check_with_inheritance, Grants!cache_status_at, Grants!inherits
  <2> QED BY <1>1, <1>10, <2>1 DEF Grants!bvars
<1>11. CASE Grants!LocalNext
  BY <1>3, <1>4, <1>5, <1>6, <1>7, <1>11, TickKeeps, SearchKeeps DEF Grants!LocalNext
<1>12. CASE Grants!CachedNext
  BY <1>8, <1>9, <1>12, TickKeeps, SearchKeeps, SnapshotKeeps, RefreshKeeps DEF Grants!CachedNext
<1> QED BY <1>10, <1>11, <1>12 DEF Grants!Next

\* Access that the cached store still gives ended at the server no longer ago than the fresh
\* and the stale period and the lead of the provider's stamp together, and a search gives only what its store permits its user.
THEOREM StaleEnds ==
  ASSUME FreshFor \in Nat, StaleFor \in Nat, MaxTime \in Nat, Leads \subseteq Int
  PROVE  Grants!Spec => []Grants!StaleAccessEnds
<1>1. ASSUME GInv PROVE Grants!StaleAccessEnds
  <2>1. ASSUME NEW u \in Users, NEW r \in Resources, Grants!check_with_inheritance(u, r), ~Grants!inherits(server, u, r)
        PROVE  now - given.held[u][r] <= FreshFor + StaleFor + given.lead
    <3>1. now - cache.fetched <= FreshFor + StaleFor
      BY <1>1, <2>1 DEF Grants!check_with_inheritance, Grants!cache_status_at, GInv, TimesOK
    <3>2. given.held[u][r] >= since
      BY <1>1, <2>1 DEF Grants!check_with_inheritance, GInv, GivenInv
    <3> QED BY <1>1, <3>1, <3>2 DEF GInv, TimesOK, since
  <2> QED BY <1>1, <2>1 DEF Grants!StaleAccessEnds, GInv, FilteredInv
<1>2. GInv /\ [Grants!Next]_(Grants!bvars) => GInv'
  BY GStep
<1>3. Grants!Init => GInv
  BY GInit
<1> QED BY <1>1, <1>2, <1>3, PTL DEF Grants!Spec

-----------------------------------------------------------------------------
(* Connections.  The invariants: a binding goes back to an attempt that    *)
(* was allowed, and an operation that ended was started.                   *)
Binding == [agent : Agents, server : Servers, nr : Nat]
Attempt == [agent : Agents, server : Servers, trust : Connections!ServerTrustStatus, approval : Connections!BindingApproval,
            outcome : {"Allowed", "Rejected", "RequiresApproval"}]
Connecting == [at : {"idle", "bind", "unbind", "unregister"}, agent : Agents \cup {Connections!None},
               server : Servers \cup {Connections!None}, nr : Nat, todo : SUBSET Binding]

\* The registry, the bindings, their audit and the calls under way are of the types of the code.
BindingTypeOK ==
  /\ servers \in [Servers -> Connections!ServerTrustStatus \cup {Connections!None}]
  /\ bindings \subseteq Binding
  /\ audit \in Seq(Attempt)
  /\ steps \in [Callers -> Connecting]
  /\ \A p \in Callers : /\ steps[p].at # "idle" => steps[p].server \in Servers
                        /\ steps[p].at = "bind" => steps[p].agent \in Agents
  /\ crossed \subseteq Servers

\* The attempt nr allowed agent a to be bound to server s.
allowed_by(nr, a, s) ==
  /\ nr \in 1..Len(audit)
  /\ audit[nr].outcome = "Allowed" /\ audit[nr].trust # "Blocked"
  /\ audit[nr].agent = a /\ audit[nr].server = s

\* What is bound, or about to be, goes back to an attempt that was allowed.
RecordedInv ==
  /\ \A b \in bindings : allowed_by(b.nr, b.agent, b.server)
  /\ \A p \in Callers : steps[p].at = "bind" => allowed_by(steps[p].nr, steps[p].agent, steps[p].server)

\* The stages of a disconnection.
Removing == {"unbind", "unregister"}

\* On a server that no bind and disconnection met on: a disconnection has listed all
\* that is bound there, and what is bound or about to be is bound to a registered server.
MetInv == \A s \in Servers \ crossed :
  /\ ~(Connections!busy(s, {"bind"}) /\ Connections!busy(s, Removing))
  /\ \A p \in Callers : steps[p].server = s /\ steps[p].at = "bind" => servers[s] # Connections!None
  /\ \A p \in Callers : steps[p].server = s /\ steps[p].at \in Removing =>
       /\ \A b \in bindings : b.server = s => b \in steps[p].todo
       /\ steps[p].at = "unregister" => steps[p].todo = {}
  /\ (\E b \in bindings : b.server = s) => servers[s] # Connections!None

\* The invariant of the servers and the bindings.
Bindings == BindingTypeOK /\ RecordedInv /\ MetInv

\* What the connector's audit records of an operation.
OperationEvent == [outcome : {"Started", "Denied", "Succeeded", "Failed"},
                   class : {"none", "RateLimited", "Authentication", "InvalidRequest", "NotFound",
                            "Timeout", "TransientProvider", "Unknown"}]

\* An operation that is under way has started, and is the last one on record.
OperationInv ==
  /\ operations \in Seq(OperationEvent)
  /\ gmail.decision \in {"running", "Retry"} =>
       operations # <<>> /\ operations[Len(operations)].outcome = "Started"
  /\ \A i \in 1..Len(operations) :
       operations[i].outcome \in {"Succeeded", "Failed"} =>
         i > 1 /\ operations[i - 1].outcome = "Started"

\* The errors of the provider, the delays the retry policy can give for them, and the connector.
GmailErrors == {"RateLimited", "InvalidRequest", "ResourceNotFound", "unavailable: timeout",
                "unavailable: 500", "unavailable", "AuthenticationRequired"}
Delays == {0} \cup {Connections!decide(err, n, after).delay : err \in GmailErrors, n \in Nat, after \in 0..1}

Gmail == [token : {"empty", "valid", "expired"}, refreshable : BOOLEAN,
          lifecycle : {"Active", "Disabled", "Offboarded"}, attempt : Nat,
          decision : {"none", "running", "Retry", "DoNotRetry", "Exhausted"}, delay : Delays]

\* A retry follows only an attempt below the limit.
AttemptInv ==
  /\ gmail \in Gmail
  /\ gmail.attempt > 1 => gmail.attempt <= MaxAttempts
  /\ gmail.decision = "Retry" => gmail.attempt < MaxAttempts

\* The invariant of the Gmail operations.
Operations == OperationInv /\ AttemptInv

-----------------------------------------------------------------------------
\* Nothing is registered, bound, audited or under way.
LEMMA BindingsStart == Connections!Init => Bindings /\ Operations
<1> SUFFICES ASSUME Connections!Init PROVE Bindings /\ Operations
  OBVIOUS
<1>1. BindingTypeOK
  BY DEF Connections!Init, BindingTypeOK, Connecting, Connections!Idle
<1>2. RecordedInv /\ MetInv
  BY DEF Connections!Init, RecordedInv, MetInv, Connections!Idle, Connections!busy, Removing
<1>3. OperationInv
  <2>1. operations = <<>> /\ gmail.decision = "none"
    BY DEF Connections!Init, Connections!None
  <2> QED BY <2>1 DEF OperationInv
<1>4. AttemptInv
  <2>1. gmail = [token |-> "empty", refreshable |-> FALSE, lifecycle |-> "Active",
                 attempt |-> 0, decision |-> "none", delay |-> 0]
    BY DEF Connections!Init, Connections!None
  <2> QED BY <2>1 DEF AttemptInv, Gmail, Delays
<1> QED BY <1>1, <1>2, <1>3, <1>4 DEF Bindings, Operations

\* What is on record stays on record.
LEMMA StaysAllowed ==
  ASSUME audit \in Seq(Attempt), NEW e \in Attempt, audit' = Append(audit, e),
         NEW nr, NEW a, NEW s, allowed_by(nr, a, s)
  PROVE  allowed_by(nr, a, s)'
BY DEF allowed_by

\* A server that is registered makes no binding and leaves every other server as it is.
LEMMA RegisterKeeps ==
  ASSUME Bindings, NEW s \in Servers, NEW trust \in Connections!ServerTrustStatus, Connections!register(s, trust)
  PROVE  Bindings'
<1> USE DEF Bindings
<1>1. BindingTypeOK'
  BY DEF Connections!register, BindingTypeOK
<1>2. RecordedInv'
  BY DEF Connections!register, RecordedInv, allowed_by
<1>3. \A q \in Servers : servers[q] # Connections!None => servers'[q] # Connections!None
  BY DEF Connections!register, BindingTypeOK
<1>4. MetInv'
  BY <1>3 DEF Connections!register, MetInv, Connections!busy
<1> QED BY <1>1, <1>2, <1>4

\* An attempt that is allowed is on record before its binding is stored.
LEMMA AttemptKeeps ==
  ASSUME Bindings, NEW p \in Callers, NEW a \in Agents, NEW s \in Servers, NEW approval \in Connections!BindingApproval,
         Connections!bind_account_with_approval(p, a, s, approval)
  PROVE  Bindings'
<1> USE DEF Bindings
<1> DEFINE outcome == Connections!evaluate_server_binding_trust(servers[s], approval)
           e == [agent |-> a, server |-> s, trust |-> servers[s], approval |-> approval, outcome |-> outcome]
           c == [Connections!Idle EXCEPT !.at = "bind", !.agent = a, !.server = s, !.nr = Len(audit) + 1]
<1>1. /\ steps[p] = Connections!Idle /\ servers[s] # Connections!None /\ audit' = Append(audit, e)
      /\ steps' = IF outcome = "Allowed" THEN [steps EXCEPT ![p] = c] ELSE steps
      /\ crossed' = IF Connections!busy(s, Removing) THEN crossed \cup {s} ELSE crossed
      /\ UNCHANGED <<servers, bindings>>
  BY DEF Connections!bind_account_with_approval, Removing
<1>2. servers[s] \in Connections!ServerTrustStatus /\ outcome \in {"Allowed", "Rejected", "RequiresApproval"}
      /\ (outcome = "Allowed" => servers[s] # "Blocked")
  BY <1>1 DEF BindingTypeOK, Connections!evaluate_server_binding_trust
<1> HIDE DEF outcome
<1>3. e \in Attempt /\ Len(audit) \in Nat
  BY <1>2 DEF Attempt, BindingTypeOK
<1>4. PICK m \in Nat : m = Len(audit) + 1
  BY <1>3
<1>5. c \in Connecting /\ c.at = "bind" /\ c.agent = a /\ c.server = s /\ c.nr = m
  <2>1. c.at = "bind" /\ c.agent = a /\ c.server = s /\ c.nr = m
    BY <1>4 DEF Connections!Idle
  <2>2. c \in Connecting
    BY <1>4 DEF Connections!Idle, Connecting
  <2> QED BY <2>1, <2>2
<1>6. outcome = "Allowed" => allowed_by(m, a, s)'
  <2>1. Len(audit') = m /\ m \in 1..m /\ audit'[m] = e
    BY <1>1, <1>3, <1>4 DEF BindingTypeOK
  <2>2. e.outcome = outcome /\ e.trust = servers[s] /\ e.agent = a /\ e.server = s
    OBVIOUS
  <2> HIDE DEF e
  <2> QED BY <1>2, <1>3, <2>1, <2>2 DEF allowed_by
<1> HIDE DEF c, e
<1>7. \A q \in Callers : steps'[q] = steps[q] \/ (q = p /\ outcome = "Allowed" /\ steps'[q] = c)
  BY <1>1 DEF BindingTypeOK
<1>8. BindingTypeOK'
  <2>1. steps' \in [Callers -> Connecting]
    BY <1>1, <1>5 DEF BindingTypeOK
  <2>2. audit' \in Seq(Attempt) /\ crossed' \subseteq Servers
    BY <1>1, <1>3 DEF BindingTypeOK
  <2>3. \A q \in Callers : /\ steps'[q].at # "idle" => steps'[q].server \in Servers
                           /\ steps'[q].at = "bind" => steps'[q].agent \in Agents
    BY <1>5, <1>7 DEF BindingTypeOK
  <2> QED BY <1>1, <2>1, <2>2, <2>3 DEF BindingTypeOK
<1>9. RecordedInv'
  <2>1. \A nr, b, q : allowed_by(nr, b, q) => allowed_by(nr, b, q)'
    BY <1>1, <1>3, StaysAllowed DEF BindingTypeOK
  <2>2. ASSUME NEW q \in Callers, steps'[q].at = "bind"
        PROVE  allowed_by(steps[q].nr, steps[q].agent, steps[q].server)'
    <3>1. CASE steps'[q] = steps[q]
      BY <2>1, <2>2, <3>1 DEF RecordedInv, allowed_by
    <3>2. CASE outcome = "Allowed" /\ steps'[q] = c
      BY <1>5, <1>6, <3>2 DEF allowed_by
    <3> QED BY <1>7, <3>1, <3>2
  <2>3. \A b \in bindings : allowed_by(b.nr, b.agent, b.server)'
    BY <2>1 DEF RecordedInv
  <2> QED BY <1>1, <2>2, <2>3 DEF RecordedInv, allowed_by
<1>10. MetInv'
  <2> SUFFICES ASSUME NEW q \in Servers \ crossed'
               PROVE  /\ ~(Connections!busy(q, {"bind"})' /\ Connections!busy(q, Removing)')
                      /\ \A r \in Callers : steps'[r].server = q /\ steps'[r].at = "bind" => servers'[q] # Connections!None
                      /\ \A r \in Callers : steps'[r].server = q /\ steps'[r].at \in Removing =>
                           /\ \A b \in bindings' : b.server = q => b \in steps'[r].todo
                           /\ steps'[r].at = "unregister" => steps'[r].todo = {}
                      /\ (\E b \in bindings' : b.server = q) => servers'[q] # Connections!None
    BY DEF MetInv, Connections!busy, Removing
  <2>1. q \notin crossed /\ (q = s => ~Connections!busy(s, Removing))
    BY <1>1
  <2>2. \A r \in Callers : steps'[r].at \in Removing => steps'[r] = steps[r]
    BY <1>5, <1>7 DEF Removing
  <2>3. \A r \in Callers : steps'[r].at = "bind" /\ steps'[r].server = q => q = s \/ steps'[r] = steps[r]
    BY <1>5, <1>7
  <2>4. ~(Connections!busy(q, {"bind"})' /\ Connections!busy(q, Removing)')
    BY <2>1, <2>2, <2>3 DEF MetInv, Connections!busy
  <2> QED BY <1>1, <2>1, <2>2, <2>3, <2>4 DEF MetInv
<1> QED BY <1>8, <1>9, <1>10

\* The binding of an allowed attempt is stored, or the store fails.
LEMMA BindKeeps ==
  ASSUME Bindings, NEW p \in Callers, Connections!bind(p)
  PROVE  Bindings'
<1> USE DEF Bindings
<1> DEFINE c == steps[p]
           n == [agent |-> c.agent, server |-> c.server, nr |-> c.nr]
<1>1. /\ c.at = "bind" /\ bindings' \subseteq bindings \cup {n} /\ steps' = [steps EXCEPT ![p] = Connections!Idle]
      /\ UNCHANGED <<servers, audit, crossed>>
  BY DEF Connections!bind
<1>2. c \in Connecting /\ c.server \in Servers /\ c.agent \in Agents /\ n \in Binding
  BY <1>1 DEF BindingTypeOK, Connecting, Binding
<1>3. steps'[p] = Connections!Idle /\ Connections!Idle \in Connecting /\ Connections!Idle.at = "idle"
       /\ \A q \in Callers \ {p} : steps'[q] = steps[q]
  BY <1>1 DEF BindingTypeOK, Connecting, Connections!Idle
<1>4. n.server = c.server /\ n.agent = c.agent /\ n.nr = c.nr
  OBVIOUS
<1>5. allowed_by(n.nr, n.agent, n.server)
  BY <1>1, <1>4 DEF RecordedInv
<1> HIDE DEF n, c
<1>6. BindingTypeOK'
  BY <1>1, <1>2, <1>3 DEF BindingTypeOK
<1>7. RecordedInv'
  BY <1>1, <1>3, <1>5 DEF RecordedInv, allowed_by
<1>8. MetInv'
  <2> SUFFICES ASSUME NEW q \in Servers \ crossed
               PROVE  /\ ~(Connections!busy(q, {"bind"})' /\ Connections!busy(q, Removing)')
                      /\ \A r \in Callers : steps'[r].server = q /\ steps'[r].at = "bind" => servers'[q] # Connections!None
                      /\ \A r \in Callers : steps'[r].server = q /\ steps'[r].at \in Removing =>
                           /\ \A b \in bindings' : b.server = q => b \in steps'[r].todo
                           /\ steps'[r].at = "unregister" => steps'[r].todo = {}
                      /\ (\E b \in bindings' : b.server = q) => servers'[q] # Connections!None
    BY <1>1 DEF MetInv, Connections!busy, Removing
  <2>1. \A r \in Callers : steps'[r].at # "idle" => steps'[r] = steps[r]
    BY <1>3
  <2>2. n.server = q => Connections!busy(q, {"bind"}) /\ servers[q] # Connections!None
    BY <1>1, <1>4 DEF c, Connections!busy, MetInv
  <2>3. ~(Connections!busy(q, {"bind"})' /\ Connections!busy(q, Removing)')
    BY <2>1 DEF MetInv, Connections!busy, Removing
  <2>4. ASSUME NEW r \in Callers, steps'[r].server = q, steps'[r].at \in Removing
        PROVE  /\ \A b \in bindings' : b.server = q => b \in steps'[r].todo
               /\ steps'[r].at = "unregister" => steps'[r].todo = {}
    <3>1. steps'[r] = steps[r] /\ Connections!busy(q, Removing)
      BY <2>1, <2>4 DEF Connections!busy, Removing
    <3>2. n.server # q
      BY <2>2, <3>1 DEF MetInv
    <3> QED BY <1>1, <2>4, <3>1, <3>2 DEF MetInv
  <2>5. \A r \in Callers : steps'[r].server = q /\ steps'[r].at = "bind" => servers'[q] # Connections!None
    BY <1>1, <2>1 DEF MetInv
  <2>6. (\E b \in bindings' : b.server = q) => servers'[q] # Connections!None
    BY <1>1, <2>2 DEF MetInv
  <2> QED BY <2>3, <2>4, <2>5, <2>6
<1> QED BY <1>6, <1>7, <1>8

\* A disconnection lists what is bound to the server.
LEMMA DisconnectKeeps ==
  ASSUME Bindings, NEW p \in Callers, NEW s \in Servers, Connections!disconnect_server(p, s)
  PROVE  Bindings'
<1> USE DEF Bindings
<1> DEFINE listed == {b \in bindings : b.server = s}
           at == IF listed = {} THEN "unregister" ELSE "unbind"
           c == [Connections!Idle EXCEPT !.server = s, !.todo = listed, !.at = at]
<1>1. /\ steps[p] = Connections!Idle /\ steps' = [steps EXCEPT ![p] = c]
      /\ crossed' = IF Connections!busy(s, {"bind"}) THEN crossed \cup {s} ELSE crossed
      /\ UNCHANGED <<servers, bindings, audit>>
  BY DEF Connections!disconnect_server
<1>2. listed \in SUBSET Binding /\ at \in Removing /\ (at = "unregister" => listed = {})
      /\ \A b \in bindings : b.server = s => b \in listed
  BY DEF BindingTypeOK, Removing
<1> HIDE DEF listed, at
<1>3. c.at = at /\ c.server = s /\ c.todo = listed
  BY DEF Connections!Idle
<1>4. c \in Connecting
  BY <1>2 DEF Connections!Idle, Connecting, Removing
<1> HIDE DEF c
<1>5. steps'[p] = c /\ \A q \in Callers \ {p} : steps'[q] = steps[q]
  BY <1>1 DEF BindingTypeOK
<1>6. BindingTypeOK'
  BY <1>1, <1>2, <1>3, <1>4, <1>5 DEF BindingTypeOK, Removing
<1>7. RecordedInv'
  BY <1>1, <1>2, <1>3, <1>5 DEF RecordedInv, allowed_by, Removing
<1>8. MetInv'
  <2> SUFFICES ASSUME NEW q \in Servers \ crossed'
               PROVE  /\ ~(Connections!busy(q, {"bind"})' /\ Connections!busy(q, Removing)')
                      /\ \A r \in Callers : steps'[r].server = q /\ steps'[r].at = "bind" => servers'[q] # Connections!None
                      /\ \A r \in Callers : steps'[r].server = q /\ steps'[r].at \in Removing =>
                           /\ \A b \in bindings' : b.server = q => b \in steps'[r].todo
                           /\ steps'[r].at = "unregister" => steps'[r].todo = {}
                      /\ (\E b \in bindings' : b.server = q) => servers'[q] # Connections!None
    BY DEF MetInv, Connections!busy, Removing
  <2>1. q \notin crossed /\ (q = s => ~Connections!busy(s, {"bind"}))
    BY <1>1
  <2>2. \A r \in Callers : steps'[r].at = "bind" => steps'[r] = steps[r]
    BY <1>2, <1>3, <1>5 DEF Removing
  <2>3. \A r \in Callers : steps'[r].at \in Removing /\ steps'[r].server = q => (q = s /\ r = p) \/ steps'[r] = steps[r]
    BY <1>3, <1>5
  <2>4. ~(Connections!busy(q, {"bind"})' /\ Connections!busy(q, Removing)')
    BY <2>1, <2>2, <2>3 DEF MetInv, Connections!busy
  <2>5. ASSUME NEW r \in Callers, steps'[r].server = q, steps'[r].at \in Removing
        PROVE  /\ \A b \in bindings' : b.server = q => b \in steps'[r].todo
               /\ steps'[r].at = "unregister" => steps'[r].todo = {}
    <3>1. CASE q = s /\ r = p
      BY <1>1, <1>2, <1>3, <1>5, <3>1
    <3>2. CASE steps'[r] = steps[r]
      BY <1>1, <2>1, <2>5, <3>2 DEF MetInv
    <3> QED BY <2>3, <2>5, <3>1, <3>2
  <2> QED BY <1>1, <2>1, <2>2, <2>4, <2>5 DEF MetInv
<1> QED BY <1>6, <1>7, <1>8

\* It removes one binding after the other and then the server, or fails and ends.
LEMMA RemovesKeep ==
  ASSUME Bindings, NEW p \in Callers, Connections!unbind(p) \/ Connections!unregister(p) \/ Connections!fails(p)
  PROVE  Bindings'
<1> USE DEF Bindings
<1> DEFINE c == steps[p]
           d == steps'[p]
<1>1. /\ c.at \in Removing /\ c \in Connecting /\ c.server \in Servers
      /\ bindings' \subseteq bindings /\ UNCHANGED <<audit, crossed>>
  BY DEF Connections!unbind, Connections!unregister, Connections!fails, Removing, BindingTypeOK
<1>2. \/ d = Connections!Idle /\ servers' = servers
      \/ d = Connections!Idle /\ c.at = "unregister" /\ servers' = [servers EXCEPT ![c.server] = Connections!None]
      \/ /\ d \in Connecting /\ d.server = c.server /\ d.at \in Removing /\ servers' = servers
         /\ \A b \in bindings' : b \in c.todo => b \in d.todo
         /\ d.at = "unregister" => d.todo = {}
  <2>1. CASE Connections!unbind(p)
    <3>1. PICK b \in c.todo : /\ bindings' = bindings \ {b} /\ servers' = servers
                              /\ steps' = [steps EXCEPT ![p].todo = @ \ {b},
                                             ![p].at = IF steps[p].todo = {b} THEN "unregister" ELSE "unbind"]
      BY <2>1 DEF Connections!unbind
    <3>2. /\ d.todo = c.todo \ {b} /\ d.at = IF c.todo = {b} THEN "unregister" ELSE "unbind"
          /\ d.server = c.server /\ d \in Connecting
      BY <1>1, <3>1 DEF BindingTypeOK, Connecting
    <3> HIDE DEF c, d
    <3>3. \A x \in bindings' : x \in c.todo => x \in d.todo
      BY <3>1, <3>2
    <3>4. d.at \in Removing /\ (d.at = "unregister" => d.todo = {})
      BY <3>2 DEF Removing
    <3> QED BY <3>1, <3>2, <3>3, <3>4
  <2>2. CASE Connections!unregister(p)
    BY <2>2 DEF Connections!unregister, BindingTypeOK
  <2>3. CASE Connections!fails(p)
    BY <2>3 DEF Connections!fails, BindingTypeOK
  <2> QED BY <2>1, <2>2, <2>3
<1>3. /\ steps' = [steps EXCEPT ![p] = d] /\ \A q \in Callers \ {p} : steps'[q] = steps[q]
  BY DEF Connections!unbind, Connections!unregister, Connections!fails, BindingTypeOK
<1>4. Connections!Idle \in Connecting /\ Connections!Idle.at = "idle"
  BY DEF Connections!Idle, Connecting
<1> HIDE DEF c, d
<1>5. d \in Connecting /\ (d.at # "idle" => d.server \in Servers) /\ d.at # "bind"
  BY <1>1, <1>2, <1>4 DEF Removing
<1>6. \A q \in Callers : steps'[q].at = "bind" => steps'[q] = steps[q]
  BY <1>3, <1>5 DEF d
<1>7. BindingTypeOK'
  <2>1. servers' \in [Servers -> Connections!ServerTrustStatus \cup {Connections!None}]
    BY <1>1, <1>2 DEF BindingTypeOK
  <2>2. steps' \in [Callers -> Connecting]
    BY <1>3, <1>5 DEF BindingTypeOK
  <2>3. \A q \in Callers : /\ steps'[q].at # "idle" => steps'[q].server \in Servers
                           /\ steps'[q].at = "bind" => steps'[q].agent \in Agents
    BY <1>3, <1>5 DEF BindingTypeOK, d
  <2> QED BY <1>1, <2>1, <2>2, <2>3 DEF BindingTypeOK
<1>8. RecordedInv'
  BY <1>1, <1>6 DEF RecordedInv, allowed_by
<1>9. MetInv'
  <2> SUFFICES ASSUME NEW q \in Servers \ crossed
               PROVE  /\ ~(Connections!busy(q, {"bind"})' /\ Connections!busy(q, Removing)')
                      /\ \A r \in Callers : steps'[r].server = q /\ steps'[r].at = "bind" => servers'[q] # Connections!None
                      /\ \A r \in Callers : steps'[r].server = q /\ steps'[r].at \in Removing =>
                           /\ \A b \in bindings' : b.server = q => b \in steps'[r].todo
                           /\ steps'[r].at = "unregister" => steps'[r].todo = {}
                      /\ (\E b \in bindings' : b.server = q) => servers'[q] # Connections!None
    BY <1>1 DEF MetInv, Connections!busy, Removing
  <2>1. Connections!busy(q, Removing)' => Connections!busy(q, Removing)
    BY <1>1, <1>2, <1>3, <1>4 DEF Connections!busy, c, d, Removing
  <2>2. ~(Connections!busy(q, {"bind"})' /\ Connections!busy(q, Removing)')
    BY <1>6, <2>1 DEF MetInv, Connections!busy
  <2>3. servers'[q] = servers[q] \/ (q = c.server /\ c.at = "unregister")
    BY <1>1, <1>2 DEF BindingTypeOK
  <2>4. q = c.server /\ c.at = "unregister" => ~Connections!busy(q, {"bind"}) /\ ~\E b \in bindings : b.server = q
    BY DEF MetInv, Connections!busy, c, Removing
  <2>5. \A r \in Callers : steps'[r].server = q /\ steps'[r].at = "bind" => servers'[q] # Connections!None
    BY <1>6, <2>3, <2>4 DEF MetInv, Connections!busy
  <2>6. ASSUME NEW r \in Callers, steps'[r].server = q, steps'[r].at \in Removing
        PROVE  /\ \A b \in bindings' : b.server = q => b \in steps'[r].todo
               /\ steps'[r].at = "unregister" => steps'[r].todo = {}
    <3>1. CASE r # p
      BY <1>1, <1>3, <2>6, <3>1 DEF MetInv
    <3>2. CASE r = p
      <4>1. /\ d.server = c.server /\ d.at \in Removing /\ c.server = q
            /\ \A b \in bindings' : b \in c.todo => b \in d.todo
            /\ d.at = "unregister" => d.todo = {}
        BY <1>2, <1>4, <2>6, <3>2 DEF d, Removing
      <4>2. \A b \in bindings : b.server = q => b \in c.todo
        BY <1>1, <4>1 DEF MetInv, c
      <4> QED BY <1>1, <3>2, <4>1, <4>2 DEF d
    <3> QED BY <3>1, <3>2
  <2>7. (\E b \in bindings' : b.server = q) => servers'[q] # Connections!None
    BY <1>1, <2>3, <2>4 DEF MetInv
  <2> QED BY <2>2, <2>5, <2>6, <2>7
<1> QED BY <1>7, <1>8, <1>9

-----------------------------------------------------------------------------
\* What the retry policy says of an error.
LEMMA DecideIs ==
  ASSUME MaxAttempts \in Nat, NEW err \in GmailErrors, NEW n \in Nat, NEW after \in 0..1
  PROVE  /\ Connections!decide(err, n, after).decision \in {"Retry", "DoNotRetry", "Exhausted"}
         /\ Connections!decide(err, n, after).decision = "Retry" => n < MaxAttempts
         /\ Connections!decide(err, n, after).delay \in Delays
         /\ Connections!event("Failed", Connections!classify_gmail_provider_error(err)) \in OperationEvent
<1>1. Connections!classify_gmail_provider_error(err) \in {"RateLimited", "Authentication", "InvalidRequest", "NotFound",
                                              "Timeout", "TransientProvider", "Unknown"}
  BY DEF Connections!classify_gmail_provider_error
<1>2. Connections!event("Failed", Connections!classify_gmail_provider_error(err)) \in OperationEvent
  BY <1>1 DEF Connections!event, OperationEvent
<1>3. Connections!decide(err, n, after).decision \in {"Retry", "DoNotRetry", "Exhausted"}
  BY DEF Connections!decide
<1>4. Connections!decide(err, n, after).decision = "Retry" => n < MaxAttempts
  BY DEF Connections!decide
<1> QED BY <1>2, <1>3, <1>4 DEF Delays

\* An event appended to a log that keeps its order: an end comes after the start.
LEMMA AppendsEvent ==
  ASSUME OperationInv, NEW e \in OperationEvent, operations' = Append(operations, e),
         e.outcome \in {"Succeeded", "Failed"} => gmail.decision \in {"running", "Retry"},
         gmail'.decision \in {"running", "Retry"} => e.outcome = "Started"
  PROVE  OperationInv'
<1>1. /\ operations \in Seq(OperationEvent) /\ operations' \in Seq(OperationEvent)
      /\ Len(operations) \in Nat /\ Len(operations') = Len(operations) + 1
      /\ operations'[Len(operations) + 1] = e
      /\ \A i \in 1..Len(operations) : operations'[i] = operations[i]
  BY DEF OperationInv
<1>2. gmail'.decision \in {"running", "Retry"} =>
        operations' # <<>> /\ operations'[Len(operations')].outcome = "Started"
  BY <1>1
<1>3. ASSUME NEW i \in 1..Len(operations'), operations'[i].outcome \in {"Succeeded", "Failed"}
      PROVE  i > 1 /\ operations'[i - 1].outcome = "Started"
  <2>1. CASE i \in 1..Len(operations)
    <3>1. i > 1 /\ operations[i - 1].outcome = "Started"
      BY <1>1, <1>3, <2>1 DEF OperationInv
    <3>2. i - 1 \in 1..Len(operations)
      BY <1>1, <2>1, <3>1
    <3> QED BY <1>1, <3>1, <3>2
  <2>2. CASE i = Len(operations) + 1
    <3>1. operations # <<>> /\ operations[Len(operations)].outcome = "Started"
      BY <1>1, <1>3, <2>2 DEF OperationInv
    <3>2. Len(operations) > 0
      BY <1>1, <3>1
    <3> QED BY <1>1, <2>2, <3>1, <3>2
  <2> QED BY <1>1, <1>3, <2>1, <2>2
<1> QED BY <1>1, <1>2, <1>3 DEF OperationInv

\* The Gmail operations, whose attempts are counted.
LEMMA GmailKeeps ==
  ASSUME MaxAttempts \in Nat, Operations, Connections!GmailNext
  PROVE  Operations'
<1> USE DEF Operations
<1>1. CASE Connections!evaluate_connector_account_access
  <2>1. CASE gmail.lifecycle = "Active"
    <3>1. /\ operations' = Append(operations, Connections!event("Started", Connections!None))
          /\ gmail' = [gmail EXCEPT !.attempt = 1, !.decision = "running", !.delay = 0]
      BY <1>1, <2>1 DEF Connections!evaluate_connector_account_access
    <3>2. AttemptInv'
      <4>1. 0 \in Delays
        BY DEF Delays
      <4>2. gmail' \in Gmail
        BY <3>1, <4>1 DEF AttemptInv, Gmail
      <4>3. gmail'.attempt = 1 /\ gmail'.decision = "running"
        BY <3>1 DEF AttemptInv, Gmail
      <4> QED BY <4>2, <4>3 DEF AttemptInv
    <3>3. Connections!event("Started", Connections!None) \in OperationEvent
           /\ Connections!event("Started", Connections!None).outcome = "Started"
      BY DEF Connections!event, OperationEvent, Connections!None
    <3> QED BY <3>1, <3>2, <3>3, AppendsEvent
  <2>2. CASE gmail.lifecycle # "Active"
    <3>1. /\ operations' = Append(operations, Connections!event("Denied", "Authentication"))
          /\ gmail' = [gmail EXCEPT !.decision = Connections!None]
      BY <1>1, <2>2 DEF Connections!evaluate_connector_account_access
    <3>2. AttemptInv' /\ gmail'.decision = "none"
      BY <3>1 DEF AttemptInv, Gmail, Connections!None
    <3>3. Connections!event("Denied", "Authentication") \in OperationEvent
           /\ Connections!event("Denied", "Authentication").outcome = "Denied"
      BY DEF Connections!event, OperationEvent
    <3> QED BY <3>1, <3>2, <3>3, AppendsEvent
  <2> QED BY <2>1, <2>2
<1>2. CASE Connections!get_resource
  <2>1. CASE /\ operations' = Append(operations, Connections!event("Succeeded", Connections!None))
             /\ gmail' = [gmail EXCEPT !.decision = Connections!None, !.attempt = 0]
    <3>1. AttemptInv' /\ gmail'.decision = "none"
      <4>1. gmail' \in Gmail
        BY <2>1 DEF AttemptInv, Gmail, Connections!None
      <4>2. gmail'.attempt = 0 /\ gmail'.decision = "none"
        BY <2>1 DEF AttemptInv, Gmail, Connections!None
      <4> QED BY <4>1, <4>2 DEF AttemptInv
    <3>2. Connections!event("Succeeded", Connections!None) \in OperationEvent /\ gmail.decision = "running"
      BY <1>2 DEF Connections!event, OperationEvent, Connections!None, Connections!get_resource
    <3> QED BY <2>1, <3>1, <3>2, AppendsEvent
  <2>2. CASE \E err \in Connections!errors, after \in 0..1 :
               LET d == Connections!decide(err, gmail.attempt, after)
               IN /\ gmail' = [gmail EXCEPT !.decision = d.decision, !.delay = d.delay]
                  /\ operations' = IF d.decision = "Retry" THEN operations
                                   ELSE Append(operations, Connections!event("Failed", Connections!classify_gmail_provider_error(err)))
    <3>1. PICK err \in GmailErrors, after \in 0..1 :
            LET d == Connections!decide(err, gmail.attempt, after)
            IN /\ gmail' = [gmail EXCEPT !.decision = d.decision, !.delay = d.delay]
               /\ operations' = IF d.decision = "Retry" THEN operations
                                ELSE Append(operations, Connections!event("Failed", Connections!classify_gmail_provider_error(err)))
      BY <2>2 DEF Connections!errors, GmailErrors
    <3> DEFINE d == Connections!decide(err, gmail.attempt, after)
               e == Connections!event("Failed", Connections!classify_gmail_provider_error(err))
    <3>2. /\ d.decision \in {"Retry", "DoNotRetry", "Exhausted"} /\ (d.decision = "Retry" => gmail.attempt < MaxAttempts)
          /\ d.delay \in Delays /\ e \in OperationEvent
      BY DecideIs DEF AttemptInv, Gmail
    <3>3. /\ gmail' = [gmail EXCEPT !.decision = d.decision, !.delay = d.delay]
          /\ operations' = IF d.decision = "Retry" THEN operations ELSE Append(operations, e)
      BY <3>1
    <3> HIDE DEF d, e
    <3>4. AttemptInv' /\ gmail'.decision = d.decision /\ gmail.decision = "running"
      BY <1>2, <3>2, <3>3 DEF AttemptInv, Gmail, Connections!get_resource
    <3>5. CASE d.decision = "Retry"
      BY <3>3, <3>4, <3>5 DEF OperationInv
    <3>6. CASE d.decision # "Retry"
      BY <3>2, <3>3, <3>4, <3>6, AppendsEvent
    <3> QED BY <3>4, <3>5, <3>6
  <2> QED BY <1>2, <2>1, <2>2 DEF Connections!get_resource
<1>3. CASE Connections!retry
  <2>1. gmail.decision = "Retry" /\ gmail' = [gmail EXCEPT !.decision = "running", !.attempt = @ + 1]
         /\ UNCHANGED operations
    BY <1>3 DEF Connections!retry
  <2>2. gmail'.decision = "running" /\ AttemptInv'
    <3>1. gmail' \in Gmail
      <4>1. PICK n \in Nat : n = gmail.attempt + 1
        BY DEF AttemptInv, Gmail
      <4>2. gmail' = [gmail EXCEPT !.decision = "running", !.attempt = n]
        BY <2>1, <4>1
      <4> QED BY <4>2 DEF AttemptInv, Gmail
    <3>2. gmail'.attempt = gmail.attempt + 1 /\ gmail'.decision = "running" /\ gmail.attempt \in Nat
      BY <2>1 DEF AttemptInv, Gmail
    <3>3. gmail.attempt < MaxAttempts
      BY <2>1 DEF AttemptInv
    <3> QED BY <3>1, <3>2, <3>3 DEF AttemptInv
  <2> QED BY <2>1, <2>2 DEF OperationInv
<1>4. CASE \/ Connections!with_token_refresh_provider \/ Connections!refresh_token \/ Connections!is_expired
           \/ \E l \in {"Active", "Disabled", "Offboarded"} : Connections!account(l)
  <2>1. gmail'.decision = gmail.decision /\ AttemptInv' /\ UNCHANGED operations
    BY <1>4 DEF Connections!with_token_refresh_provider, Connections!refresh_token, Connections!is_expired,
         Connections!account, AttemptInv, Gmail
  <2> QED BY <2>1 DEF OperationInv
<1> QED BY <1>1, <1>2, <1>3, <1>4 DEF Connections!GmailNext

\* Every step of a bind, a disconnection or a Gmail operation preserves both invariants.
LEMMA ConnectorsStep ==
  ASSUME MaxAttempts \in Nat, Bindings, Operations, [Connections!Next]_(Connections!nvars)
  PROVE  Bindings' /\ Operations'
<1>1. ASSUME UNCHANGED <<servers, bindings, audit, steps, crossed>> PROVE Bindings'
  BY <1>1 DEF Bindings, BindingTypeOK, RecordedInv, allowed_by, MetInv, Connections!busy
<1>2. ASSUME Connections!rest PROVE Operations'
  BY <1>2 DEF Connections!rest, Operations, OperationInv, AttemptInv
<1>3. CASE UNCHANGED Connections!nvars
  BY <1>1, <1>2, <1>3 DEF Connections!nvars, Connections!rest
<1>4. CASE Connections!GmailNext
  <2>1. Connections!core
    BY <1>4 DEF Connections!GmailNext, Connections!evaluate_connector_account_access,
         Connections!get_resource, Connections!retry, Connections!with_token_refresh_provider,
                Connections!refresh_token, Connections!is_expired, Connections!account
  <2> QED BY <1>1, <1>4, <2>1, GmailKeeps DEF Connections!core
<1>5. CASE \E s \in Servers, trust \in Connections!ServerTrustStatus : Connections!register(s, trust)
  BY <1>2, <1>5, RegisterKeeps DEF Connections!register
<1>6. ASSUME NEW p \in Callers, NEW a \in Agents, NEW s \in Servers, NEW approval \in Connections!BindingApproval,
             Connections!bind_account_with_approval(p, a, s, approval)
      PROVE  Bindings' /\ Operations'
  BY <1>2, <1>6, AttemptKeeps DEF Connections!bind_account_with_approval
<1>7. ASSUME NEW p \in Callers, NEW s \in Servers, Connections!disconnect_server(p, s)
      PROVE  Bindings' /\ Operations'
  BY <1>2, <1>7, DisconnectKeeps DEF Connections!disconnect_server
<1>8. ASSUME NEW p \in Callers, Connections!bind(p) PROVE Bindings' /\ Operations'
  BY <1>2, <1>8, BindKeeps DEF Connections!bind
<1>9. ASSUME NEW p \in Callers, Connections!unbind(p) \/ Connections!unregister(p) \/ Connections!fails(p)
      PROVE Bindings' /\ Operations'
  BY <1>2, <1>9, RemovesKeep DEF Connections!unbind, Connections!unregister, Connections!fails
<1> QED BY <1>3, <1>4, <1>5, <1>6, <1>7, <1>8, <1>9 DEF Connections!Next, Connections!BindingNext

\* Every binding goes back to an audited attempt that was allowed and not blocked, for its agent
\* and its server, and its server is registered unless a disconnection met a bind of it; the
\* Gmail connector retries no more than the policy's attempts and audits a start before every end.
THEOREM ConnectorsKept ==
  ASSUME MaxAttempts \in Nat
  PROVE  Connections!Spec => []Connections!ConnectorsSound
<1>1. Bindings /\ Operations => Connections!ConnectorsSound
  <2> SUFFICES ASSUME Bindings, Operations PROVE Connections!ConnectorsSound
    OBVIOUS
  <2>1. \A b \in bindings :
          /\ b.nr <= Len(audit)
          /\ audit[b.nr].outcome = "Allowed" /\ audit[b.nr].trust # "Blocked"
          /\ audit[b.nr].agent = b.agent /\ audit[b.nr].server = b.server
    BY DEF Bindings, RecordedInv, allowed_by
  <2>2. \A b \in bindings : servers[b.server] # Connections!None \/ b.server \in crossed
    BY DEF Bindings, BindingTypeOK, Binding, MetInv
  <2>3. gmail.decision = "Retry" => ~gmail.attempt = MaxAttempts
    BY DEF Operations, AttemptInv
  <2>4. gmail.attempt > 1 => gmail.attempt <= MaxAttempts
    BY DEF Operations, AttemptInv
  <2>5. \A i \in 1..Len(operations) : operations[i].outcome \in {"Succeeded", "Failed"} =>
          i > 1 /\ operations[i - 1].outcome = "Started"
    BY DEF Operations, OperationInv
  <2> QED BY <2>1, <2>2, <2>3, <2>4, <2>5 DEF Connections!ConnectorsSound
<1>2. Bindings /\ Operations /\ [Connections!Next]_(Connections!nvars) => (Bindings /\ Operations)'
  BY ConnectorsStep
<1> QED BY <1>1, <1>2, BindingsStart, PTL DEF Connections!Spec
=============================================================================

------------------------- MODULE ActionRuntimeProofs -------------------------
(***************************************************************************)
(* For any numbers of workers, participants, actions and requests, and any *)
(* policy: the executor runs only what is authorised, and the audit log    *)
(* does not lie.  Neither statement is inductive: both follow from what a  *)
(* caller's stage says about the action it works on (StageInv), which in   *)
(* turn needs to know which policy and which approval lie behind the       *)
(* projected status (StatusInv).                                           *)
(*                                                                         *)
(* RunRecords, which keeps the runtime's journal and action records, and   *)
(* ModelCalls, whose retries the same kind of policy bounds, are proved    *)
(* about here as instances, for any callers, ids, events and delays; so is *)
(* KernelHost, with what its event file says after a crash.                *)
(***************************************************************************)
EXTENDS ActionRuntime, Sequences, FiniteSetTheorems, SequenceTheorems, WellFoundedInduction, TLAPS

CONSTANTS Writers, Runs, Kinds, Ids, Outcomes, MaxEvents, MaxCrashes,
          InitialDelay, Multiplier, MaxDelay, MaxAttempts                 \* of RunRecords
CONSTANTS Clients, Provider, FailureThreshold, Cooldown, ModelAttempts, ModelDelay, ModelMaxDelay,
          MaxFailures, Frames, MaxFrames, Sizes, MaxMessages, HistoryBudget  \* of ModelCalls
CONSTANTS MaxId, MaxText                                                  \* of KernelHost, with Writers

VARIABLES journal, records, appends, crashes, retry                       \* of RunRecords
VARIABLES breaker, calls, stream, messages, exchange                      \* of ModelCalls
VARIABLES runtime, held, file, stores, ghost                              \* of KernelHost

\* The components, each with variables of its own.
Records == INSTANCE RunRecords WITH Callers <- Writers, calls <- appends
Models == INSTANCE ModelCalls WITH Callers <- Clients, MaxAttempts <- ModelAttempts, InitialDelay <- ModelDelay,
                                   MaxDelay <- ModelMaxDelay, history <- messages
Kernel == INSTANCE KernelHost WITH Callers <- Writers, calls <- stores, memory <- held

\* The stages of a worker at and after start_action.
RunStages == {"start_action", "execute", "complete_action", "fail_action",
              "link", "audit_completed", "audit_failed"}

\* The stages after the executor returned.
DoneStages == {"complete_action", "fail_action", "link", "audit_completed", "audit_failed"}

\* Only an action that policy asks about waits for approval, and an Approved
\* one carries the name of somebody who did approve it.
StatusInv ==
  \A a \in Actions :
    /\ status[a] = "ApprovalRequired" => Policy[a] = "Ask"
    /\ status[a] = "Approved" => Policy[a] = "Ask" /\ <<a, approved_by[a]>> \in approvals

\* What the stage of a worker tells about policy and approvals.
WorkerInv(w) ==
  /\ pc[w] # "approve_action"
  /\ pc[w] \in RunStages =>
       \/ via[w] = "process" /\ Policy[act[w]] = "Allow"
       \/ /\ via[w] = "execute_approved" /\ Policy[act[w]] = "Ask"
          /\ <<act[w], grantor[w]>> \in approvals
  /\ pc[w] \in DoneStages => execs[act[w]] > 0
  /\ pc[w] = "require_action_approval" => via[w] = "process" /\ Policy[act[w]] = "Ask"
  /\ pc[w] = "audit_approval_required" => via[w] = "process" /\ Policy[act[w]] = "Ask"
  /\ pc[w] = "deny_action" => via[w] = "process" /\ Policy[act[w]] \in {"Deny", "Unregistered"}
  /\ pc[w] = "audit_denied" => via[w] = "process" /\ Policy[act[w]] \in {"Deny", "Unregistered"}
  /\ pc[w] = "request_action" => via[w] = "process"
  /\ pc[w] = "check" => via[w] = "execute_approved"

\* A participant only approves or denies; a validated approval is for an
\* action that policy asks about.
PersonInv(p) ==
  /\ pc[p] \in {"idle", "approve_action", "deny_action"}
  /\ pc[p] = "idle" => ~loaded[p]
  /\ (pc[p] = "approve_action" /\ loaded[p]) => Policy[act[p]] = "Ask"

IInv ==
  /\ TypeOK
  /\ StatusInv
  /\ \A w \in Workers : WorkerInv(w)
  /\ \A p \in People : PersonInv(p)
  /\ ExecutionAuthorised
  /\ AuditTruthful

-----------------------------------------------------------------------------
\* Every value the state of workers, participants, projection and audit log
\* takes is of its type, initially and after every step.
LEMMA TypeInit == Init => TypeOK
  BY CallersAssumption DEF Init, TypeOK, WorkerStage, ActionCommand, Absent

\* A worker's identity never gets into approved_by: workers do not approve.
LEMMA TypeNext ==
  TypeOK /\ (\A w \in Workers : pc[w] # "approve_action") /\ [Next]_vars => TypeOK'
<1> SUFFICES ASSUME TypeOK, \A w \in Workers : pc[w] # "approve_action", [Next]_vars
             PROVE  TypeOK'
  OBVIOUS
<1> USE DEF TypeOK, projection, caller, history, Callers, WorkerStage, ActionCommand
<1>1. ASSUME NEW w \in Workers, NEW a \in Actions, Process(w, a) PROVE TypeOK'
  BY <1>1 DEF Process
<1>2. ASSUME NEW w \in Workers, NEW a \in Actions, ExecuteApproved(w, a) PROVE TypeOK'
  BY <1>2 DEF ExecuteApproved
<1>3. ASSUME NEW p \in People, NEW a \in Actions, NEW cmd \in {"approve_action", "deny_action"},
             Decide(p, a, cmd)
      PROVE  TypeOK'
  BY <1>3 DEF Decide
<1>4. ASSUME NEW w \in Workers, Check(w) PROVE TypeOK'
  BY <1>4 DEF Check
<1>5. ASSUME NEW c \in Callers, Validate(c) PROVE TypeOK'
  BY <1>5 DEF Validate
<1>6. ASSUME NEW c \in Callers, AppendEvent(c) PROVE TypeOK'
  <2> DEFINE cmd == pc[c]
             a == act[c]
  <2>1. cmd \in ActionCommand /\ a \in Actions /\ c \in Workers \cup People
    BY <1>6 DEF AppendEvent, KernelStage
  <2>2. cmd = "approve_action" => c \in People
    BY <2>1
  <2>3. after(c, cmd) \in WorkerStage
    BY <2>1, PolicyAssumption DEF after, route, Decision
  <2>4. apply_event(cmd, status[a]) \in ConversationActionStatus \cup {Absent}
    BY <2>1 DEF apply_event, EventStatus, ConversationActionStatus
  <2>5. apply_approved_by(cmd, status[a], approved_by[a], c, NoOne) \in People \cup {NoOne}
    BY <2>1, <2>2 DEF apply_approved_by
  <2>6. approvals' \subseteq Actions \X People
    BY <1>6, <2>1, <2>2 DEF AppendEvent
  <2>7. pc' \in [Callers -> WorkerStage]
    BY <1>6, <2>3 DEF AppendEvent
  <2>8. status' \in [Actions -> ConversationActionStatus \cup {Absent}]
    BY <1>6, <2>4 DEF AppendEvent
  <2>9. approved_by' \in [Actions -> People \cup {NoOne}]
    BY <1>6, <2>5 DEF AppendEvent
  <2> QED
    BY <1>6, <2>6, <2>7, <2>8, <2>9 DEF AppendEvent
<1>7. ASSUME NEW w \in Workers, Execute(w) PROVE TypeOK'
  BY <1>7 DEF Execute
<1>8. ASSUME NEW w \in Workers, LinkArtifact(w) PROVE TypeOK'
  BY <1>8 DEF LinkArtifact
<1>9. ASSUME NEW w \in Workers, RecordAudit(w) PROVE TypeOK'
  <2>1. decision_word(w) \in {"allow", "ask", "deny", "approved"}
    BY PolicyAssumption DEF decision_word, Decision
  <2>2. audit' \subseteq AuditRecord
    BY <1>9, <2>1 DEF RecordAudit, AuditRecord, AuditStage
  <2> QED
    BY <1>9, <2>2 DEF RecordAudit
<1>10. ASSUME NEW c \in Callers, Abort(c) PROVE TypeOK'
  BY <1>10 DEF Abort
<1>11. CASE UNCHANGED vars
  BY <1>11 DEF vars
<1> QED
  BY <1>1, <1>2, <1>3, <1>4, <1>5, <1>6, <1>7, <1>8, <1>9, <1>10, <1>11
  DEF Next, WorkerStep, PersonStep

\* Approvals and executions are never taken back, so what a stage or an audit
\* record says of them stays true; only the caller that moves has to be looked
\* at again.
LEMMA Monotone ==
  IInv /\ [Next]_vars =>
    approvals \subseteq approvals' /\ \A a \in Actions : execs'[a] >= execs[a]
<1> SUFFICES ASSUME IInv, [Next]_vars
             PROVE  approvals \subseteq approvals' /\ \A a \in Actions : execs'[a] >= execs[a]
  OBVIOUS
<1>1. ASSUME NEW w \in Workers, Execute(w)
      PROVE  approvals \subseteq approvals' /\ \A a \in Actions : execs'[a] >= execs[a]
  BY <1>1 DEF Execute, IInv, TypeOK, Callers
<1> QED
  BY <1>1 DEF IInv, TypeOK, Next, WorkerStep, PersonStep, Process, ExecuteApproved, Decide, Check,
    Validate, AppendEvent, LinkArtifact, RecordAudit, Abort, vars, history

\* What the projection shows of an action stays backed by the history.
LEMMA StatusNext == IInv /\ [Next]_vars => StatusInv'
<1> SUFFICES ASSUME IInv, [Next]_vars PROVE StatusInv'
  OBVIOUS
<1>1. ASSUME NEW c \in Callers, AppendEvent(c) PROVE StatusInv'
  <2> SUFFICES ASSUME NEW a \in Actions
               PROVE  /\ status'[a] = "ApprovalRequired" => Policy[a] = "Ask"
                      /\ status'[a] = "Approved" =>
                           Policy[a] = "Ask" /\ <<a, approved_by'[a]>> \in approvals'
    BY DEF StatusInv
  <2> USE DEF IInv, TypeOK, Callers
  <2>1. CASE a # act[c]
    BY <1>1, <2>1 DEF AppendEvent, StatusInv
  <2>2. CASE a = act[c]
    <3>1. /\ status'[a] = apply_event(pc[c], status[a])
          /\ approved_by'[a] = apply_approved_by(pc[c], status[a], approved_by[a], c, NoOne)
          /\ pc[c] \in ActionCommand
          /\ loaded[c]
      BY <1>1, <2>2 DEF AppendEvent, KernelStage
    <3>2. CASE pc[c] = "approve_action"
      <4>1. c \in People /\ Policy[a] = "Ask"
        BY <3>1, <3>2, <2>2 DEF WorkerInv, PersonInv
      <4>2. <<a, c>> \in approvals'
        BY <1>1, <2>2, <3>2 DEF AppendEvent
      <4> QED
        BY <3>1, <3>2, <4>1, <4>2 DEF apply_event, apply_approved_by, EventStatus, StatusInv, Absent
    <3>3. CASE pc[c] = "require_action_approval"
      <4>1. Policy[a] = "Ask"
        BY <3>3, <2>2 DEF WorkerInv, PersonInv
      <4> QED
        BY <3>1, <3>3, <4>1 DEF apply_event, apply_approved_by, EventStatus, StatusInv, Absent
    <3>4. CASE pc[c] \notin {"approve_action", "require_action_approval"}
      BY <3>1, <3>4 DEF apply_event, apply_approved_by, EventStatus, StatusInv, Absent, ActionCommand
    <3> QED
      BY <3>2, <3>3, <3>4
  <2> QED
    BY <2>1, <2>2
<1>2. CASE UNCHANGED <<projection, approvals>>
  BY <1>2 DEF IInv, StatusInv, projection
<1> QED
  BY <1>1, <1>2 DEF Next, WorkerStep, PersonStep, Process, ExecuteApproved, Decide, Check,
    Validate, Execute, LinkArtifact, RecordAudit, Abort, vars, history, projection, Callers

\* A step of one caller leaves what it says of the others true.
LEMMA OthersNext ==
  ASSUME IInv, [Next]_vars, NEW c \in Callers,
         pc'[c] = pc[c], act'[c] = act[c], via'[c] = via[c],
         grantor'[c] = grantor[c], loaded'[c] = loaded[c]
  PROVE  /\ c \in Workers => WorkerInv(c)'
         /\ c \in People => PersonInv(c)'
<1>1. approvals \subseteq approvals' /\ \A a \in Actions : execs'[a] >= execs[a]
  BY Monotone
<1>2. TypeOK'
  BY TypeNext DEF IInv, WorkerInv
<1>3. act[c] \in Actions /\ execs[act[c]] \in Nat /\ execs'[act[c]] \in Nat
  BY <1>2 DEF IInv, TypeOK
<1>4. c \in Workers => WorkerInv(c)'
  BY <1>1, <1>3 DEF IInv, WorkerInv
<1>5. c \in People => PersonInv(c)'
  BY DEF IInv, PersonInv
<1> QED
  BY <1>4, <1>5

\* Every caller carries, at each of its stages, what the later ones rely on.
LEMMA CallersNext ==
  IInv /\ [Next]_vars =>
    (\A w \in Workers : WorkerInv(w)') /\ (\A p \in People : PersonInv(p)')
<1> SUFFICES ASSUME IInv, [Next]_vars, NEW c \in Callers
             PROVE  /\ c \in Workers => WorkerInv(c)'
                    /\ c \in People => PersonInv(c)'
  BY DEF Callers
<1> DEFINE Goal == /\ c \in Workers => WorkerInv(c)'
                   /\ c \in People => PersonInv(c)'
           Same == /\ pc'[c] = pc[c] /\ act'[c] = act[c] /\ via'[c] = via[c]
                   /\ grantor'[c] = grantor[c] /\ loaded'[c] = loaded[c]
<1>1. Same => Goal
  BY OthersNext
<1>2. Workers \cap People = {} /\ c \in Workers \cup People
  BY CallersAssumption DEF Callers
<1>3. TypeOK
  BY DEF IInv
<1>4. (c \in Workers => WorkerInv(c)) /\ (c \in People => PersonInv(c))
  BY DEF IInv
<1> USE DEF projection, caller, history, Callers, RunStages, DoneStages
<1>5. ASSUME NEW w \in Workers, NEW a \in Actions, Process(w, a) \/ ExecuteApproved(w, a)
      PROVE  Goal
  <2>1. CASE c = w
    BY <1>2, <1>3, <1>5, <2>1 DEF Process, ExecuteApproved, TypeOK, WorkerInv
  <2>2. CASE c # w
    BY <1>1, <1>3, <1>5, <2>2 DEF Process, ExecuteApproved, TypeOK
  <2> QED  BY <2>1, <2>2
<1>6. ASSUME NEW p \in People, NEW a \in Actions, NEW cmd \in {"approve_action", "deny_action"},
             Decide(p, a, cmd)
      PROVE  Goal
  <2>1. CASE c = p
    BY <1>2, <1>3, <1>4, <1>6, <2>1 DEF Decide, TypeOK, PersonInv
  <2>2. CASE c # p
    BY <1>1, <1>3, <1>6, <2>2 DEF Decide, TypeOK
  <2> QED  BY <2>1, <2>2
<1>7. ASSUME NEW w \in Workers, Check(w) PROVE Goal
  <2>1. CASE c = w
    <3>1. status[act[w]] = "Approved" =>
            Policy[act[w]] = "Ask" /\ <<act[w], approved_by[act[w]]>> \in approvals
      BY <1>3 DEF IInv, StatusInv, TypeOK
    <3> QED
      BY <1>2, <1>3, <1>4, <1>7, <2>1, <3>1 DEF Check, approved_and_registered, TypeOK, WorkerInv
  <2>2. CASE c # w
    BY <1>1, <1>3, <1>7, <2>2 DEF Check, TypeOK
  <2> QED  BY <2>1, <2>2
<1>8. ASSUME NEW d \in Callers, Validate(d) PROVE Goal
  <2>1. CASE c = d
    <3>1. act[d] \in Actions
      BY <1>3 DEF TypeOK
    <3>2. status[act[d]] = "ApprovalRequired" => Policy[act[d]] = "Ask"
      BY <3>1 DEF IInv, StatusInv
    <3>3. c \in Workers => WorkerInv(c)'
      BY <1>3, <1>4, <1>8, <2>1 DEF Validate, TypeOK, WorkerInv
    <3>4. c \in People => PersonInv(c)'
      BY <1>3, <1>4, <1>8, <2>1, <3>2 DEF Validate, TypeOK, PersonInv, accepts, approve_action_accepts
    <3> QED  BY <3>3, <3>4
  <2>2. CASE c # d
    BY <1>1, <1>3, <1>8, <2>2 DEF Validate, TypeOK
  <2> QED  BY <2>1, <2>2
<1>9. ASSUME NEW d \in Callers, AppendEvent(d) PROVE Goal
  <2>1. CASE c = d
    <3>1. /\ pc[d] \in ActionCommand /\ act[d] \in Actions
          /\ pc'[d] = after(d, pc[d]) /\ act'[d] = act[d] /\ via'[d] = via[d]
          /\ grantor'[d] = grantor[d] /\ loaded'[d] = FALSE
          /\ execs' = execs /\ approvals \subseteq approvals'
      BY <1>3, <1>9 DEF AppendEvent, TypeOK, KernelStage
    <3>2. c \in People => PersonInv(c)'
      BY <2>1, <3>1 DEF PersonInv, after
    <3>3. c \in Workers => WorkerInv(c)'
      <4> SUFFICES ASSUME c \in Workers PROVE WorkerInv(c)'
        OBVIOUS
      <4>1. d \notin People /\ WorkerInv(d)
        BY <1>2, <1>4, <2>1
      <4>2. CASE pc[d] = "request_action"
        <5>1. via[d] = "process" /\ pc'[d] = route(act[d])
          BY <4>1, <4>2, <3>1 DEF WorkerInv, after
        <5>2. Policy[act[d]] \in Decision
          BY <3>1, PolicyAssumption
        <5> QED
          BY <2>1, <3>1, <5>1, <5>2 DEF WorkerInv, route, Decision
      <4>3. CASE pc[d] # "request_action"
        BY <2>1, <3>1, <4>1, <4>3 DEF WorkerInv, after, ActionCommand
      <4> QED  BY <4>2, <4>3
    <3> QED  BY <3>2, <3>3
  <2>2. CASE c # d
    BY <1>1, <1>3, <1>9, <2>2 DEF AppendEvent, TypeOK
  <2> QED  BY <2>1, <2>2
<1>10. ASSUME NEW w \in Workers, Execute(w) PROVE Goal
  <2>1. CASE c = w
    <3>1. c \notin People /\ WorkerInv(c) /\ act[c] \in Actions /\ execs[act[c]] \in Nat
      BY <1>2, <1>3, <1>4, <2>1 DEF TypeOK
    <3>2. execs'[act[c]] > 0 /\ act' = act /\ pc'[c] \in {"complete_action", "fail_action"}
      BY <1>3, <1>10, <2>1, <3>1 DEF Execute, TypeOK
    <3>3. via' = via /\ grantor' = grantor /\ approvals' = approvals /\ pc[c] = "execute"
      BY <1>10, <2>1 DEF Execute
    <3> QED
      BY <3>1, <3>2, <3>3 DEF WorkerInv
  <2>2. CASE c # w
    BY <1>1, <1>3, <1>10, <2>2 DEF Execute, TypeOK
  <2> QED  BY <2>1, <2>2
<1>11. ASSUME NEW w \in Workers, LinkArtifact(w) \/ RecordAudit(w) PROVE Goal
  <2>1. CASE c = w
    BY <1>2, <1>3, <1>4, <1>11, <2>1 DEF LinkArtifact, RecordAudit, TypeOK, WorkerInv
  <2>2. CASE c # w
    BY <1>1, <1>3, <1>11, <2>2 DEF LinkArtifact, RecordAudit, TypeOK
  <2> QED  BY <2>1, <2>2
<1>12. ASSUME NEW d \in Callers, Abort(d) PROVE Goal
  <2>1. CASE c = d
    BY <1>2, <1>3, <1>12, <2>1 DEF Abort, TypeOK, WorkerInv, PersonInv
  <2>2. CASE c # d
    BY <1>1, <1>3, <1>12, <2>2 DEF Abort, TypeOK
  <2> QED  BY <2>1, <2>2
<1>13. CASE UNCHANGED vars
  BY <1>1, <1>13 DEF vars
<1> QED
  BY <1>5, <1>6, <1>7, <1>8, <1>9, <1>10, <1>11, <1>12, <1>13 DEF Next, WorkerStep, PersonStep

\* Only Execute and RecordAudit can disturb these two, and the stage of the
\* worker that takes the step carries what they need.
LEMMA OutcomesNext == IInv /\ [Next]_vars => ExecutionAuthorised' /\ AuditTruthful'
<1> SUFFICES ASSUME IInv, [Next]_vars PROVE ExecutionAuthorised' /\ AuditTruthful'
  OBVIOUS
<1>1. approvals \subseteq approvals' /\ \A a \in Actions : execs'[a] >= execs[a]
  BY Monotone
<1>2. TypeOK /\ TypeOK'
  BY TypeNext DEF IInv, WorkerInv
<1>3. \A r \in audit : r.action \in Actions
  BY <1>2 DEF TypeOK, AuditRecord
<1>4. \A r \in audit : RecordTruthful(r)'
  <2> TAKE r \in audit
  <2>1. RecordTruthful(r) /\ r.action \in Actions
    BY <1>3 DEF IInv, AuditTruthful
  <2>2. execs[r.action] \in Nat /\ execs'[r.action] \in Nat /\ execs'[r.action] >= execs[r.action]
    BY <1>1, <1>2, <2>1 DEF TypeOK
  <2> QED
    BY <1>1, <2>1, <2>2 DEF RecordTruthful
<1>5. \A a \in Actions : execs'[a] = execs[a] => (execs'[a] > 0 => Authorised(a)')
  BY <1>1 DEF IInv, ExecutionAuthorised, Authorised
<1>6. ASSUME NEW w \in Workers, Execute(w) PROVE ExecutionAuthorised' /\ AuditTruthful'
  <2>1. WorkerInv(w) /\ act[w] \in Actions /\ grantor[w] \in People \cup {NoOne}
    BY <1>2 DEF IInv, TypeOK, Callers
  <2>2. Authorised(act[w])'
    BY <1>1, <1>2, <1>6, <2>1 DEF WorkerInv, RunStages, Execute, Authorised, TypeOK
  <2>3. \A a \in Actions : a # act[w] => execs'[a] = execs[a]
    BY <1>2, <1>6 DEF Execute, TypeOK
  <2> QED
    BY <1>4, <1>5, <1>6, <2>2, <2>3 DEF ExecutionAuthorised, AuditTruthful, Execute
<1>7. ASSUME NEW w \in Workers, RecordAudit(w) PROVE ExecutionAuthorised' /\ AuditTruthful'
  <2>1. WorkerInv(w) /\ act[w] \in Actions
    BY <1>2 DEF IInv, TypeOK, Callers
  <2>2. PICK r \in DOMAIN AuditStage :
          /\ pc[w] = AuditStage[r]
          /\ audit' = audit \cup
               { [ action |-> act[w], policy_decision |-> decision_word(w),
                   result_status |-> r, approved_by |-> grantor[w] ] }
    BY <1>7 DEF RecordAudit
  <2>3. execs' = execs /\ approvals' = approvals
    BY <1>7 DEF RecordAudit, history
  <2> DEFINE rec == [ action |-> act[w], policy_decision |-> decision_word(w),
                      result_status |-> r, approved_by |-> grantor[w] ]
  <2>4. Policy[act[w]] \in Decision
    BY <2>1, PolicyAssumption
  <2>5. RecordTruthful(rec)
    BY <2>1, <2>2, <2>4 DEF RecordTruthful, WorkerInv, AuditStage, RunStages, DoneStages,
      decision_word, Decision
  <2>6. \A q : q = rec => RecordTruthful(q)'
    BY <2>3, <2>5 DEF RecordTruthful
  <2>7. \A q \in audit' : q \in audit \/ q = rec
    BY <2>2
  <2> QED
    BY <1>4, <1>5, <2>3, <2>6, <2>7 DEF ExecutionAuthorised, AuditTruthful
<1>8. CASE execs' = execs /\ audit' = audit
  BY <1>4, <1>5, <1>8 DEF ExecutionAuthorised, AuditTruthful
<1> QED
  BY <1>6, <1>7, <1>8 DEF Next, WorkerStep, PersonStep, Process, ExecuteApproved, Decide, Check,
    Validate, AppendEvent, LinkArtifact, Abort, vars, history

\* The inductive invariant holds throughout, whatever the constants.
THEOREM Invariant == Spec => []IInv
<1>1. Init => IInv
  <2> SUFFICES ASSUME Init PROVE IInv
    OBVIOUS
  <2>1. TypeOK
    BY TypeInit
  <2> QED
    BY <2>1 DEF IInv, Init, StatusInv, WorkerInv, PersonInv, ExecutionAuthorised, AuditTruthful,
      Callers, RunStages, DoneStages, Absent
<1>2. IInv /\ [Next]_vars => IInv'
  <2>1. IInv => TypeOK /\ \A w \in Workers : pc[w] # "approve_action"
    BY DEF IInv, WorkerInv
  <2> QED
    BY <2>1, TypeNext, StatusNext, CallersNext, OutcomesNext DEF IInv
<1> QED
  BY <1>1, <1>2, PTL DEF Spec

\* Type correctness of the whole state.
THEOREM TypeCorrect == Spec => []TypeOK
<1>1. IInv => TypeOK
  BY DEF IInv
<1> QED
  BY <1>1, Invariant, PTL

\* The executor never runs an action that was not authorised: for every policy,
\* every number of workers and participants, and calls dropped at any await.
THEOREM Authorisation == Spec => []ExecutionAuthorised
<1>1. IInv => ExecutionAuthorised
  BY DEF IInv
<1> QED
  BY <1>1, Invariant, PTL

\* The audit log never claims an execution, an approval or a policy decision
\* that did not happen.
THEOREM AuditTruth == Spec => []AuditTruthful
<1>1. IInv => AuditTruthful
  BY DEF IInv
<1> QED
  BY <1>1, Invariant, PTL

-----------------------------------------------------------------------------
\* The workers that have recorded the start of a and not yet called the executor.
executing(a) == {w \in Workers : pc[w] = "execute" /\ act[w] = a}

\* Each of them has a start of its own in the journal that no execution used up.
JournalInv ==
  \A a \in Actions :
    /\ IsFiniteSet(executing(a))
    /\ execs[a] + Cardinality(executing(a)) <= starts[a]

\* Only start_action brings a worker to the executor, and only the call or its
\* loss takes one away.
LEMMA JournalNext == IInv /\ JournalInv /\ [Next]_vars => JournalInv'
<1> SUFFICES ASSUME IInv, JournalInv, [Next]_vars, NEW a \in Actions
             PROVE  /\ IsFiniteSet(executing(a)')
                    /\ execs'[a] + Cardinality(executing(a)') <= starts'[a]
  BY DEF JournalInv
<1> DEFINE Goal == /\ IsFiniteSet(executing(a)')
                   /\ execs'[a] + Cardinality(executing(a)') <= starts'[a]
<1>0. /\ TypeOK /\ IsFiniteSet(executing(a)) /\ Cardinality(executing(a)) \in Nat
      /\ execs[a] + Cardinality(executing(a)) <= starts[a]
      /\ execs[a] \in Nat /\ starts[a] \in Nat
  BY FS_CardinalityType DEF IInv, TypeOK, JournalInv
<1> USE DEF Callers, history
<1>s. ASSUME UNCHANGED <<execs, starts>>, executing(a)' = executing(a)
      PROVE  Goal
  BY <1>0, <1>s
\* A worker that leaves the executor frees its start, used or not.
<1>r. ASSUME NEW w \in executing(a), executing(a)' = executing(a) \ {w}, starts' = starts,
             execs'[a] \in {execs[a], execs[a] + 1}
      PROVE  Goal
  <2>1. /\ IsFiniteSet(executing(a) \ {w})
        /\ Cardinality(executing(a) \ {w}) = Cardinality(executing(a)) - 1
    BY <1>0, FS_RemoveElement
  <2> QED BY <1>0, <1>r, <2>1
<1>1. ASSUME NEW w \in Workers, NEW b \in Actions, Process(w, b) \/ ExecuteApproved(w, b)
      PROVE  Goal
  <2>1. executing(a)' = executing(a)
    BY <1>0, <1>1 DEF Process, ExecuteApproved, executing, TypeOK
  <2> QED BY <1>1, <1>s, <2>1 DEF Process, ExecuteApproved
<1>2. ASSUME NEW p \in People, NEW b \in Actions, NEW cmd \in {"approve_action", "deny_action"},
             Decide(p, b, cmd)
      PROVE  Goal
  <2>1. executing(a)' = executing(a)
    BY <1>0, <1>2, CallersAssumption DEF Decide, executing, TypeOK
  <2> QED BY <1>2, <1>s, <2>1 DEF Decide
<1>3. ASSUME NEW w \in Workers, Check(w) \/ LinkArtifact(w) \/ RecordAudit(w)
      PROVE  Goal
  <2>1. executing(a)' = executing(a)
    BY <1>0, <1>3 DEF Check, LinkArtifact, RecordAudit, executing, TypeOK, AuditStage
  <2> QED BY <1>3, <1>s, <2>1 DEF Check, LinkArtifact, RecordAudit
<1>4. ASSUME NEW c \in Callers, Validate(c)
      PROVE  Goal
  <2>1. executing(a)' = executing(a)
    BY <1>0, <1>4 DEF Validate, executing, TypeOK, KernelStage, ActionCommand
  <2> QED BY <1>4, <1>s, <2>1 DEF Validate
<1>5. ASSUME NEW c \in Callers, AppendEvent(c)
      PROVE  Goal
  <2>0. /\ pc[c] \in ActionCommand /\ act[c] \in Actions /\ act' = act /\ execs' = execs
        /\ pc' = [pc EXCEPT ![c] = after(c, pc[c])]
        /\ starts' = [starts EXCEPT ![act[c]] = IF pc[c] = "start_action" THEN @ + 1 ELSE @]
    BY <1>0, <1>5 DEF AppendEvent, KernelStage, TypeOK
  <2>1. CASE c \in Workers /\ pc[c] = "start_action"
    <3>1. c \notin People /\ pc'[c] = "execute"
      BY <1>0, <2>0, <2>1, CallersAssumption DEF after, TypeOK
    <3>2. CASE act[c] = a
      <4>1. executing(a)' = executing(a) \cup {c} /\ c \notin executing(a)
        BY <1>0, <2>0, <2>1, <3>1, <3>2 DEF executing, TypeOK
      <4>2. /\ IsFiniteSet(executing(a) \cup {c})
            /\ Cardinality(executing(a) \cup {c}) = Cardinality(executing(a)) + 1
        BY <1>0, <4>1, FS_AddElement
      <4>3. starts'[a] = starts[a] + 1
        BY <1>0, <2>0, <2>1, <3>2 DEF TypeOK
      <4> QED BY <1>0, <2>0, <4>1, <4>2, <4>3
    <3>3. CASE act[c] # a
      <4>1. executing(a)' = executing(a)
        BY <1>0, <2>0, <3>3 DEF executing, TypeOK
      <4>2. starts'[a] = starts[a]
        BY <1>0, <2>0, <3>3 DEF TypeOK
      <4> QED BY <1>0, <2>0, <4>1, <4>2
    <3> QED BY <3>2, <3>3
  <2>2. CASE ~(c \in Workers /\ pc[c] = "start_action")
    <3>1. pc[c] # "start_action"
      BY <2>2 DEF IInv, PersonInv
    <3>2. starts' = starts
      BY <1>0, <2>0, <3>1 DEF TypeOK
    <3>3. c \in Workers => pc'[c] # "execute" /\ pc[c] # "execute"
      <4> SUFFICES ASSUME c \in Workers PROVE pc'[c] # "execute" /\ pc[c] # "execute"
        OBVIOUS
      <4>1. c \notin People /\ Policy[act[c]] \in Decision
        BY <2>0, CallersAssumption, PolicyAssumption
      <4>2. after(c, pc[c]) # "execute"
        BY <2>0, <3>1, <4>1 DEF after, route, Decision, ActionCommand
      <4> QED BY <1>0, <2>0, <4>2 DEF TypeOK, ActionCommand
    <3>4. executing(a)' = executing(a)
      BY <1>0, <2>0, <3>3 DEF executing, TypeOK
    <3> QED BY <1>s, <2>0, <3>2, <3>4
  <2> QED BY <2>1, <2>2
<1>6. ASSUME NEW w \in Workers, Execute(w)
      PROVE  Goal
  <2>0. /\ pc[w] = "execute" /\ pc'[w] # "execute" /\ \A v \in Workers \ {w} : pc'[v] = pc[v]
        /\ act' = act /\ starts' = starts /\ act[w] \in Actions
        /\ execs' = [execs EXCEPT ![act[w]] = @ + 1]
    BY <1>0, <1>6 DEF Execute, TypeOK
  <2>1. CASE act[w] = a
    <3>1. w \in executing(a) /\ executing(a)' = executing(a) \ {w}
      BY <2>0, <2>1 DEF executing
    <3>2. execs'[a] = execs[a] + 1
      BY <1>0, <2>0, <2>1 DEF TypeOK
    <3> QED BY <1>r, <2>0, <3>1, <3>2
  <2>2. CASE act[w] # a
    <3>1. executing(a)' = executing(a) /\ execs'[a] = execs[a]
      BY <1>0, <2>0, <2>2 DEF executing, TypeOK
    <3> QED BY <1>0, <2>0, <3>1
  <2> QED BY <2>1, <2>2
<1>7. ASSUME NEW c \in Callers, Abort(c)
      PROVE  Goal
  <2>0. /\ pc'[c] = "idle" /\ \A d \in Callers \ {c} : pc'[d] = pc[d]
        /\ act' = act /\ UNCHANGED <<starts, execs>>
    BY <1>0, <1>7 DEF Abort, TypeOK
  <2>1. CASE c \in executing(a)
    <3>1. executing(a)' = executing(a) \ {c}
      BY <2>0, <2>1 DEF executing
    <3> QED BY <1>r, <2>0, <2>1, <3>1
  <2>2. CASE c \notin executing(a)
    <3>1. executing(a)' = executing(a)
      BY <2>0, <2>2 DEF executing
    <3> QED BY <1>s, <2>0, <3>1
  <2> QED BY <2>1, <2>2
<1>8. ASSUME UNCHANGED vars
      PROVE  Goal
  <2>1. executing(a)' = executing(a)
    BY <1>8 DEF vars, executing
  <2> QED BY <1>8, <1>s, <2>1 DEF vars
<1> QED
  BY <1>1, <1>2, <1>3, <1>4, <1>5, <1>6, <1>7, <1>8 DEF Next, WorkerStep, PersonStep

\* No executor call goes without an ActionStarted event of its own, for any
\* number of workers running one action and calls dropped at any await.
THEOREM StartsCover == Spec => []ExecutionJournaled
<1>1. Init => JournalInv
  <2> SUFFICES ASSUME Init, NEW a \in Actions
               PROVE  IsFiniteSet(executing(a)) /\ execs[a] + Cardinality(executing(a)) <= starts[a]
    BY DEF JournalInv
  <2>1. executing(a) = {} /\ execs[a] = 0 /\ starts[a] = 0
    BY DEF Init, executing, Callers
  <2> QED BY <2>1, FS_EmptySet
<1>2. IInv /\ JournalInv /\ [Next]_vars => JournalInv'
  BY JournalNext
<1>3. IInv /\ JournalInv => ExecutionJournaled
  BY FS_CardinalityType DEF IInv, TypeOK, JournalInv, ExecutionJournaled
<1> QED
  BY <1>1, <1>2, <1>3, Invariant, PTL DEF Spec

-----------------------------------------------------------------------------
(* Numbers.                                                                *)
\* A set of natural numbers has a least one.
LEMMA LeastNatural ==
  ASSUME NEW T \in SUBSET Nat, T # {}
  PROVE  \E x \in T : \A y \in T : ~(y < x)
<1> DEFINE R == OpToRel(<, Nat)
<1>1. IsWellFoundedOn(R, Nat)
  BY NatLessThanWellFounded
<1>2. \A y, x \in Nat : y < x => <<y, x>> \in R
  BY DEF OpToRel
<1> HIDE DEF R
<1>3. \E x \in T : \A y \in T : ~(<<y, x>> \in R)
  BY <1>1, WFMin
<1> QED BY <1>2, <1>3

\* A sequence of powers of m.
Powers(m, f, n) == f = [i \in 0 .. n |-> IF i = 0 THEN 1 ELSE m * f[i - 1]]
\* There is such a sequence of any length: there is no least length without one.
LEMMA PowersExist == ASSUME NEW m \in Nat, NEW n \in Nat PROVE \E f : Powers(m, f, n)
<1> DEFINE Bad == {k \in Nat : ~\E f : Powers(m, f, k)}
<1>1. ASSUME NEW k \in Bad, \A j \in Bad : ~(j < k) PROVE FALSE
  <2>1. CASE k = 0
    <3>1. Powers(m, [i \in 0 .. 0 |-> 1], 0)
      BY DEF Powers
    <3> QED BY <2>1, <3>1
  <2>2. CASE k # 0
    <3>1. k - 1 \in Nat /\ k - 1 < k /\ (k - 1) + 1 = k
      BY <2>2
    <3>2. k - 1 \notin Bad
      BY <1>1, <3>1
    <3> DEFINE h == k - 1
    <3>3. PICK f : Powers(m, f, h)
      BY <3>1, <3>2
    <3>4. h \in Nat /\ k = h + 1
      BY <3>1
    <3> HIDE DEF h
    <3> DEFINE g == [i \in 0 .. (h + 1) |-> IF i <= h THEN f[i] ELSE m * f[h]]
    <3>5. \A i \in 0 .. h : f[i] = IF i = 0 THEN 1 ELSE m * f[i - 1]
      BY <3>3 DEF Powers
    <3>6. ASSUME NEW i \in 0 .. (h + 1) PROVE g[i] = IF i = 0 THEN 1 ELSE m * g[i - 1]
      <4>1. CASE i = 0
        <5>1. 0 \in 0 .. h /\ 0 \in 0 .. (h + 1) /\ g[0] = f[0]
          BY <3>4
        <5> QED BY <3>5, <4>1, <5>1
      <4>2. CASE i # 0 /\ i <= h
        <5>1. i \in 0 .. h /\ i - 1 \in 0 .. (h + 1) /\ i - 1 <= h
          BY <3>4, <4>2
        <5>2. g[i] = f[i] /\ g[i - 1] = f[i - 1]
          BY <4>2, <5>1
        <5> QED BY <3>5, <4>2, <5>1, <5>2
      <4>3. CASE i = h + 1
        <5>1. g[i] = m * f[h]
          BY <3>4, <4>3
        <5>2. g[h] = f[h]
          BY <3>4
        <5>3. i - 1 = h /\ i # 0
          BY <3>4, <4>3
        <5> HIDE DEF g
        <5> QED BY <5>1, <5>2, <5>3
      <4> QED BY <3>4, <4>1, <4>2, <4>3
    <3>7. g = [i \in 0 .. (h + 1) |-> g[i]]
      OBVIOUS
    <3> HIDE DEF g
    <3>8. Powers(m, g, h + 1)
      BY <3>6, <3>7 DEF Powers
    <3> QED BY <3>4, <3>8
  <2> QED BY <2>1, <2>2
<1>2. Bad \in SUBSET Nat
  OBVIOUS
<1>3. Bad = {}
  <2> HIDE DEF Bad
  <2> QED BY <1>1, <1>2, LeastNatural
<1> QED BY <1>3

\* What the powers of m are.
LEMMA PowersNatural ==
  ASSUME NEW m \in Nat, NEW n \in Nat, NEW f, Powers(m, f, n)
  PROVE  /\ \A i \in 0 .. n : f[i] \in Nat /\ (i # 0 => f[i] = m * f[i - 1])
<1>1. \A i \in 0 .. n : f[i] = IF i = 0 THEN 1 ELSE m * f[i - 1]
  BY DEF Powers
<1> DEFINE Bad == {k \in 0 .. n : f[k] \notin Nat}
<1>2. ASSUME NEW k \in Bad, \A j \in Bad : ~(j < k) PROVE FALSE
  <2>1. k # 0
    BY <1>1
  <2>2. k - 1 \in 0 .. n /\ k - 1 < k
    BY <2>1
  <2>3. f[k - 1] \in Nat
    BY <1>2, <2>2
  <2>4. f[k] = m * f[k - 1]
    BY <1>1, <2>1
  <2>5. f[k] \in Nat
    <3> HIDE DEF Bad
    <3> QED BY <2>3, <2>4
  <2> QED BY <2>5
<1>3. Bad \in SUBSET Nat
  OBVIOUS
<1>4. Bad = {}
  <2> HIDE DEF Bad
  <2> QED BY <1>2, <1>3, LeastNatural
<1> QED BY <1>1, <1>4

-----------------------------------------------------------------------------
(* RunRecords: the journal, the action store and the retry policy.         *)
\* The data of the journal: its events, and what a caller has still to write.
Event == [id : 1 .. MaxEvents, run : Runs, kind : Kinds]
\* What a caller of the journal has still to write.
EventCall == [pc : {"idle"}] \cup [pc : {"text", "newline"}, event : Event]
\* Event e is one of q.
Among(e, q) == \E i \in 1 .. Len(q) : q[i] = e

\* The ids of the events of q grow.
Ordered(q) == \A i, j \in 1 .. Len(q) : i < j => q[i].id < q[j].id

\* The journal and the calls on it are of the types of the code.
JournalTypes ==
  /\ journal \in [memory : Seq(Event), lines : Seq(Event), unterminated : BOOLEAN, broken : BOOLEAN, open : BOOLEAN,
                  acked : SUBSET Event]
  /\ appends \in [Writers -> EventCall]

\* What is acknowledged is in the file and, while the journal is open, in memory; what is on its way is in memory.
EventsInv ==
  /\ JournalTypes
  /\ Ordered(journal.memory)
  /\ \A e \in journal.acked : Among(e, journal.lines)
  /\ journal.open => \A e \in journal.acked : Among(e, journal.memory)
  /\ \A p \in Writers : appends[p].pc # "idle" => journal.open /\ Among(appends[p].event, journal.memory)
  /\ \A p \in Writers : appends[p].pc = "newline" => Among(appends[p].event, journal.lines)

\* Events of which each is after the one before it are in the order of their ids.
LEMMA InOrder == ASSUME MaxEvents \in Nat, NEW q \in Seq(Event), Records!increasing(q) PROVE Ordered(q)
<1>1. \A i \in 1 .. Len(q) : q[i].id \in Nat
  <2>1. \A i \in 1 .. Len(q) : q[i] \in Event
    OBVIOUS
  <2> QED BY <2>1 DEF Event
<1>2. ASSUME NEW i \in 1 .. Len(q) PROVE \A j \in 1 .. Len(q) : i < j => q[i].id < q[j].id
  <2> DEFINE Bad == {j \in 1 .. Len(q) : i < j /\ ~(q[i].id < q[j].id)}
  <2>1. ASSUME NEW j \in Bad, \A k \in Bad : ~(k < j) PROVE FALSE
    <3>1. j - 1 \in 1 .. Len(q) - 1 /\ j - 1 \in 1 .. Len(q) /\ (j - 1) + 1 = j /\ j - 1 < j
      OBVIOUS
    <3>2. q[j - 1].id < q[j].id
      BY <3>1 DEF Records!increasing
    <3>3. i = j - 1 \/ q[i].id < q[j - 1].id
      BY <2>1, <3>1
    <3> QED BY <1>1, <3>1, <3>2, <3>3
  <2>2. Bad \in SUBSET Nat
    OBVIOUS
  <2>3. Bad = {}
    <3> HIDE DEF Bad
    <3> QED BY <2>1, <2>2, LeastNatural
  <2> QED BY <2>3
<1> QED BY <1>2 DEF Ordered

\* Appending keeps what is there.
LEMMA Appended ==
  ASSUME NEW q \in Seq(Event), NEW e \in Event
  PROVE  /\ Append(q, e) \in Seq(Event) /\ Among(e, Append(q, e))
         /\ \A f : Among(f, q) => Among(f, Append(q, e))
<1>1. /\ Append(q, e) \in Seq(Event) /\ Len(Append(q, e)) = Len(q) + 1 /\ Len(q) \in Nat
      /\ Append(q, e)[Len(q) + 1] = e
      /\ \A i \in 1 .. Len(q) : Append(q, e)[i] = q[i]
  OBVIOUS
<1>2. \A i \in 1 .. Len(q) : i \in 1 .. Len(q) + 1
  OBVIOUS
<1> HIDE DEF Event
<1> QED BY <1>1, <1>2 DEF Among

\* The journal is empty at first.
LEMMA JournalStart == ASSUME Records!Init PROVE EventsInv
BY DEF Records!Init, EventsInv, JournalTypes, EventCall, Records!all_idle, Records!Idle, Ordered, Among

\* An event is accepted after the last one in memory.
LEMMA JournalAppends ==
  ASSUME EventsInv, MaxEvents \in Nat, NEW p \in Writers, Records!append_run_event(p) PROVE EventsInv'
<1>0. JournalTypes /\ journal.memory \in Seq(Event)
  BY DEF EventsInv, JournalTypes
<1>1. PICK run \in Runs, kind \in Kinds, id \in 1 .. MaxEvents :
        LET event == [id |-> id, run |-> run, kind |-> kind] IN
        /\ Records!accepts_id(journal.memory, id)
        /\ journal' = [journal EXCEPT !.memory = Append(journal.memory, event)]
        /\ Records!to(p, [pc |-> "text", event |-> event])
  BY DEF Records!append_run_event
<1> DEFINE event == [id |-> id, run |-> run, kind |-> kind]
           mine == [pc |-> "text", event |-> event]
<1>2. event \in Event /\ mine \in EventCall
  BY DEF Event, EventCall
<1>3. journal.open /\ appends[p].pc = "idle"
  BY DEF Records!append_run_event
<1>4. /\ journal'.memory = Append(journal.memory, event) /\ journal'.lines = journal.lines
      /\ journal'.open = journal.open /\ journal'.acked = journal.acked
  BY <1>0, <1>1 DEF JournalTypes
<1>5. appends' = [appends EXCEPT ![p] = mine]
  BY <1>1 DEF Records!to
<1>6. \A q \in Writers : appends'[q] = IF q = p THEN mine ELSE appends[q]
  BY <1>0, <1>5 DEF JournalTypes
<1>7. mine.pc = "text" /\ mine.event = event /\ event.id = id
  OBVIOUS
<1>8. Records!accepts_id(journal.memory, id)
  BY <1>1
<1>11. journal' = [journal EXCEPT !.memory = Append(journal.memory, event)]
  BY <1>1
<1> HIDE DEF event, mine
<1>9. JournalTypes'
  BY <1>0, <1>11, <1>2, <1>5, Appended DEF JournalTypes
<1>10. Ordered(journal'.memory)
  <2> DEFINE q == journal.memory
  <2>1. /\ Len(Append(q, event)) = Len(q) + 1 /\ Len(q) \in Nat
        /\ Append(q, event)[Len(q) + 1] = event
        /\ \A i \in 1 .. Len(q) : Append(q, event)[i] = q[i] /\ q[i].id \in Nat
    <3>1. \A i \in 1 .. Len(q) : q[i] \in Event
      BY <1>0
    <3>2. \A i \in 1 .. Len(q) : q[i].id \in Nat
      BY <3>1 DEF Event
    <3> QED BY <1>0, <1>2, <3>2
  <2>2. Len(q) > 0 => id > q[Len(q)].id
    BY <1>0, <1>8 DEF Records!accepts_id, Records!Last
  <2>3. \A i, j \in 1 .. Len(q) : i < j => q[i].id < q[j].id
    BY DEF EventsInv, Ordered
  <2> HIDE DEF q
  <2>4. ASSUME NEW i \in 1 .. Len(q) PROVE q[i].id < id
    <3>1. i = Len(q) \/ i < Len(q)
      BY <2>1
    <3>2. Len(q) > 0 /\ Len(q) \in 1 .. Len(q)
      BY <2>1
    <3> QED BY <2>1, <2>2, <2>3, <3>1, <3>2
  <2>5. journal'.memory = Append(q, event)
    BY <1>4 DEF q
  <2>6. ASSUME NEW i \in 1 .. Len(q) + 1, NEW j \in 1 .. Len(q) + 1, i < j
        PROVE  Append(q, event)[i].id < Append(q, event)[j].id
    <3>1. i \in 1 .. Len(q) /\ (j \in 1 .. Len(q) \/ j = Len(q) + 1)
      BY <2>1, <2>6
    <3> QED BY <1>7, <2>1, <2>3, <2>4, <2>6, <3>1
  <2> QED BY <2>1, <2>5, <2>6 DEF Ordered
<1> QED BY <1>0, <1>2, <1>3, <1>4, <1>6, <1>7, <1>9, <1>10, Appended DEF EventsInv

\* An event goes to the file as text and newline, or its caller has an error.
LEMMA JournalWrites ==
  ASSUME EventsInv, NEW p \in Writers, Records!write_event(p) \/ Records!end_event(p) \/ Records!event_fails(p)
  PROVE  EventsInv'
<1>0. JournalTypes /\ journal.lines \in Seq(Event) /\ appends[p] \in EventCall
  BY DEF EventsInv, JournalTypes
<1>1. appends[p].pc \in {"text", "newline"}
  BY DEF Records!write_event, Records!end_event, Records!event_fails
<1> DEFINE e == appends[p].event
<1>2. e \in Event /\ journal.open /\ Among(e, journal.memory)
  BY <1>0, <1>1 DEF EventsInv, EventCall
<1>3. CASE Records!write_event(p)
  <2> DEFINE mine == [pc |-> "newline", event |-> e]
  <2>1. /\ journal' = [journal EXCEPT !.lines = Append(journal.lines, e), !.unterminated = TRUE,
                                      !.broken = journal.broken \/ journal.unterminated]
        /\ appends' = [appends EXCEPT ![p] = mine]
    BY <1>3 DEF Records!write_event, Records!to
  <2>2. /\ journal'.memory = journal.memory /\ journal'.lines = Append(journal.lines, e)
        /\ journal'.open = journal.open /\ journal'.acked = journal.acked
    BY <1>0, <2>1 DEF JournalTypes
  <2>3. mine \in EventCall /\ mine.pc = "newline" /\ mine.event = e
    BY <1>2 DEF EventCall
  <2>4. \A q \in Writers : appends'[q] = IF q = p THEN mine ELSE appends[q]
    BY <1>0, <2>1 DEF JournalTypes
  <2> HIDE DEF mine, e
  <2>5. Append(journal.lines, e) \in Seq(Event)
    BY <1>0, <1>2, Appended
  <2>6. JournalTypes'
    BY <1>0, <2>1, <2>3, <2>5 DEF JournalTypes
  <2> QED BY <1>0, <1>2, <2>2, <2>3, <2>4, <2>6, Appended DEF EventsInv
<1>4. CASE Records!end_event(p)
  <2>1. /\ journal' = [journal EXCEPT !.unterminated = FALSE, !.acked = journal.acked \cup {e}]
        /\ appends' = [appends EXCEPT ![p] = Records!Idle] /\ appends[p].pc = "newline"
    BY <1>4 DEF Records!end_event, Records!to
  <2>2. /\ journal'.memory = journal.memory /\ journal'.lines = journal.lines
        /\ journal'.open = journal.open /\ journal'.acked = journal.acked \cup {e}
    BY <1>0, <2>1 DEF JournalTypes
  <2>3. Records!Idle \in EventCall /\ Records!Idle.pc = "idle"
    BY DEF EventCall, Records!Idle
  <2>4. \A q \in Writers : appends'[q] = IF q = p THEN Records!Idle ELSE appends[q]
    BY <1>0, <2>1 DEF JournalTypes
  <2>5. Among(e, journal.lines)
    BY <2>1 DEF EventsInv
  <2> HIDE DEF e
  <2>6. JournalTypes'
    BY <1>0, <1>2, <2>1, <2>3 DEF JournalTypes
  <2> QED BY <1>2, <2>2, <2>3, <2>4, <2>5, <2>6 DEF EventsInv
<1>5. CASE Records!event_fails(p)
  <2>1. appends' = [appends EXCEPT ![p] = Records!Idle] /\ UNCHANGED journal
    BY <1>5 DEF Records!event_fails, Records!to
  <2>3. Records!Idle \in EventCall /\ Records!Idle.pc = "idle"
    BY DEF EventCall, Records!Idle
  <2>4. \A q \in Writers : appends'[q] = IF q = p THEN Records!Idle ELSE appends[q]
    BY <1>0, <2>1 DEF JournalTypes
  <2>6. JournalTypes'
    BY <1>0, <2>1, <2>3 DEF JournalTypes
  <2> QED BY <2>1, <2>3, <2>4, <2>6 DEF EventsInv
<1> QED BY <1>3, <1>4, <1>5

\* The end of the host loses the memory, and the file keeps its lines.
LEMMA JournalCrash == ASSUME EventsInv, Records!crash_journal PROVE EventsInv'
<1>1. PICK torn \in BOOLEAN :
        journal' = [journal EXCEPT !.open = FALSE, !.memory = <<>>, !.broken = journal.broken \/ torn]
  BY DEF Records!crash_journal
<1>2. JournalTypes /\ appends' = [p \in Writers |-> Records!Idle] /\ Records!Idle \in EventCall
        /\ Records!Idle.pc = "idle"
  BY DEF Records!crash_journal, Records!all_idle, Records!Idle, EventCall, EventsInv
<1>3. /\ journal'.memory = <<>> /\ journal'.lines = journal.lines
      /\ journal'.open = FALSE /\ journal'.acked = journal.acked
  BY <1>1, <1>2 DEF JournalTypes
<1>4. \A q \in Writers : appends'[q].pc = "idle"
  BY <1>2
<1>5. JournalTypes'
  <2> DEFINE empty == <<>>
             broken == journal.broken \/ torn
  <2>1. empty \in Seq(Event) /\ broken \in BOOLEAN
    BY <1>2 DEF JournalTypes
  <2>2. journal' = [journal EXCEPT !.open = FALSE, !.memory = empty, !.broken = broken]
    BY <1>1
  <2>3. appends' \in [Writers -> EventCall]
    BY <1>2
  <2> HIDE DEF empty, broken
  <2> QED BY <1>2, <2>1, <2>2, <2>3 DEF JournalTypes
<1>6. Ordered(journal'.memory)
  BY <1>3 DEF Ordered
<1> QED BY <1>3, <1>4, <1>5, <1>6 DEF EventsInv

\* Opening reads the lines back when their ids are in order.
LEMMA JournalOpens == ASSUME EventsInv, MaxEvents \in Nat, Records!open_journal PROVE EventsInv'
<1>1. /\ journal' = [journal EXCEPT !.open = TRUE, !.memory = journal.lines] /\ UNCHANGED appends
      /\ ~journal.open /\ Records!increasing(journal.lines)
  BY DEF Records!open_journal
<1>2. JournalTypes /\ journal.lines \in Seq(Event)
  BY DEF EventsInv, JournalTypes
<1>3. /\ journal'.memory = journal.lines /\ journal'.lines = journal.lines
      /\ journal'.open = TRUE /\ journal'.acked = journal.acked
  BY <1>1, <1>2 DEF JournalTypes
<1>5. JournalTypes'
  <2> DEFINE l == journal.lines
  <2>1. l \in Seq(Event) /\ journal' = [journal EXCEPT !.open = TRUE, !.memory = l]
    BY <1>1, <1>2
  <2> HIDE DEF l
  <2> QED BY <1>1, <1>2, <2>1 DEF JournalTypes
<1>6. Ordered(journal.lines)
  BY <1>1, <1>2, InOrder
<1> QED BY <1>1, <1>3, <1>5, <1>6 DEF EventsInv

\* Every step of the journal keeps its invariant.
LEMMA JournalStep == ASSUME MaxEvents \in Nat, EventsInv, [Records!JournalNext]_(Records!zvars) PROVE EventsInv'
<1>1. CASE UNCHANGED Records!zvars
  BY <1>1 DEF Records!zvars, EventsInv, JournalTypes
<1>2. CASE Records!JournalNext
  BY <1>2, JournalAppends, JournalWrites, JournalCrash, JournalOpens DEF Records!JournalNext
<1> QED BY <1>1, <1>2

\* A set of positions has a last one.
LEMMA Greatest ==
  ASSUME NEW n \in Nat, NEW T \in SUBSET (1 .. n), T # {}
  PROVE  Records!Max(T) \in T /\ \A y \in T : Records!Max(T) >= y
<1> DEFINE U == {n - t : t \in T}
<1>1. U \in SUBSET Nat /\ U # {}
  <2>1. \A t \in T : t \in 1 .. n
    OBVIOUS
  <2>2. \A t \in 1 .. n : n - t \in Nat
    OBVIOUS
  <2> QED BY <2>1, <2>2
<1>2. PICK x \in U : \A y \in U : ~(y < x)
  <2> HIDE DEF U
  <2> QED BY <1>1, LeastNatural
<1>3. PICK t \in T : x = n - t
  OBVIOUS
<1>4. ASSUME NEW y \in T PROVE t >= y
  <2>1. n - y \in U
    OBVIOUS
  <2>2. ~(n - y < n - t)
    BY <1>2, <1>3, <2>1
  <2>3. t \in 1 .. n /\ y \in 1 .. n
    OBVIOUS
  <2> QED BY <2>2, <2>3
<1> QED BY <1>4 DEF Records!Max

\* The invariant has what the property states: the last event of a run in file order is also the one with the
\* greatest id, so that an acknowledged end is the last or has one after it.
LEMMA JournalMeans == ASSUME MaxEvents \in Nat, EventsInv PROVE Records!JournalSound
<1> DEFINE q == journal.memory
<1>1. q \in Seq(Event) /\ Len(q) \in Nat /\ DOMAIN q = 1 .. Len(q)
  BY DEF EventsInv, JournalTypes
<1>2. \A f : Among(f, q) => f \in Records!ToSet(q)
  BY <1>1 DEF Among, Records!ToSet
<1>3. \A i, j \in 1 .. Len(q) : i < j => q[i].id < q[j].id
  BY DEF EventsInv, Ordered
<1>4. journal.open => \A e \in journal.acked : Among(e, q)
  BY DEF EventsInv
<1>5. ASSUME NEW run \in DOMAIN Records!build_recovery_report(q)
      PROVE  \E m \in 1 .. Len(q) :
               /\ q[m].run = run /\ \A i \in 1 .. Len(q) : q[i].run = run => i <= m
               /\ q[m].kind \notin Records!Terminal
               /\ Records!build_recovery_report(q)[run] = Records!recommended_action(q[m].kind)
  <2> DEFINE T == {i \in 1 .. Len(q) : q[i].run = run}
  <2>1. run \in Runs /\ Records!latest(q, run) \notin Records!Terminal \cup {Records!None}
        /\ Records!build_recovery_report(q)[run] = Records!recommended_action(Records!latest(q, run))
    BY DEF Records!build_recovery_report
  <2>2. Records!latest(q, run) = IF T = {} THEN Records!None ELSE q[Records!Max(T)].kind
    BY <1>1 DEF Records!latest
  <2>3. T # {} /\ Records!latest(q, run) = q[Records!Max(T)].kind
    BY <2>1, <2>2
  <2>4. T \in SUBSET (1 .. Len(q))
    OBVIOUS
  <2>5. Records!Max(T) \in T /\ \A y \in T : Records!Max(T) >= y
    <3> HIDE DEF T
    <3> QED BY <1>1, <2>3, <2>4, Greatest
  <2>6. Records!Max(T) \in 1 .. Len(q) /\ q[Records!Max(T)].run = run /\ \A i \in 1 .. Len(q) : q[i].run = run
          => i <= Records!Max(T)
    <3>1. \A y \in T : y <= Records!Max(T)
      <4> HIDE DEF q
      <4> QED BY <1>1, <2>5
    <3> QED BY <2>5, <3>1
  <2> HIDE DEF T, q
  <2>7. q[Records!Max(T)].kind \notin Records!Terminal
    BY <2>1, <2>3
  <2> QED BY <2>1, <2>3, <2>6, <2>7
<1> HIDE DEF q
<1>6. ASSUME journal.open, NEW run \in DOMAIN Records!build_recovery_report(q), NEW e \in journal.acked, e.run = run,
          e.kind \in Records!Terminal
      PROVE  \E f \in Records!ToSet(q) : f.run = run /\ f.id > e.id
  <2>1. PICK m \in 1 .. Len(q) :
               /\ q[m].run = run /\ \A i \in 1 .. Len(q) : q[i].run = run => i <= m
               /\ q[m].kind \notin Records!Terminal
    BY <1>5
  <2>2. PICK i \in 1 .. Len(q) : q[i] = e
    BY <1>4, <1>6 DEF Among
  <2>3. i <= m /\ i # m
    BY <1>6, <2>1, <2>2
  <2>4. q[i].id < q[m].id
    BY <1>1, <1>3, <2>3
  <2>5. q[m] \in Records!ToSet(q)
    BY <1>1 DEF Records!ToSet
  <2>6. q[i] \in Event /\ q[m] \in Event
    BY <1>1
  <2>7. q[m].id > e.id
    BY <2>2, <2>4, <2>6 DEF Event
  <2> QED BY <2>1, <2>5, <2>7
<1>7. ASSUME NEW run \in DOMAIN Records!build_recovery_report(q), Records!started_unanswered(run, q)
      PROVE  Records!build_recovery_report(q)[run] = "NeedsInspection"
  <2>1. PICK m \in 1 .. Len(q) :
               /\ q[m].run = run /\ \A i \in 1 .. Len(q) : q[i].run = run => i <= m
               /\ Records!build_recovery_report(q)[run] = Records!recommended_action(q[m].kind)
    BY <1>5
  <2>2. PICK i \in 1 .. Len(q) : /\ q[i].run = run /\ q[i].kind = "ToolCallStarted"
                                 /\ \A k \in i + 1 .. Len(q) : q[k].run # run
    BY <1>1, <1>7 DEF Records!started_unanswered
  <2>3. m = i
    <3>1. i <= m
      BY <2>1, <2>2
    <3>2. i < m => m \in i + 1 .. Len(q)
      BY <1>1
    <3> QED BY <1>1, <2>1, <2>2, <3>1, <3>2
  <2>4. Records!recommended_action("ToolCallStarted") = "NeedsInspection"
    BY DEF Records!recommended_action, Records!Terminal
  <2> QED BY <2>1, <2>2, <2>3, <2>4
<1>8. journal.open => journal.acked \subseteq Records!ToSet(q)
  BY <1>2, <1>4
<1> QED BY <1>6, <1>7, <1>8 DEF Records!JournalSound, q

\* The data of the action store: records, and the calls that read and write them.
Record == Outcomes \cup {"Pending", Records!None}
\* No outcome has the name of a record without one.
OutcomesApart == Outcomes \cap {"Pending", Records!None} = {}
\* What a caller of the store has read or has still to write.
RecordCall == [pc : {"idle"}] \cup [pc : {"existing", "record", "newline"}, id : Ids, record : Record, outcome : Record]

\* The store and the calls on it are of the types of the code.
RecordTypes ==
  /\ records \in [memory : [Ids -> Record], file : Records!FileType(Ids, Record), open : BOOLEAN,
                  acked : [Ids -> SUBSET Record], crossed : SUBSET Ids]
  /\ appends \in [Writers -> RecordCall]

\* Caller p is between its change of the record in memory and the end of its write.
Writes(p, id) == appends[p].pc \in {"record", "newline"} /\ appends[p].id = id

\* Of a record whose writes did not cross: one caller at most writes it, and writes what is in memory; without
\* one the file has what is in memory; the file has every outcome that was acknowledged.
RecordOk(id) ==
  /\ \A p, q \in Writers : Writes(p, id) /\ Writes(q, id) => p = q
  /\ \A p \in Writers : Writes(p, id) =>
        /\ appends[p].record = records.memory[id] /\ appends[p].record # Records!None
             /\ appends[p].outcome = appends[p].record
        /\ \A o \in records.acked[id] \ {"Pending"} : o = appends[p].record
        /\ appends[p].pc = "newline" => records.file.last[id] = appends[p].record
  /\ records.open /\ (\A p \in Writers : ~Writes(p, id)) => records.file.last[id] = records.memory[id]
  /\ \A o \in records.acked[id] \ {"Pending"} : records.file.last[id] = o
  /\ records.acked[id] # {} => records.file.last[id] # Records!None

\* A record that was read before is as it was or has an outcome since.
ReadInv ==
  \A p \in Writers : appends[p].pc = "existing" =>
     /\ appends[p].outcome \in Outcomes /\ appends[p].record # Records!None
          /\ records.memory[appends[p].id] # Records!None
     /\ appends[p].record \in {"Pending", records.memory[appends[p].id]}

\* The invariant of the action store.
RecordsInv ==
  /\ RecordTypes
  /\ \A p \in Writers : appends[p].pc # "idle" => records.open
  /\ ReadInv
  /\ \A id \in Ids \ records.crossed : RecordOk(id)

\* The store is empty at first.
LEMMA RecordsStart == ASSUME Records!Init PROVE RecordsInv
<1>1. /\ records = [memory |-> [id \in Ids |-> Records!None], file |-> Records!EmptyFile(Ids, Records!None),
             open |-> TRUE,
                    acked |-> [id \in Ids |-> {}], crossed |-> {}]
      /\ appends = [p \in Writers |-> Records!Idle] /\ Records!Idle \in RecordCall /\ Records!Idle.pc = "idle"
  BY DEF Records!Init, Records!all_idle, Records!Idle, RecordCall
<1>2. Records!EmptyFile(Ids, Records!None) \in Records!FileType(Ids, Record)
        /\ Records!EmptyFile(Ids, Records!None).last = [id \in Ids |-> Records!None]
  BY DEF Records!EmptyFile, Records!FileType, Record
<1>3. /\ records.memory = [id \in Ids |-> Records!None] /\ records.file = Records!EmptyFile(Ids, Records!None)
      /\ records.acked = [id \in Ids |-> {}] /\ records.crossed = {}
  BY <1>1
<1>4. RecordTypes
  BY <1>1, <1>2 DEF RecordTypes, Record
<1>5. \A p \in Writers : appends[p].pc = "idle"
  BY <1>1
<1> QED BY <1>2, <1>3, <1>4, <1>5 DEF RecordsInv, ReadInv, RecordOk, Writes

\* The fields of the store, and what a call holds.
LEMMA RecordFields ==
  ASSUME RecordTypes
  PROVE  /\ records.memory \in [Ids -> Record] /\ records.file \in Records!FileType(Ids, Record)
    /\ records.open \in BOOLEAN
         /\ records.acked \in [Ids -> SUBSET Record] /\ records.crossed \in SUBSET Ids
         /\ records.file.last \in [Ids -> Record]
         /\ \A p \in Writers : appends[p].pc # "idle" =>
               /\ appends[p] \in [pc : {"existing", "record", "newline"}, id : Ids, record : Record, outcome : Record]
               /\ appends[p].id \in Ids /\ appends[p].record \in Record /\ appends[p].outcome \in Record
<1>1. /\ records.memory \in [Ids -> Record] /\ records.file \in Records!FileType(Ids, Record) /\ records.open \in BOOLEAN
      /\ records.acked \in [Ids -> SUBSET Record] /\ records.crossed \in SUBSET Ids
  BY DEF RecordTypes
<1>2. records.file.last \in [Ids -> Record]
  BY <1>1 DEF Records!FileType
<1>3. \A p \in Writers : appends[p] \in RecordCall
  BY DEF RecordTypes
<1> QED BY <1>1, <1>2, <1>3 DEF RecordCall

\* A step of one caller that keeps the file and the acknowledgements, and leaves every record but one.
LEMMA RecordsInsert ==
  ASSUME RecordsInv, OutcomesApart, NEW p \in Writers, Records!insert_request(p)
  PROVE  RecordsInv'
<1>0. RecordTypes
  BY DEF RecordsInv
<1>1. PICK id \in Ids :
         /\ records.memory[id] = Records!None
         /\ records' = [records EXCEPT !.memory[id] = "Pending"]
         /\ Records!to(p, [pc |-> "record", id |-> id, record |-> "Pending", outcome |-> "Pending"])
  BY DEF Records!insert_request
<1> DEFINE mine == [pc |-> "record", id |-> id, record |-> "Pending", outcome |-> "Pending"]
<1>2. /\ mine \in RecordCall /\ mine.pc = "record" /\ mine.id = id /\ mine.record = "Pending" /\ mine.outcome = "Pending"
  BY DEF RecordCall, Record
<1>3. appends' = [appends EXCEPT ![p] = mine] /\ appends[p].pc = "idle" /\ records.open
  BY <1>1 DEF Records!to, Records!insert_request
<1> HIDE DEF mine
<1>4. \A q \in Writers : appends'[q] = IF q = p THEN mine ELSE appends[q]
  BY <1>0, <1>3 DEF RecordTypes
<1>5. records' = [records EXCEPT !.memory = [records.memory EXCEPT ![id] = "Pending"]]
  BY <1>1
<1>6. /\ records'.file = records.file /\ records'.open = records.open /\ records'.acked = records.acked
      /\ records'.crossed = records.crossed /\ records'.memory = [records.memory EXCEPT ![id] = "Pending"]
  BY <1>0, <1>5 DEF RecordTypes
<1>7. \A d \in Ids : records'.memory[d] = IF d = id THEN "Pending" ELSE records.memory[d]
  BY <1>0, <1>6, RecordFields
<1>8. RecordTypes'
  BY <1>0, <1>2, <1>3, <1>5, RecordFields DEF RecordTypes, Record
<1>9. ReadInv'
  BY <1>0, <1>1, <1>2, <1>4, <1>7, RecordFields DEF RecordsInv, ReadInv
<1>10. \A q \in Writers, d \in Ids : Writes(q, d)' <=> (IF q = p THEN d = id ELSE Writes(q, d))
  BY <1>2, <1>4 DEF Writes
<1>11. \A d \in Ids : ~Writes(p, d)
  BY <1>3 DEF Writes
<1>12. ASSUME NEW d \in Ids \ records'.crossed PROVE RecordOk(d)'
  <2>1. RecordOk(d)
    BY <1>6, <1>12 DEF RecordsInv
  <2>2. CASE d # id
    BY <1>4, <1>6, <1>7, <1>10, <1>11, <2>1, <2>2 DEF RecordOk
  <2>3. CASE d = id
    <3>1. \A q \in Writers : ~Writes(q, id)
      BY <1>1, <2>1, <2>3 DEF RecordOk
    <3>2. records.file.last[id] = Records!None /\ records.acked[id] = {}
      BY <1>1, <1>3, <2>1, <2>3, <3>1 DEF RecordOk
    <3>3. \A q \in Writers : Writes(q, id)' => q = p
      BY <1>10, <3>1
    <3> QED BY <1>2, <1>4, <1>6, <1>7, <1>10, <2>3, <3>2, <3>3 DEF RecordOk, Records!None
  <2> QED BY <2>2, <2>3
<1> QED BY <1>2, <1>3, <1>4, <1>6, <1>8, <1>9, <1>12 DEF RecordsInv

\* A call that has read a record will record an outcome for it.
LEMMA RecordsRead == ASSUME RecordsInv, OutcomesApart, NEW p \in Writers, Records!read_existing(p) PROVE RecordsInv'
<1>0. RecordTypes
  BY DEF RecordsInv
<1>1. PICK id \in Ids, outcome \in Outcomes :
         /\ records.memory[id] # Records!None
         /\ Records!to(p, [pc |-> "existing", id |-> id, record |-> records.memory[id], outcome |-> outcome])
  BY DEF Records!read_existing
<1> DEFINE mine == [pc |-> "existing", id |-> id, record |-> records.memory[id], outcome |-> outcome]
<1>2. records.memory[id] \in Record
  BY <1>0, RecordFields
<1>3. /\ mine \in RecordCall /\ mine.pc = "existing" /\ mine.id = id /\ mine.record = records.memory[id]
           /\ mine.outcome = outcome
  BY <1>2 DEF RecordCall, Record
<1>4. appends' = [appends EXCEPT ![p] = mine] /\ appends[p].pc = "idle" /\ records.open /\ UNCHANGED records
  BY <1>1 DEF Records!to, Records!read_existing
<1> HIDE DEF mine
<1>5. \A q \in Writers : appends'[q] = IF q = p THEN mine ELSE appends[q]
  BY <1>0, <1>4 DEF RecordTypes
<1>6. RecordTypes'
  BY <1>0, <1>3, <1>4 DEF RecordTypes
<1>7. ReadInv'
  BY <1>1, <1>3, <1>4, <1>5 DEF RecordsInv, ReadInv
<1>8. \A q \in Writers, d \in Ids : Writes(q, d)' <=> Writes(q, d)
  BY <1>3, <1>4, <1>5 DEF Writes
<1>9. ASSUME NEW d \in Ids \ records.crossed PROVE RecordOk(d)'
  <2>1. RecordOk(d)
    BY <1>9 DEF RecordsInv
  <2>2. \A q \in Writers : Writes(q, d) => appends'[q] = appends[q]
    BY <1>4, <1>5 DEF Writes
  <2> QED BY <1>4, <1>8, <2>1, <2>2 DEF RecordOk
<1> QED BY <1>4, <1>5, <1>6, <1>7, <1>9 DEF RecordsInv

\* An outcome is recorded once; the same one again is acknowledged if the record had it when it was read.
LEMMA RecordsOutcome ==
  ASSUME RecordsInv, OutcomesApart, NEW p \in Writers, Records!record_outcome(p)
  PROVE  RecordsInv'
<1>0. RecordTypes
  BY DEF RecordsInv
<1> DEFINE id == appends[p].id
           outcome == appends[p].outcome
           record == Records!apply_outcome(records.memory[id], outcome)
           done == appends[p].record = record
<1>1. /\ appends[p].pc = "existing" /\ id \in Ids /\ outcome \in Outcomes /\ records.memory[id] \in Record
      /\ appends[p].record # Records!None /\ records.memory[id] # Records!None
           /\ appends[p].record \in {"Pending", records.memory[id]}
      /\ records.open /\ outcome \in Record /\ outcome # "Pending" /\ outcome # Records!None
      /\ appends[p] \in [pc : {"existing", "record", "newline"}, id : Ids, record : Record, outcome : Record]
  BY <1>0, RecordFields DEF Records!record_outcome, RecordsInv, ReadInv, OutcomesApart
<1>2. Records!Idle \in RecordCall /\ Records!Idle.pc = "idle"
  BY DEF RecordCall, Records!Idle
<1>3. CASE record # outcome
  <2>1. appends' = [appends EXCEPT ![p] = Records!Idle] /\ UNCHANGED records
    BY <1>3 DEF Records!record_outcome, Records!to
  <2>2. \A q \in Writers : appends'[q] = IF q = p THEN Records!Idle ELSE appends[q]
    BY <1>0, <2>1 DEF RecordTypes
  <2>3. RecordTypes'
    BY <1>0, <1>2, <2>1 DEF RecordTypes
  <2>4. ReadInv'
    BY <1>2, <2>1, <2>2 DEF RecordsInv, ReadInv
  <2>5. \A q \in Writers, d \in Ids : Writes(q, d)' <=> Writes(q, d)
    BY <1>1, <1>2, <2>2 DEF Writes
  <2>6. ASSUME NEW d \in Ids \ records.crossed PROVE RecordOk(d)'
    <3>1. RecordOk(d)
      BY <2>6 DEF RecordsInv
    <3>2. \A q \in Writers : Writes(q, d) => appends'[q] = appends[q]
      BY <1>1, <2>2 DEF Writes
    <3> QED BY <2>1, <2>5, <3>1, <3>2 DEF RecordOk
  <2> QED BY <1>2, <2>1, <2>2, <2>3, <2>4, <2>6 DEF RecordsInv
<1>4. CASE record = outcome
  <2> DEFINE mine == IF done THEN Records!Idle ELSE [appends[p] EXCEPT !.pc = "record", !.record = record]
             acked == [records.acked EXCEPT ![id] = IF done THEN records.acked[id] \cup {record} ELSE records.acked[id]]
             crossed == IF Records!writing(id) # {} THEN records.crossed \cup {id} ELSE records.crossed
             memory == [records.memory EXCEPT ![id] = record]
  <2>1. appends' = [appends EXCEPT ![p] = mine]
    BY <1>4 DEF Records!record_outcome, Records!to
  <2>2. records' = [records EXCEPT !.memory = memory, !.acked = acked, !.crossed = crossed]
    BY <1>4 DEF Records!record_outcome
  <2>3. records.memory[id] = "Pending" \/ records.memory[id] = outcome
    BY <1>4 DEF Records!apply_outcome
  <2>4. done => records.memory[id] = outcome
    BY <1>1, <1>4, <2>3
  <2>5. /\ mine \in RecordCall
        /\ done => mine.pc = "idle"
        /\ ~done => mine.pc = "record" /\ mine.id = id /\ mine.record = outcome /\ mine.outcome = outcome
    <3>1. ~done => mine = [appends[p] EXCEPT !.pc = "record", !.record = outcome]
      BY <1>4
    <3>2. done => mine = Records!Idle
      OBVIOUS
    <3> HIDE DEF mine, done
    <3>3. CASE done
      BY <1>2, <3>2, <3>3
    <3>4. CASE ~done
      BY <1>1, <3>1, <3>4 DEF RecordCall
    <3> QED BY <3>3, <3>4
  <2>6. record = outcome
    BY <1>4
  <2>7. acked \in [Ids -> SUBSET Record] /\ crossed \in SUBSET Ids /\ memory \in [Ids -> Record]
    <3> HIDE DEF record, done, id
    <3> QED BY <1>0, <1>1, <2>6, RecordFields
  <2>8. /\ \A d \in Ids : memory[d] = IF d = id THEN outcome ELSE records.memory[d]
        /\ \A d \in Ids : d # id => acked[d] = records.acked[d]
        /\ acked[id] = IF done THEN records.acked[id] \cup {outcome} ELSE records.acked[id]
    <3> HIDE DEF record, done, id
    <3> QED BY <1>0, <1>1, <2>6, RecordFields
  <2>9. records.crossed \subseteq crossed /\ (id \notin crossed => Records!writing(id) = {})
    BY DEF crossed
  <2> HIDE DEF mine, memory, acked, crossed, record, done
  <2>10. \A q \in Writers : appends'[q] = IF q = p THEN mine ELSE appends[q]
    BY <1>0, <2>1 DEF RecordTypes
  <2>11. /\ records'.file = records.file /\ records'.open = records.open /\ records'.acked = acked
         /\ records'.crossed = crossed /\ records'.memory = memory
    BY <1>0, <2>2 DEF RecordTypes
  <2>12. RecordTypes'
    BY <1>0, <2>1, <2>2, <2>5, <2>7 DEF RecordTypes
  <2>13. ReadInv'
    <3> SUFFICES ASSUME NEW q \in Writers, appends'[q].pc = "existing"
                 PROVE  /\ appends'[q].outcome \in Outcomes /\ appends'[q].record # Records!None
                   /\ records'.memory[appends'[q].id] # Records!None
                        /\ appends'[q].record \in {"Pending", records'.memory[appends'[q].id]}
      BY DEF ReadInv
    <3>1. q # p
      BY <2>5, <2>10
    <3>2. appends'[q] = appends[q]
      BY <2>10, <3>1
    <3>3. /\ appends[q].outcome \in Outcomes /\ appends[q].record # Records!None
               /\ records.memory[appends[q].id] # Records!None
          /\ appends[q].record \in {"Pending", records.memory[appends[q].id]} /\ appends[q].id \in Ids
      BY <1>0, <3>2, RecordFields DEF RecordsInv, ReadInv
    <3> HIDE DEF id, outcome
    <3> QED BY <1>1, <2>3, <2>8, <2>11, <3>2, <3>3
  <2>14. \A q \in Writers, d \in Ids : Writes(q, d)' <=> (IF q = p THEN ~done /\ d = id ELSE Writes(q, d))
    BY <2>5, <2>10 DEF Writes
  <2>15. \A d \in Ids : ~Writes(p, d)
    BY <1>1 DEF Writes
  <2>16. ASSUME NEW d \in Ids \ records'.crossed PROVE RecordOk(d)'
    <3>1. RecordOk(d)
      BY <2>9, <2>11, <2>16 DEF RecordsInv
    <3>2. CASE d # id
      BY <2>8, <2>10, <2>11, <2>14, <2>15, <3>1, <3>2 DEF RecordOk
    <3>3. CASE d = id
      <4>1. \A q \in Writers : ~Writes(q, id)
        BY <2>9, <2>11, <2>16, <3>3 DEF Records!writing, Writes
      <4>2. records.file.last[id] = records.memory[id]
        BY <1>1, <3>1, <3>3, <4>1 DEF RecordOk
      <4>3. \A o \in records.acked[id] \ {"Pending"} : o = outcome /\ records.file.last[id] = o
        BY <2>3, <3>1, <3>3, <4>2 DEF RecordOk
      <4>6. /\ d \in Ids /\ \A q \in Writers : ~Writes(q, d)
            /\ records.file.last[d] = records.memory[d] /\ records.memory[d] # Records!None
            /\ \A o \in records.acked[d] \ {"Pending"} : o = outcome /\ records.file.last[d] = o
            /\ records'.memory[d] = outcome
            /\ records'.acked[d] = IF done THEN records.acked[d] \cup {outcome} ELSE records.acked[d]
        BY <1>1, <2>8, <2>11, <3>3, <4>1, <4>2, <4>3
      <4>4. CASE done
        <5>1. \A q \in Writers : ~Writes(q, d)'
          BY <2>14, <4>4, <4>6
        <5>2. records.memory[d] = outcome /\ records'.acked[d] = records.acked[d] \cup {outcome}
          BY <2>4, <3>3, <4>4, <4>6
        <5> HIDE DEF id, outcome
        <5> QED BY <1>1, <2>11, <4>6, <5>1, <5>2 DEF RecordOk
      <4>5. CASE ~done
        <5>1. \A q \in Writers : Writes(q, d)' <=> q = p
          BY <2>14, <3>3, <4>5, <4>6
        <5>2. /\ appends'[p].pc = "record" /\ appends'[p].record = outcome /\ appends'[p].outcome = outcome
              /\ records'.acked[d] = records.acked[d]
          BY <2>5, <2>10, <4>5, <4>6
        <5>3. records.acked[d] # {} => records.file.last[d] # Records!None
          BY <3>1 DEF RecordOk
        <5> HIDE DEF id, outcome
        <5> QED BY <1>1, <2>11, <4>6, <5>1, <5>2, <5>3 DEF RecordOk
      <4> QED BY <4>4, <4>5
    <3> QED BY <3>2, <3>3
  <2> QED BY <1>1, <2>10, <2>11, <2>12, <2>13, <2>16 DEF RecordsInv
<1> QED BY <1>3, <1>4

\* The record is written to the file.
LEMMA RecordsWrite == ASSUME RecordsInv, NEW p \in Writers, Records!write_action(p) PROVE RecordsInv'
<1>0. RecordTypes
  BY DEF RecordsInv
<1> DEFINE id == appends[p].id
           record == appends[p].record
           written == Records!write_record(records.file, id, record)
           crossed == IF Records!writing(id) # {p} THEN records.crossed \cup {id} ELSE records.crossed
           mine == [appends[p] EXCEPT !.pc = "newline"]
<1>1. /\ appends[p].pc = "record" /\ id \in Ids /\ record \in Record /\ records.open
      /\ appends[p] \in [pc : {"existing", "record", "newline"}, id : Ids, record : Record, outcome : Record]
  BY <1>0, RecordFields DEF Records!write_action, RecordsInv
<1>2. appends' = [appends EXCEPT ![p] = mine] /\ records' = [records EXCEPT !.file = written, !.crossed = crossed]
  BY DEF Records!write_action, Records!to
<1>3. /\ mine \in RecordCall /\ mine.pc = "newline" /\ mine.id = id /\ mine.record = record
           /\ mine.outcome = appends[p].outcome
  BY <1>1 DEF RecordCall
<1>4. /\ written \in Records!FileType(Ids, Record) /\ written.last = [records.file.last EXCEPT ![id] = record]
  <2> HIDE DEF id, record
  <2> QED BY <1>0, <1>1, RecordFields DEF Records!write_record, Records!FileType
<1>5. /\ records.crossed \subseteq crossed /\ crossed \in SUBSET Ids /\ (id \notin crossed => Records!writing(id) = {p})
  BY <1>0, <1>1, RecordFields
<1>6. \A d \in Ids : written.last[d] = IF d = id THEN record ELSE records.file.last[d]
  BY <1>0, <1>4, RecordFields
<1> HIDE DEF mine, written, crossed
<1>7. \A q \in Writers : appends'[q] = IF q = p THEN mine ELSE appends[q]
  BY <1>0, <1>2 DEF RecordTypes
<1>8. /\ records'.file = written /\ records'.open = records.open /\ records'.acked = records.acked
      /\ records'.crossed = crossed /\ records'.memory = records.memory
  BY <1>0, <1>2 DEF RecordTypes
<1>9. RecordTypes'
  BY <1>0, <1>2, <1>3, <1>4, <1>5 DEF RecordTypes
<1>10. ReadInv'
  BY <1>3, <1>7, <1>8 DEF RecordsInv, ReadInv
<1>11. \A q \in Writers, d \in Ids : Writes(q, d)' <=> Writes(q, d)
  BY <1>1, <1>3, <1>7 DEF Writes
<1>12. ASSUME NEW d \in Ids \ records'.crossed PROVE RecordOk(d)'
  <2>1. RecordOk(d)
    BY <1>5, <1>8, <1>12 DEF RecordsInv
  <2>2. CASE d # id
    <3>1. ~Writes(p, d)
      BY <2>2 DEF Writes
    <3> QED BY <1>6, <1>7, <1>8, <1>11, <2>1, <2>2, <3>1 DEF RecordOk
  <2>3. CASE d = id
    <3>1. \A q \in Writers : Writes(q, d) <=> q = p
      BY <1>5, <1>8, <1>12, <2>3 DEF Records!writing, Writes
    <3>2. /\ record = records.memory[d] /\ record # Records!None /\ appends[p].outcome = record
          /\ \A o \in records.acked[d] \ {"Pending"} : o = record
      BY <2>1, <3>1 DEF RecordOk
    <3>3. /\ records'.file.last[d] = record /\ appends'[p].record = record /\ appends'[p].outcome = appends[p].outcome
          /\ \A q \in Writers : Writes(q, d)' <=> q = p
      BY <1>3, <1>6, <1>7, <1>8, <1>11, <2>3, <3>1
    <3> HIDE DEF id, record
    <3> QED BY <1>8, <3>2, <3>3 DEF RecordOk
  <2> QED BY <2>2, <2>3
<1> QED BY <1>1, <1>7, <1>8, <1>9, <1>10, <1>12 DEF RecordsInv

\* The newline is written and the caller has its answer.
LEMMA RecordsEnd == ASSUME RecordsInv, NEW p \in Writers, Records!end_action(p) PROVE RecordsInv'
<1>0. RecordTypes
  BY DEF RecordsInv
<1> DEFINE id == appends[p].id
           outcome == appends[p].outcome
           written == Records!write_newline(records.file)
           acked == [records.acked EXCEPT ![id] = records.acked[id] \cup {outcome}]
<1>1. appends[p].pc = "newline" /\ id \in Ids /\ outcome \in Record /\ records.open
  BY <1>0, RecordFields DEF Records!end_action, RecordsInv
<1>2. appends' = [appends EXCEPT ![p] = Records!Idle] /\ records' = [records EXCEPT !.file = written, !.acked = acked]
  BY DEF Records!end_action, Records!to
<1>3. Records!Idle \in RecordCall /\ Records!Idle.pc = "idle"
  BY DEF RecordCall, Records!Idle
<1>4. /\ written \in Records!FileType(Ids, Record) /\ written.last = records.file.last
  BY <1>0, RecordFields DEF Records!write_newline, Records!FileType
<1>5. acked \in [Ids -> SUBSET Record] /\ \A d \in Ids : acked[d] = IF d = id THEN records.acked[d] \cup {outcome}
        ELSE records.acked[d]
  <2> HIDE DEF id, outcome
  <2> QED BY <1>0, <1>1, RecordFields
<1> HIDE DEF written, acked
<1>7. \A q \in Writers : appends'[q] = IF q = p THEN Records!Idle ELSE appends[q]
  BY <1>0, <1>2 DEF RecordTypes
<1>8. /\ records'.file = written /\ records'.open = records.open /\ records'.acked = acked
      /\ records'.crossed = records.crossed /\ records'.memory = records.memory
  BY <1>0, <1>2 DEF RecordTypes
<1>9. RecordTypes'
  BY <1>0, <1>2, <1>3, <1>4, <1>5 DEF RecordTypes
<1>10. ReadInv'
  BY <1>3, <1>7, <1>8 DEF RecordsInv, ReadInv
<1>11. \A q \in Writers, d \in Ids : Writes(q, d)' <=> (q # p /\ Writes(q, d))
  BY <1>3, <1>7 DEF Writes
<1>12. ASSUME NEW d \in Ids \ records'.crossed PROVE RecordOk(d)'
  <2>1. RecordOk(d)
    BY <1>8, <1>12 DEF RecordsInv
  <2>2. CASE d # id
    <3>1. ~Writes(p, d)
      BY <2>2 DEF Writes
    <3> QED BY <1>4, <1>5, <1>7, <1>8, <1>11, <2>1, <2>2, <3>1 DEF RecordOk
  <2>3. CASE d = id
    <3>1. Writes(p, d) /\ \A q \in Writers : Writes(q, d) => q = p
      BY <1>1, <2>1, <2>3 DEF RecordOk, Writes
    <3>2. /\ outcome = records.memory[d] /\ outcome # Records!None /\ records.file.last[d] = outcome
          /\ \A o \in records.acked[d] \ {"Pending"} : o = outcome
      BY <1>1, <2>1, <3>1 DEF RecordOk
    <3>3. \A q \in Writers : ~Writes(q, d)'
      BY <1>11, <3>1
    <3>4. records'.acked[d] = records.acked[d] \cup {outcome} /\ records'.file.last[d] = outcome
      BY <1>4, <1>5, <1>8, <2>3, <3>2
    <3> HIDE DEF id, outcome
    <3> QED BY <1>8, <3>2, <3>3, <3>4 DEF RecordOk
  <2> QED BY <2>2, <2>3
<1> QED BY <1>1, <1>3, <1>7, <1>8, <1>9, <1>10, <1>12 DEF RecordsInv

\* A write that fails leaves the record in memory only: its writes crossed.
LEMMA RecordsFail == ASSUME RecordsInv, NEW p \in Writers, Records!action_fails(p) PROVE RecordsInv'
<1>0. RecordTypes
  BY DEF RecordsInv
<1> DEFINE id == appends[p].id
<1>1. appends[p].pc = "record" /\ id \in Ids /\ records.open
  BY <1>0, RecordFields DEF Records!action_fails, RecordsInv
<1>2. appends' = [appends EXCEPT ![p] = Records!Idle] /\ records' = [records EXCEPT !.crossed = records.crossed \cup {id}]
  BY DEF Records!action_fails, Records!to
<1>3. Records!Idle \in RecordCall /\ Records!Idle.pc = "idle"
  BY DEF RecordCall, Records!Idle
<1>7. \A q \in Writers : appends'[q] = IF q = p THEN Records!Idle ELSE appends[q]
  BY <1>0, <1>2 DEF RecordTypes
<1>8. /\ records'.file = records.file /\ records'.open = records.open /\ records'.acked = records.acked
      /\ records'.crossed = records.crossed \cup {id} /\ records'.memory = records.memory
  BY <1>0, <1>2 DEF RecordTypes
<1>9. RecordTypes'
  <2> HIDE DEF id
  <2> QED BY <1>0, <1>1, <1>2, <1>3 DEF RecordTypes
<1>10. ReadInv'
  BY <1>3, <1>7, <1>8 DEF RecordsInv, ReadInv
<1>11. \A q \in Writers, d \in Ids : Writes(q, d)' <=> (q # p /\ Writes(q, d))
  BY <1>3, <1>7 DEF Writes
<1>12. ASSUME NEW d \in Ids \ records'.crossed PROVE RecordOk(d)'
  <2>1. RecordOk(d) /\ d # id
    BY <1>8, <1>12 DEF RecordsInv
  <2>2. ~Writes(p, d)
    BY <2>1 DEF Writes
  <2> QED BY <1>7, <1>8, <1>11, <2>1, <2>2 DEF RecordOk
<1> QED BY <1>1, <1>3, <1>7, <1>8, <1>9, <1>10, <1>12 DEF RecordsInv

\* The end of the host loses the memory, and the file keeps the last record of each id.
LEMMA RecordsCrash == ASSUME RecordsInv, Records!crash_actions PROVE RecordsInv'
<1>0. RecordTypes
  BY DEF RecordsInv
<1>1. PICK torn \in BOOLEAN :
         records' = [records EXCEPT !.open = FALSE, !.memory = [id \in Ids |-> Records!None],
                                    !.file = IF torn THEN Records!write_torn(records.file) ELSE records.file]
  BY DEF Records!crash_actions
<1> DEFINE memory == [id \in Ids |-> Records!None]
           left == IF torn THEN Records!write_torn(records.file) ELSE records.file
<1>2. appends' = [p \in Writers |-> Records!Idle] /\ Records!Idle \in RecordCall /\ Records!Idle.pc = "idle"
  BY DEF Records!crash_actions, Records!all_idle, RecordCall, Records!Idle
<1>3. left \in Records!FileType(Ids, Record) /\ left.last = records.file.last
  BY <1>0, RecordFields DEF Records!write_torn, Records!FileType
<1>4. memory \in [Ids -> Record] /\ records' = [records EXCEPT !.open = FALSE, !.memory = memory, !.file = left]
  BY <1>1 DEF Record
<1> HIDE DEF memory, left
<1>5. /\ records'.file = left /\ records'.open = FALSE /\ records'.acked = records.acked
      /\ records'.crossed = records.crossed /\ records'.memory = memory
  BY <1>0, <1>4 DEF RecordTypes
<1>6. RecordTypes'
  <2>1. appends' \in [Writers -> RecordCall]
    BY <1>2
  <2> QED BY <1>0, <1>3, <1>4, <2>1 DEF RecordTypes
<1>7. \A q \in Writers : appends'[q].pc = "idle"
  BY <1>2
<1>8. ASSUME NEW d \in Ids \ records'.crossed PROVE RecordOk(d)'
  <2>1. RecordOk(d)
    BY <1>5, <1>8 DEF RecordsInv
  <2>2. \A q \in Writers : ~Writes(q, d)'
    BY <1>7 DEF Writes
  <2> QED BY <1>3, <1>5, <2>1, <2>2 DEF RecordOk
<1> QED BY <1>6, <1>7, <1>8 DEF RecordsInv, ReadInv

\* Opening reads the records back.
LEMMA RecordsOpen == ASSUME RecordsInv, Records!open_actions PROVE RecordsInv'
<1>0. RecordTypes /\ records.file.last \in [Ids -> Record]
  BY RecordFields DEF RecordsInv
<1> DEFINE memory == records.file.last
<1>1. records' = [records EXCEPT !.open = TRUE, !.memory = memory] /\ UNCHANGED appends /\ ~records.open
  BY DEF Records!open_actions
<1>2. memory \in [Ids -> Record]
  BY <1>0
<1> HIDE DEF memory
<1>3. /\ records'.file = records.file /\ records'.open = TRUE /\ records'.acked = records.acked
      /\ records'.crossed = records.crossed /\ records'.memory = memory
  BY <1>0, <1>1 DEF RecordTypes
<1>4. RecordTypes'
  BY <1>0, <1>1, <1>2 DEF RecordTypes
<1>5. \A q \in Writers : appends'[q].pc = "idle"
  BY <1>1 DEF RecordsInv
<1>6. ASSUME NEW d \in Ids \ records'.crossed PROVE RecordOk(d)'
  <2>1. RecordOk(d)
    BY <1>3, <1>6 DEF RecordsInv
  <2>2. \A q \in Writers : ~Writes(q, d)'
    BY <1>5 DEF Writes
  <2> QED BY <1>3, <2>1, <2>2 DEF RecordOk, memory
<1> QED BY <1>4, <1>5, <1>6 DEF RecordsInv, ReadInv

\* Every step of the store keeps its invariant.
LEMMA RecordsStep == ASSUME OutcomesApart, RecordsInv, [Records!ActionNext]_(Records!zvars) PROVE RecordsInv'
<1>1. CASE UNCHANGED Records!zvars
  BY <1>1 DEF Records!zvars, RecordsInv, RecordTypes, ReadInv, RecordOk, Writes
<1>2. CASE Records!ActionNext
  BY <1>2, RecordsInsert, RecordsRead, RecordsOutcome, RecordsWrite, RecordsEnd, RecordsFail, RecordsCrash,
     RecordsOpen
     DEF Records!ActionNext
<1> QED BY <1>1, <1>2

\* The invariant has what the property states.
LEMMA RecordsMean == ASSUME RecordsInv PROVE Records!ActionsSound
<1> SUFFICES ASSUME NEW id \in Ids \ records.crossed
             PROVE  /\ \A o, n \in records.acked[id] \ {"Pending"} : o = n
                    /\ records.open /\ records.acked[id] # {} => records.memory[id] # Records!None
                    /\ records.open => \A o \in records.acked[id] \ {"Pending"} : records.memory[id] = o
  BY DEF Records!ActionsSound
<1>1. RecordOk(id)
  BY DEF RecordsInv
<1>2. CASE \A p \in Writers : ~Writes(p, id)
  BY <1>1, <1>2 DEF RecordOk
<1>3. CASE \E p \in Writers : Writes(p, id)
  BY <1>1, <1>3 DEF RecordOk
<1> QED BY <1>2, <1>3

\* What the retry policy needs of its configuration.
BackoffAssumption == InitialDelay \in Nat /\ Multiplier \in Nat \ {0} /\ MaxDelay \in Nat /\ MaxAttempts \in Nat \ {0}

\* The factors are natural numbers and never shrink.
LEMMA Factors ==
  ASSUME BackoffAssumption
  PROVE  /\ \A i \in 0 .. MaxAttempts : Records!factor[i] \in Nat
         /\ \A i \in 0 .. MaxAttempts : i # 0 => Records!factor[i - 1] <= Records!factor[i]
<1>0. MaxAttempts \in Nat /\ Multiplier \in Nat /\ Multiplier >= 1
  BY DEF BackoffAssumption
<1>1. \E f : Powers(Multiplier, f, MaxAttempts)
  BY <1>0, PowersExist
<1>2. Powers(Multiplier, Records!factor, MaxAttempts)
  BY <1>1 DEF Records!factor, Powers
<1>3. \A i \in 0 .. MaxAttempts : Records!factor[i] = IF i = 0 THEN 1 ELSE Multiplier * Records!factor[i - 1]
  BY <1>2 DEF Powers
<1> DEFINE Bad == {k \in 0 .. MaxAttempts : Records!factor[k] \notin Nat}
<1>4. ASSUME NEW k \in Bad, \A j \in Bad : ~(j < k) PROVE FALSE
  <2>1. k # 0
    BY <1>0, <1>3
  <2>2. k - 1 \in 0 .. MaxAttempts /\ k - 1 < k
    BY <1>0, <2>1
  <2>3. Records!factor[k - 1] \in Nat
    BY <1>4, <2>2
  <2>4. Records!factor[k] = Multiplier * Records!factor[k - 1]
    BY <1>3, <2>1
  <2> QED BY <1>0, <2>3, <2>4
<1>5. Bad \in SUBSET Nat
  BY <1>0
<1>6. Bad = {}
  <2> HIDE DEF Bad
  <2> QED BY <1>4, <1>5, LeastNatural
<1>7. ASSUME NEW i \in 0 .. MaxAttempts, i # 0 PROVE Records!factor[i - 1] <= Records!factor[i]
  <2>1. i - 1 \in 0 .. MaxAttempts
    BY <1>0, <1>7
  <2>2. Records!factor[i - 1] \in Nat /\ Records!factor[i] = Multiplier * Records!factor[i - 1]
    BY <1>3, <1>6, <1>7, <2>1
  <2>3. \A m, x \in Nat : m >= 1 => x <= m * x
    OBVIOUS
  <2> QED BY <1>0, <2>2, <2>3
<1> QED BY <1>6, <1>7

\* A sleep is no longer than the maximum and no shorter than the one before.
LEMMA Sleeps ==
  ASSUME BackoffAssumption, NEW n \in 1 .. MaxAttempts
  PROVE  /\ Records!backoff_delay(n) \in Nat /\ Records!backoff_delay(n) <= MaxDelay
         /\ n > 1 => Records!backoff_delay(n - 1) <= Records!backoff_delay(n)
<1>0. MaxAttempts \in Nat /\ InitialDelay \in Nat /\ MaxDelay \in Nat
  BY DEF BackoffAssumption
<1>1. ASSUME NEW a \in Nat, NEW b \in Nat PROVE Records!Min({a, b}) = IF a <= b THEN a ELSE b
  BY DEF Records!Min
<1>2. \A x, y, d \in Nat : x <= y => d * x \in Nat /\ d * x <= d * y
  OBVIOUS
<1>3. Records!factor[n - 1] \in Nat /\ n - 1 \in 0 .. MaxAttempts
  BY <1>0, Factors
<1>4. Records!backoff_delay(n) = IF InitialDelay * Records!factor[n - 1] <= MaxDelay
        THEN InitialDelay * Records!factor[n - 1] ELSE MaxDelay
  <2>1. InitialDelay * Records!factor[n - 1] \in Nat
    BY <1>0, <1>3
  <2> QED BY <1>0, <1>1, <2>1 DEF Records!backoff_delay
<1>5. ASSUME n > 1 PROVE Records!backoff_delay(n - 1) <= Records!backoff_delay(n)
  <2>1. (n - 1) - 1 \in 0 .. MaxAttempts /\ n - 1 # 0
    BY <1>0, <1>5
  <2>2. Records!factor[(n - 1) - 1] \in Nat /\ Records!factor[(n - 1) - 1] <= Records!factor[n - 1]
    BY <1>3, <2>1, Factors
  <2>3. InitialDelay * Records!factor[(n - 1) - 1] \in Nat
          /\ InitialDelay * Records!factor[(n - 1) - 1] <= InitialDelay * Records!factor[n - 1]
    BY <1>0, <1>2, <1>3, <2>2
  <2>4. Records!backoff_delay(n - 1) = IF InitialDelay * Records!factor[(n - 1) - 1] <= MaxDelay
          THEN InitialDelay * Records!factor[(n - 1) - 1] ELSE MaxDelay
    BY <1>0, <1>1, <2>3 DEF Records!backoff_delay
  <2>5. InitialDelay * Records!factor[n - 1] \in Nat
    BY <1>0, <1>3
  <2> QED BY <1>0, <1>4, <2>3, <2>4, <2>5
<1>6. InitialDelay * Records!factor[n - 1] \in Nat
  BY <1>0, <1>3
<1> QED BY <1>0, <1>4, <1>5, <1>6

\* The sleeps are those of the policy, one for each attempt that was retried.
RetryInv ==
  /\ retry \in [attempts : Nat, decision : {"Retry", "DoNotRetry", "Exhausted"}, slept : Seq(Nat)]
  /\ retry.attempts <= MaxAttempts /\ Len(retry.slept) < MaxAttempts
  /\ retry.decision = "Retry" => retry.attempts < MaxAttempts /\ Len(retry.slept) = retry.attempts
  /\ \A i \in 1 .. Len(retry.slept) : retry.slept[i] = Records!backoff_delay(i)

\* No attempt was made at first.
LEMMA RetryStart == ASSUME BackoffAssumption, Records!Init PROVE RetryInv
BY DEF BackoffAssumption, Records!Init, RetryInv

\* An attempt keeps the invariant of the policy.
LEMMA RetryStep == ASSUME BackoffAssumption, RetryInv, [Records!classify_error]_(Records!zvars) PROVE RetryInv'
<1>1. CASE UNCHANGED Records!zvars
  BY <1>1 DEF Records!zvars, RetryInv, Records!backoff_delay, Records!factor
<1>2. CASE Records!classify_error
  <2>1. retry.decision = "Retry" /\ retry.attempts < MaxAttempts /\ Len(retry.slept) = retry.attempts
        /\ retry.attempts \in Nat /\ retry.slept \in Seq(Nat) /\ MaxAttempts \in Nat
    BY <1>2 DEF Records!classify_error, RetryInv, BackoffAssumption
  <2> DEFINE n == retry.attempts + 1
  <2>2. PICK class \in Records!Classes :
         retry' = [attempts |-> n, decision |-> Records!decide(class, n),
                   slept |-> IF Records!decide(class, n) = "Retry" THEN Append(retry.slept, Records!backoff_delay(n))
                     ELSE retry.slept]
    BY <1>2 DEF Records!classify_error
  <2>3. n \in 1 .. MaxAttempts
    BY <2>1
  <2>4. Records!decide(class, n) \in {"Retry", "DoNotRetry", "Exhausted"}
          /\ (Records!decide(class, n) = "Retry" => n < MaxAttempts)
    <3> HIDE DEF n
    <3>1. CASE n >= MaxAttempts
      BY <2>1, <2>3, <3>1 DEF Records!decide
    <3>2. CASE n < MaxAttempts /\ ~Records!is_retryable(class)
      BY <2>1, <2>3, <3>2 DEF Records!decide
    <3>3. CASE n < MaxAttempts /\ Records!is_retryable(class)
      BY <2>1, <2>3, <3>3 DEF Records!decide
    <3> QED BY <2>1, <2>3, <3>1, <3>2, <3>3
  <2>5. Records!backoff_delay(n) \in Nat
    BY <2>3, Sleeps
  <2>6. \A i \in 1 .. Len(retry.slept) : retry.slept[i] = Records!backoff_delay(i)
    BY DEF RetryInv
  <2>7. \A i : Records!backoff_delay(i)' = Records!backoff_delay(i)
    BY DEF Records!backoff_delay, Records!factor
  <2>8. CASE Records!decide(class, n) = "Retry"
    <3> DEFINE slept == Append(retry.slept, Records!backoff_delay(n))
    <3>1. slept \in Seq(Nat) /\ Len(slept) = n /\ \A i \in 1 .. n : slept[i] = Records!backoff_delay(i)
      BY <2>1, <2>5, <2>6
    <3>2. retry' = [attempts |-> n, decision |-> "Retry", slept |-> slept]
      BY <2>2, <2>8
    <3> HIDE DEF n, slept
    <3>3. retry'.attempts = n /\ retry'.decision = "Retry" /\ retry'.slept = slept
      BY <3>2
    <3> QED BY <2>1, <2>3, <2>4, <2>7, <2>8, <3>1, <3>2, <3>3 DEF RetryInv
  <2>9. CASE Records!decide(class, n) # "Retry"
    <3>1. retry' = [attempts |-> n, decision |-> Records!decide(class, n), slept |-> retry.slept]
      BY <2>2, <2>9
    <3>2. retry'.attempts = n /\ retry'.decision = Records!decide(class, n) /\ retry'.slept = retry.slept
      BY <3>1
    <3> HIDE DEF n
    <3> QED BY <2>1, <2>3, <2>4, <2>6, <2>7, <2>9, <3>1, <3>2 DEF RetryInv
  <2> QED BY <2>8, <2>9
<1> QED BY <1>1, <1>2

\* The invariant has what the property states.
LEMMA RetryMeans == ASSUME BackoffAssumption, RetryInv PROVE Records!RetrySound
<1>1. MaxAttempts \in Nat /\ Len(retry.slept) \in Nat /\ Len(retry.slept) < MaxAttempts
        /\ DOMAIN retry.slept = 1 .. Len(retry.slept)
  BY DEF RetryInv, BackoffAssumption
<1>2. ASSUME NEW i \in DOMAIN retry.slept
      PROVE  retry.slept[i] <= MaxDelay /\ (i > 1 => retry.slept[i - 1] <= retry.slept[i])
  <2>1. i \in 1 .. MaxAttempts /\ i \in 1 .. Len(retry.slept)
    BY <1>1
  <2>2. i > 1 => i - 1 \in 1 .. Len(retry.slept)
    BY <1>1, <2>1
  <2> QED BY <2>1, <2>2, Sleeps DEF RetryInv
<1> QED BY <1>2 DEF RetryInv, Records!RetrySound

\* The journal and the action store as they are before the first call.
JournalRests == journal = [memory |-> <<>>, lines |-> <<>>, unterminated |-> FALSE, broken |-> FALSE, open |-> TRUE,
    acked |-> {}]
\* The action store before the first call.
RecordsRest == records = [memory |-> [id \in Ids |-> Records!None], file |-> Records!EmptyFile(Ids, Records!None),
    open |-> TRUE,
                          acked |-> [id \in Ids |-> {}], crossed |-> {}]

\* Nothing is wrong before the first call.
LEMMA AtRest ==
  /\ JournalRests => Records!JournalSound
  /\ RecordsRest => Records!ActionsSound
<1>1. ASSUME JournalRests PROVE Records!JournalSound
  <2>1. journal.memory = <<>> /\ journal.acked = {} /\ DOMAIN journal.memory = {}
    BY <1>1 DEF JournalRests
  <2>2. \A run : Records!latest(journal.memory, run) = Records!None
    BY <2>1 DEF Records!latest
  <2>3. DOMAIN Records!build_recovery_report(journal.memory) = {}
    BY <2>2 DEF Records!build_recovery_report
  <2> QED BY <2>1, <2>3 DEF Records!JournalSound
<1>2. ASSUME RecordsRest PROVE Records!ActionsSound
  BY <1>2 DEF RecordsRest, Records!ActionsSound
<1> QED BY <1>1, <1>2

\* After a crash a journal that opens holds every acknowledged event, so that a run whose end was acknowledged is
\* not recovered and one with a tool call without an answer is inspected; an action whose writes did not cross
\* has one acknowledged outcome at most, and a reopened store has it; a host that asks the retry policy stops
\* after MaxAttempts, with sleeps that never shrink (JsonlRunJournal, JsonlActionStore, DefaultRetryPolicy);
\* for any callers, ids, outcomes and delays, however many crashes there are.
THEOREM RecordsAreSound ==
  ASSUME MaxEvents \in Nat, OutcomesApart, BackoffAssumption
  PROVE  /\ Records!JournalSpec => []Records!RecordsSound
         /\ Records!ActionSpec => []Records!RecordsSound
         /\ Records!RetrySpec => []Records!RecordsSound
<1>1. Records!Init => EventsInv /\ RecordsInv /\ RetryInv /\ JournalRests /\ RecordsRest
  BY JournalStart, RecordsStart, RetryStart DEF Records!Init, JournalRests, RecordsRest
<1>2. EventsInv /\ RecordsRest /\ RetryInv /\ [Records!JournalNext]_(Records!zvars)
        => (EventsInv /\ RecordsRest /\ RetryInv)'
  <2> SUFFICES ASSUME EventsInv, RecordsRest, RetryInv, [Records!JournalNext]_(Records!zvars)
    PROVE (EventsInv /\ RecordsRest /\ RetryInv)'
    OBVIOUS
  <2>1. UNCHANGED <<records, retry>>
    BY DEF Records!JournalNext, Records!zvars, Records!append_run_event, Records!write_event, Records!end_event,
       Records!event_fails, Records!crash_journal, Records!open_journal
  <2>3. RetryInv'
    BY <2>1 DEF RetryInv, Records!backoff_delay, Records!factor
  <2> QED BY <2>1, <2>3, JournalStep DEF RecordsRest
<1>3. JournalRests /\ RecordsInv /\ RetryInv /\ [Records!ActionNext]_(Records!zvars)
        => (JournalRests /\ RecordsInv /\ RetryInv)'
  <2> SUFFICES ASSUME JournalRests, RecordsInv, RetryInv, [Records!ActionNext]_(Records!zvars)
    PROVE (JournalRests /\ RecordsInv /\ RetryInv)'
    OBVIOUS
  <2>1. UNCHANGED <<journal, retry>>
    BY DEF Records!ActionNext, Records!zvars, Records!insert_request, Records!read_existing, Records!record_outcome,
       Records!write_action, Records!end_action, Records!action_fails,
           Records!crash_actions, Records!open_actions
  <2>3. RetryInv'
    BY <2>1 DEF RetryInv, Records!backoff_delay, Records!factor
  <2> QED BY <2>1, <2>3, RecordsStep DEF JournalRests
<1>4. JournalRests /\ RecordsRest /\ RetryInv /\ [Records!classify_error]_(Records!zvars)
        => (JournalRests /\ RecordsRest /\ RetryInv)'
  <2> SUFFICES ASSUME JournalRests, RecordsRest, RetryInv, [Records!classify_error]_(Records!zvars)
    PROVE (JournalRests /\ RecordsRest /\ RetryInv)'
    OBVIOUS
  <2>1. UNCHANGED <<journal, records>>
    BY DEF Records!classify_error, Records!zvars
  <2> QED BY <2>1, RetryStep DEF JournalRests, RecordsRest
<1>5. /\ EventsInv /\ RecordsRest /\ RetryInv => Records!RecordsSound
      /\ JournalRests /\ RecordsInv /\ RetryInv => Records!RecordsSound
      /\ JournalRests /\ RecordsRest /\ RetryInv => Records!RecordsSound
  BY AtRest, JournalMeans, RecordsMean, RetryMeans DEF Records!RecordsSound
<1>6. Records!JournalSpec => []Records!RecordsSound
  BY <1>1, <1>2, <1>5, PTL DEF Records!JournalSpec
<1>7. Records!ActionSpec => []Records!RecordsSound
  BY <1>1, <1>3, <1>5, PTL DEF Records!ActionSpec
<1>8. Records!RetrySpec => []Records!RecordsSound
  BY <1>1, <1>4, <1>5, PTL DEF Records!RetrySpec
<1> QED BY <1>6, <1>7, <1>8

-----------------------------------------------------------------------------
(* ModelCalls: the breaker and the retries.                                *)
ModelAssumption ==
  /\ FailureThreshold \in Nat \ {0} /\ MaxFailures \in Nat /\ MaxFailures >= FailureThreshold
  /\ ModelAttempts \in Nat \ {0} /\ ModelDelay \in Nat /\ ModelMaxDelay \in Nat /\ Cooldown \in Nat

\* How far a call has got.
ModelSteps == {"idle", "gate", "provider", "succeeded", "failed", "decide", "asleep"}
\* A call of the adapter.
CallType == [pc : ModelSteps, attempt : Nat, class : Models!Classes \cup {"none", "Ok"}, left : Nat, sent : Nat,
    traced : Nat]

\* A call is sent once an attempt, after the gate, and each answer is traced; one that sleeps has an attempt left.
CallOk(call) ==
  /\ call.attempt <= ModelAttempts /\ call.sent <= call.attempt
  /\ call.pc = "gate" => call.attempt > 0 /\ call.sent < call.attempt
  /\ call.pc # "idle" => call.attempt > 0
  /\ IF call.pc = "provider" THEN call.traced + 1 = call.sent ELSE call.traced = call.sent
  /\ call.pc = "asleep" => Models!is_retryable(call.class) /\ call.left <= ModelMaxDelay /\ call.attempt < ModelAttempts

\* The breaker is closed as long as it counts fewer failures than the threshold.
BreakerInv ==
  /\ breaker \in [state : {"Closed", "Open", "HalfOpen"}, failures : Nat, age : Nat]
  /\ breaker.state = "Closed" => breaker.failures < FailureThreshold
  /\ breaker.state # "Closed" => breaker.failures >= FailureThreshold
\* Every call is in order.
CallsInv ==
  /\ calls \in [Clients -> CallType]
  /\ \A p \in Clients : CallOk(calls[p])

\* The minimum of two numbers.
LEMMA MinTwo == ASSUME NEW a \in Nat, NEW b \in Nat PROVE Models!Min({a, b}) = IF a <= b THEN a ELSE b
BY DEF Models!Min

\* A sleep is no longer than the maximum.
LEMMA Delays ==
  ASSUME ModelAssumption, NEW n \in 1 .. ModelAttempts
  PROVE  Models!backoff_delay(n) \in Nat /\ Models!backoff_delay(n) <= ModelMaxDelay
<1>0. ModelAttempts \in Nat /\ ModelDelay \in Nat /\ ModelMaxDelay \in Nat
  BY DEF ModelAssumption
<1>1. \E f : Powers(2, f, ModelAttempts)
  BY <1>0, PowersExist
<1>2. Powers(2, Models!factor, ModelAttempts)
  BY <1>1 DEF Models!factor, Powers
<1>3. n - 1 \in 0 .. ModelAttempts
  BY <1>0
<1>4. Models!factor[n - 1] \in Nat
  BY <1>0, <1>2, <1>3, PowersNatural
<1>5. ModelDelay * Models!factor[n - 1] \in Nat
  BY <1>0, <1>4
<1> QED BY <1>0, <1>5, MinTwo DEF Models!backoff_delay

\* A caller that makes one step keeps its part if its call does.
LEMMA OneCaller ==
  ASSUME CallsInv, NEW p \in Clients, NEW mine \in CallType, CallOk(mine), calls' = [calls EXCEPT ![p] = mine]
  PROVE  CallsInv'
<1>1. \A q \in Clients : calls'[q] = IF q = p THEN mine ELSE calls[q]
  BY DEF CallsInv
<1>2. calls' \in [Clients -> CallType]
  BY DEF CallsInv
<1> QED BY <1>1, <1>2 DEF CallsInv, CallOk

\* An answer has classes of the code.
LEMMA ClassesOf == ASSUME NEW answer, NEW class \in Models!classes_of(answer) PROVE class \in Models!Classes
<1>1. \A c : Models!quoting(c) \subseteq Models!Classes
  BY DEF Models!quoting, Models!Ordered, Models!Classes
<1>2. class \in Models!openai_classes(answer) => class \in Models!Classes
  BY <1>1 DEF Models!openai_classes, Models!Classes
<1>3. class \in Models!anthropic_classes(answer) => class \in Models!Classes
  BY <1>1 DEF Models!anthropic_classes, Models!Classes
<1> QED BY <1>2, <1>3 DEF Models!classes_of

\* Every step of a call keeps the invariants.
LEMMA ModelStep ==
  ASSUME ModelAssumption, BreakerInv, CallsInv, NEW p \in Clients, Models!complete(p) \/ Models!step(p)
  PROVE  BreakerInv' /\ CallsInv'
<1>0. /\ calls[p] \in CallType /\ CallOk(calls[p]) /\ ModelAttempts \in Nat /\ ModelAttempts > 0
      /\ calls \in [Clients -> CallType]
  BY DEF CallsInv, ModelAssumption
<1>1. CASE Models!complete(p)
  <2> DEFINE mine == [Models!Idle EXCEPT !.pc = "gate", !.attempt = 1]
  <2>1. mine = [pc |-> "gate", attempt |-> 1, class |-> "none", left |-> 0, sent |-> 0, traced |-> 0]
    <3> DEFINE half == [Models!Idle EXCEPT !.pc = "gate"]
    <3>1. half = [pc |-> "gate", attempt |-> 0, class |-> "none", left |-> 0, sent |-> 0, traced |-> 0]
      BY DEF Models!Idle
    <3>2. mine = [half EXCEPT !.attempt = 1]
      BY DEF Models!Idle
    <3> HIDE DEF half, mine
    <3> QED BY <3>1, <3>2
  <2>2. mine \in CallType /\ CallOk(mine)
    <3> HIDE DEF mine
    <3> QED BY <1>0, <2>1 DEF CallType, ModelSteps, CallOk
  <2>3. calls' = [calls EXCEPT ![p] = mine] /\ UNCHANGED breaker
    BY <1>1 DEF Models!complete
  <2> HIDE DEF mine
  <2> QED BY <2>2, <2>3, OneCaller DEF BreakerInv
<1>2. CASE Models!before_call(p)
  <2>1. CASE breaker.state = "Open" /\ breaker.age < Cooldown /\ calls[p].pc = "gate" /\ UNCHANGED breaker
             /\ calls' = [calls EXCEPT ![p].pc = "decide", ![p].class = "Unknown"]
    <3> DEFINE mine == [calls[p] EXCEPT !.pc = "decide", !.class = "Unknown"]
    <3>2. calls' = [calls EXCEPT ![p] = mine]
      BY <1>0, <2>1
    <3>3. mine \in CallType /\ CallOk(mine)
      BY <1>0, <2>1 DEF CallType, ModelSteps, Models!Classes, CallOk
    <3> HIDE DEF mine
    <3> QED BY <2>1, <3>2, <3>3, OneCaller DEF BreakerInv
  <2>2. CASE calls[p].pc = "gate" /\ calls' = [calls EXCEPT ![p].pc = "provider", ![p].sent = @ + 1]
             /\ breaker' = [breaker EXCEPT !.state = IF @ = "Open" THEN "HalfOpen" ELSE @]
    <3> DEFINE mine == [calls[p] EXCEPT !.pc = "provider", !.sent = calls[p].sent + 1]
    <3>2. calls' = [calls EXCEPT ![p] = mine]
      BY <1>0, <2>2
    <3>3. mine \in CallType /\ CallOk(mine)
      BY <1>0, <2>2 DEF CallType, ModelSteps, CallOk
    <3>4. BreakerInv'
      BY <2>2 DEF BreakerInv
    <3> HIDE DEF mine
    <3> QED BY <3>2, <3>3, <3>4, OneCaller
  <2> QED BY <1>2, <2>1, <2>2 DEF Models!before_call
<1>3. CASE Models!provider_answers(p)
  <2>0. calls[p].pc = "provider" /\ UNCHANGED breaker
    BY <1>3 DEF Models!provider_answers
  <2>1. CASE calls' = [calls EXCEPT ![p].pc = "succeeded", ![p].traced = @ + 1]
    <3> DEFINE mine == [calls[p] EXCEPT !.pc = "succeeded", !.traced = calls[p].traced + 1]
    <3>2. calls' = [calls EXCEPT ![p] = mine]
      BY <1>0, <2>1
    <3>3. mine \in CallType /\ CallOk(mine)
      BY <1>0, <2>0 DEF CallType, ModelSteps, CallOk
    <3> HIDE DEF mine
    <3> QED BY <2>0, <3>2, <3>3, OneCaller DEF BreakerInv
  <2>2. CASE \E answer \in Models!Answers : \E class \in Models!classes_of(answer) :
               calls' = [calls EXCEPT ![p].pc = "failed", ![p].class = class, ![p].traced = @ + 1]
    <3>1. PICK answer \in Models!Answers : \E class \in Models!classes_of(answer) :
               calls' = [calls EXCEPT ![p].pc = "failed", ![p].class = class, ![p].traced = @ + 1]
      BY <2>2
    <3>2. PICK class \in Models!classes_of(answer) :
               calls' = [calls EXCEPT ![p].pc = "failed", ![p].class = class, ![p].traced = @ + 1]
      BY <3>1
    <3>3. class \in Models!Classes
      BY ClassesOf
    <3> DEFINE mine == [calls[p] EXCEPT !.pc = "failed", !.class = class, !.traced = calls[p].traced + 1]
    <3>4. calls' = [calls EXCEPT ![p] = mine]
      BY <1>0, <3>2
    <3>5. mine \in CallType /\ CallOk(mine)
      BY <1>0, <2>0, <3>3 DEF CallType, ModelSteps, CallOk
    <3> HIDE DEF mine
    <3> QED BY <2>0, <3>4, <3>5, OneCaller DEF BreakerInv
  <2> QED BY <1>3, <2>1, <2>2 DEF Models!provider_answers
<1>4. CASE Models!record_success(p)
  <2>0. calls[p].pc = "succeeded" /\ breaker' = Models!Closed
          /\ calls' = [calls EXCEPT ![p].pc = "idle", ![p].class = "Ok"]
    BY <1>4 DEF Models!record_success
  <2> DEFINE mine == [calls[p] EXCEPT !.pc = "idle", !.class = "Ok"]
  <2>2. calls' = [calls EXCEPT ![p] = mine]
    BY <1>0, <2>0
  <2>3. mine \in CallType /\ CallOk(mine)
    BY <1>0, <2>0 DEF CallType, ModelSteps, CallOk
  <2>4. BreakerInv'
    BY <2>0 DEF BreakerInv, Models!Closed, ModelAssumption
  <2> HIDE DEF mine
  <2> QED BY <2>2, <2>3, <2>4, OneCaller
<1>5. CASE Models!record_error(p)
  <2>0. calls[p].pc = "failed" /\ calls' = [calls EXCEPT ![p] = [calls[p] EXCEPT !.pc = "decide"]]
    BY <1>5 DEF Models!record_error, Models!to
  <2> DEFINE mine == [calls[p] EXCEPT !.pc = "decide"]
             failures == Models!Min({breaker.failures + 1, MaxFailures})
  <2>3. mine \in CallType /\ CallOk(mine)
    BY <1>0, <2>0 DEF CallType, ModelSteps, CallOk
  <2>4. failures \in Nat /\ failures = IF breaker.failures + 1 <= MaxFailures THEN breaker.failures + 1 ELSE MaxFailures
    <3>1. breaker.failures + 1 \in Nat /\ MaxFailures \in Nat
      BY DEF BreakerInv, ModelAssumption
    <3> QED BY <3>1, MinTwo
  <2>5. breaker' = IF ~ Models!trips_on(calls[p].class) THEN breaker
                   ELSE IF failures >= FailureThreshold THEN [state |-> "Open", failures |-> failures, age |-> 0]
                        ELSE [breaker EXCEPT !.failures = failures]
    BY <1>5 DEF Models!record_error
  <2> HIDE DEF failures
  <2>6. BreakerInv'
    BY <2>4, <2>5 DEF BreakerInv, ModelAssumption
  <2> HIDE DEF mine
  <2> QED BY <2>0, <2>3, <2>6, OneCaller DEF mine
<1>6. CASE Models!retry(p)
  <2>0. calls[p].pc = "decide" /\ UNCHANGED breaker
    BY <1>6 DEF Models!retry
  <2>1. CASE Models!decide(calls[p].class, calls[p].attempt) = "Retry"
    <3> DEFINE delay == Models!backoff_delay(calls[p].attempt)
               mine == [calls[p] EXCEPT !.pc = "asleep", !.left = delay]
    <3>1. calls' = [calls EXCEPT ![p].pc = "asleep", ![p].left = delay]
      BY <1>6, <2>1 DEF Models!retry
    <3>2. calls' = [calls EXCEPT ![p] = mine]
      <4> HIDE DEF delay
      <4> QED BY <1>0, <3>1
    <3>3. Models!is_retryable(calls[p].class) /\ calls[p].attempt < ModelAttempts
            /\ calls[p].attempt \in 1 .. ModelAttempts
      <4>1. calls[p].attempt \in Nat
        BY <1>0 DEF CallType
      <4> QED BY <1>0, <2>1, <4>1 DEF Models!decide
    <3>4. delay \in Nat /\ delay <= ModelMaxDelay
      BY <3>3, Delays
    <3> HIDE DEF delay
    <3>5. mine \in CallType /\ CallOk(mine)
      BY <1>0, <2>0, <3>3, <3>4 DEF CallType, ModelSteps, CallOk
    <3> HIDE DEF mine
    <3> QED BY <2>0, <3>2, <3>5, OneCaller DEF BreakerInv
  <2>2. CASE Models!decide(calls[p].class, calls[p].attempt) # "Retry"
    <3> DEFINE mine == [calls[p] EXCEPT !.pc = "idle"]
    <3>1. calls' = [calls EXCEPT ![p] = mine]
      BY <1>0, <1>6, <2>2 DEF Models!retry, Models!to
    <3>2. mine \in CallType /\ CallOk(mine)
      BY <1>0, <2>0 DEF CallType, ModelSteps, CallOk
    <3> HIDE DEF mine
    <3> QED BY <2>0, <3>1, <3>2, OneCaller DEF BreakerInv
  <2> QED BY <2>1, <2>2
<1>7. CASE Models!wake(p)
  <2>0. calls[p].pc = "asleep" /\ UNCHANGED breaker /\ calls' = [calls EXCEPT ![p].pc = "gate", ![p].attempt = @ + 1]
    BY <1>7 DEF Models!wake
  <2> DEFINE mine == [calls[p] EXCEPT !.pc = "gate", !.attempt = calls[p].attempt + 1]
  <2>2. calls' = [calls EXCEPT ![p] = mine]
    BY <1>0, <2>0
  <2>3. mine \in CallType /\ CallOk(mine)
    BY <1>0, <2>0 DEF CallType, ModelSteps, CallOk
  <2> HIDE DEF mine
  <2> QED BY <2>0, <2>2, <2>3, OneCaller DEF BreakerInv
<1> QED BY <1>1, <1>2, <1>3, <1>4, <1>5, <1>6, <1>7 DEF Models!step, Models!goes_on

\* The passing of time keeps the invariants.
LEMMA ModelTick ==
  ASSUME ModelAssumption, BreakerInv, CallsInv, Models!tick
  PROVE  BreakerInv' /\ CallsInv'
<1>1. breaker.age + 1 \in Nat /\ Cooldown \in Nat /\ Models!Min({breaker.age + 1, Cooldown}) \in Nat
  <2>1. breaker.age + 1 \in Nat /\ Cooldown \in Nat
    BY DEF BreakerInv, ModelAssumption
  <2> QED BY <2>1, MinTwo
<1> DEFINE age == IF breaker.state = "Open" THEN Models!Min({breaker.age + 1, Cooldown}) ELSE breaker.age
<1>2. breaker' = [breaker EXCEPT !.age = age] /\ age \in Nat
  BY <1>1 DEF Models!tick, BreakerInv
<1> HIDE DEF age
<1>3. BreakerInv'
  BY <1>2 DEF BreakerInv
<1>4. calls' = [p \in Clients |-> [calls[p] EXCEPT !.left = IF calls[p].left > 0 THEN calls[p].left - 1 ELSE 0]]
  BY DEF Models!tick
<1>5. ASSUME NEW p \in Clients PROVE calls'[p] \in CallType /\ CallOk(calls'[p])
  <2> DEFINE left == IF calls[p].left > 0 THEN calls[p].left - 1 ELSE 0
  <2>1. calls[p] \in CallType /\ CallOk(calls[p])
    BY DEF CallsInv
  <2>2. left \in Nat /\ left <= calls[p].left /\ calls[p].left \in Nat
    BY <2>1 DEF CallType
  <2>3. calls'[p] = [calls[p] EXCEPT !.left = left]
    BY <1>4
  <2> HIDE DEF left
  <2> QED BY <2>1, <2>2, <2>3 DEF CallType, CallOk, ModelAssumption
<1>6. calls' \in [Clients -> CallType]
  BY <1>4, <1>5
<1> QED BY <1>3, <1>5, <1>6 DEF CallsInv

\* The breaker that callers share and their retries agree whatever the order of the calls: the breaker is closed
\* if and only if it counts fewer failures than the threshold, a call is sent at most once an attempt and at
\* most ModelAttempts times, every answer is traced, and only a retryable error makes a call sleep, no longer
\* than the maximum (CircuitBreakingModelAdapter, RetryingModelAdapter, ObservedModelAdapter); for any callers,
\* with a threshold and a number of attempts that are not 0.
THEOREM BreakersAgree == ASSUME ModelAssumption PROVE Models!Spec => []Models!BreakerSound
<1>1. Models!Init => BreakerInv /\ CallsInv
  BY DEF Models!Init, BreakerInv, CallsInv, Models!Closed, Models!Idle, CallType, ModelSteps, CallOk, ModelAssumption
<1>2. BreakerInv /\ CallsInv /\ [Models!Next]_(Models!mvars) => (BreakerInv /\ CallsInv)'
  <2> SUFFICES ASSUME BreakerInv, CallsInv, [Models!Next]_(Models!mvars) PROVE (BreakerInv /\ CallsInv)'
    OBVIOUS
  <2>1. CASE UNCHANGED <<breaker, calls>>
    BY <2>1 DEF BreakerInv, CallsInv, CallOk
  <2>2. CASE Models!CallNext
    BY <2>2, ModelStep, ModelTick DEF Models!CallNext
  <2> QED BY <2>1, <2>2 DEF Models!Next, Models!StreamNext, Models!BudgetNext, Models!ExchangeNext, Models!mvars
<1>3. BreakerInv /\ CallsInv => Models!BreakerSound
  <2> SUFFICES ASSUME BreakerInv, CallsInv PROVE Models!BreakerSound
    OBVIOUS
  <2>1. breaker.state = "Closed" <=> breaker.failures < FailureThreshold
    BY DEF BreakerInv, ModelAssumption
  <2>2. ASSUME NEW p \in Clients
        PROVE  /\ calls[p].attempt <= ModelAttempts /\ calls[p].sent <= calls[p].attempt
               /\ calls[p].traced = calls[p].sent - (IF calls[p].pc = "provider" THEN 1 ELSE 0)
               /\ calls[p].pc = "asleep" => Models!is_retryable(calls[p].class) /\ calls[p].left <= ModelMaxDelay
    <3>1. calls[p] \in CallType /\ CallOk(calls[p])
      BY DEF CallsInv
    <3> QED BY <3>1 DEF CallOk, CallType
  <2> QED BY <2>1, <2>2 DEF Models!BreakerSound
<1> QED BY <1>1, <1>2, <1>3, PTL DEF Models!Spec

-----------------------------------------------------------------------------
(* KernelHost.                                                             *)

\* The numbers of q grow.
Growing(q) == \A i, j \in 1 .. Len(q) : i < j => q[i] < q[j]

\* What a piece of text makes of the events read before it.
reads(r, t) == IF t = Kernel!Newline \/ ~r.ok THEN r ELSE Kernel!append_idempotent_memory(r.ids, t)
\* Nothing was read.
Unread == [ok |-> TRUE, ids |-> <<>>]
\* f is what is read of the first n pieces of a text.
Reads(f, text, n) == f = [i \in 0 .. n |-> IF i = 0 THEN Unread ELSE reads(f[i - 1], text[i])]

\* What the pieces of a text make of the memory, one after the other.
read(text) == CHOOSE f : Reads(f, text, Len(text))

\* A text can be read further by one piece.
LEMMA ReadsExtend ==
  ASSUME NEW text, NEW n \in Nat, NEW f, Reads(f, text, n)
  PROVE  \E g : Reads(g, text, n + 1)
<1> DEFINE g == [i \in 0 .. (n + 1) |-> IF i <= n THEN f[i] ELSE reads(f[n], text[n + 1])]
<1>1. \A i \in 0 .. n : f[i] = IF i = 0 THEN Unread ELSE reads(f[i - 1], text[i])
  BY DEF Reads
<1>2. ASSUME NEW i \in 0 .. (n + 1) PROVE g[i] = IF i = 0 THEN Unread ELSE reads(g[i - 1], text[i])
  <2>1. CASE i = 0
    BY <1>1, <2>1
  <2>2. CASE i # 0 /\ i <= n
    <3>1. i \in 0 .. n /\ i - 1 \in 0 .. (n + 1) /\ i - 1 <= n
      BY <2>2
    <3>2. g[i] = f[i] /\ g[i - 1] = f[i - 1]
      BY <3>1
    <3> QED BY <1>1, <2>2, <3>1, <3>2
  <2>3. CASE i = n + 1
    <3>1. g[i] = reads(f[n], text[n + 1])
      BY <2>3
    <3>2. g[n] = f[n]
      OBVIOUS
    <3>3. i - 1 = n /\ i # 0
      BY <2>3
    <3> HIDE DEF g
    <3> QED BY <2>3, <3>1, <3>2, <3>3
  <2> QED BY <2>1, <2>2, <2>3
<1>3. g = [i \in 0 .. (n + 1) |-> g[i]]
  OBVIOUS
<1> HIDE DEF g
<1>4. Reads(g, text, n + 1)
  BY <1>2, <1>3 DEF Reads
<1> QED BY <1>4

\* Any number of pieces can be read: there is no least number that cannot.
LEMMA ReadsExist == ASSUME NEW text, NEW n \in Nat PROVE \E f : Reads(f, text, n)
<1> DEFINE Bad == {k \in Nat : ~\E f : Reads(f, text, k)}
<1>1. ASSUME NEW k \in Bad, \A j \in Bad : ~(j < k) PROVE FALSE
  <2>1. CASE k = 0
    <3>1. Reads([i \in 0 .. 0 |-> Unread], text, 0)
      BY DEF Reads
    <3> QED BY <2>1, <3>1
  <2>2. CASE k # 0
    <3>1. k - 1 \in Nat /\ k - 1 < k /\ (k - 1) + 1 = k
      BY <2>2
    <3>2. k - 1 \notin Bad
      BY <1>1, <3>1
    <3>3. PICK f : Reads(f, text, k - 1)
      BY <3>1, <3>2
    <3>4. \E g : Reads(g, text, (k - 1) + 1)
      BY <3>1, <3>3, ReadsExtend
    <3> QED BY <3>1, <3>4
  <2> QED BY <2>1, <2>2
<1>2. Bad \in SUBSET Nat
  OBVIOUS
<1>3. Bad = {}
  <2> HIDE DEF Bad
  <2> QED BY <1>1, <1>2, LeastNatural
<1> QED BY <1>3

\* What is read of a text, piece by piece.
LEMMA ReadSteps ==
  ASSUME NEW T, NEW text \in Seq(T)
  PROVE  /\ read(text)[0] = Unread
         /\ \A i \in 1 .. Len(text) : read(text)[i] = reads(read(text)[i - 1], text[i])
<1>1. Len(text) \in Nat
  OBVIOUS
<1>2. Reads(read(text), text, Len(text))
  BY <1>1, ReadsExist DEF read
<1>3. \A i \in 0 .. Len(text) : read(text)[i] = IF i = 0 THEN Unread ELSE reads(read(text)[i - 1], text[i])
  BY <1>2 DEF Reads
<1> QED BY <1>1, <1>3

\* A text whose lines are records.
Parses(text) ==
  \A i \in 1 .. Len(text) : /\ text[i] # Kernel!Torn
                            /\ i > 1 => text[i] = Kernel!Newline \/ text[i - 1] = Kernel!Newline

\* What is replayed is what is read, if the lines are records.
LEMMA ReplayReads ==
  ASSUME NEW T, NEW text \in Seq(T)
  PROVE  Kernel!replay(text) = IF Parses(text) THEN read(text)[Len(text)] ELSE [ok |-> FALSE, ids |-> <<>>]
<1> DEFINE f(g) == g = [n \in 0..Len(text) |-> IF n = 0 THEN [ok |-> TRUE, ids |-> <<>>]
                      ELSE IF text[n] = Kernel!Newline \/ ~g[n - 1].ok THEN g[n - 1]
                      ELSE Kernel!append_idempotent_memory(g[n - 1].ids, text[n])]
<1>1. read(text) = CHOOSE g : f(g)
  BY DEF read, Reads, reads, Unread
<1>2. DOMAIN text = 1 .. Len(text)
  OBVIOUS
<1> QED BY <1>1, <1>2 DEF Kernel!replay, Parses

\* The pieces of a text: ids, newlines and torn records.
Text == 0 .. (MaxId + 1)

\* What is read are ids that grow.
Replayed(r) == r.ids \in Seq(1 .. MaxId) /\ r.ok \in BOOLEAN /\ Growing(r.ids)

\* What an id that is not there makes of the memory.
LEMMA MemoryGrows ==
  ASSUME MaxId \in Nat, NEW ids \in Seq(1 .. MaxId), Growing(ids), NEW id \in 1 .. MaxId
  PROVE  LET r == Kernel!append_to_memory(ids, id)
         IN /\ Replayed(r)
            /\ r = Kernel!append_idempotent_memory(ids, id) \/ id \in Kernel!ToSet(ids)
            /\ ~r.ok => r.ids = ids
            /\ r.ok => r.ids = Append(ids, id) /\ id \notin Kernel!ToSet(ids)
            /\ r.ok => Kernel!ToSet(r.ids) = Kernel!ToSet(ids) \cup {id}
<1> DEFINE r == Kernel!append_to_memory(ids, id)
<1>1. Len(ids) \in Nat /\ \A i \in 1 .. Len(ids) : ids[i] \in 1 .. MaxId
  OBVIOUS
<1>2. Kernel!ToSet(ids) = {ids[i] : i \in 1 .. Len(ids)}
  BY DEF Kernel!ToSet
<1>3. CASE r = [ok |-> FALSE, ids |-> ids]
  BY <1>3 DEF Replayed, Kernel!append_idempotent_memory, Kernel!append_to_memory
<1>4. CASE r # [ok |-> FALSE, ids |-> ids]
  <2>1. id \notin Kernel!ToSet(ids) /\ (ids = <<>> \/ id > Kernel!Last(ids)) /\ r = [ok |-> TRUE, ids |-> Append(ids, id)]
    BY <1>1, <1>4 DEF Kernel!append_to_memory, Kernel!Last
  <2> DEFINE q == Append(ids, id)
  <2>2. /\ q \in Seq(1 .. MaxId) /\ Len(q) = Len(ids) + 1 /\ q[Len(ids) + 1] = id
        /\ \A i \in 1 .. Len(ids) : q[i] = ids[i]
    OBVIOUS
  <2>3. \A i \in 1 .. Len(ids) : ids[i] < id
    <3>1. SUFFICES ASSUME NEW i \in 1 .. Len(ids) PROVE ids[i] < id
      OBVIOUS
    <3>2. ids # <<>> /\ Len(ids) \in 1 .. Len(ids) /\ ids[Len(ids)] < id
      BY <1>1, <2>1 DEF Kernel!Last
    <3>3. CASE i = Len(ids)
      BY <3>2, <3>3
    <3>4. CASE i < Len(ids)
      BY <1>1, <3>2, <3>4 DEF Growing
    <3> QED BY <1>1, <3>3, <3>4
  <2> HIDE DEF q
  <2>4. Growing(q)
    <3>1. SUFFICES ASSUME NEW i \in 1 .. Len(q), NEW j \in 1 .. Len(q), i < j PROVE q[i] < q[j]
      BY DEF Growing
    <3>2. i \in 1 .. Len(ids) /\ (j \in 1 .. Len(ids) \/ j = Len(ids) + 1)
      <4>1. i \in 1 .. (Len(ids) + 1) /\ j \in 1 .. (Len(ids) + 1)
        BY <2>2
      <4> QED BY <1>1, <3>1, <4>1
    <3> QED BY <2>2, <2>3, <3>1, <3>2 DEF Growing
  <2>5. {q[i] : i \in 1 .. Len(q)} = {ids[i] : i \in 1 .. Len(ids)} \cup {id}
    <3>1. 1 .. Len(q) = 1 .. Len(ids) \cup {Len(ids) + 1}
      BY <1>1, <2>2
    <3>2. ASSUME NEW i \in 1 .. Len(q) PROVE q[i] \in {ids[j] : j \in 1 .. Len(ids)} \cup {id}
      BY <2>2, <3>1
    <3>3. ASSUME NEW j \in 1 .. Len(ids) PROVE ids[j] \in {q[i] : i \in 1 .. Len(q)}
      BY <2>2, <3>1
    <3>4. id \in {q[i] : i \in 1 .. Len(q)}
      BY <2>2, <3>1
    <3> QED BY <3>2, <3>3, <3>4
  <2>6. Kernel!ToSet(q) = Kernel!ToSet(ids) \cup {id}
    <3>1. DOMAIN q = 1 .. Len(q)
      BY <2>2
    <3>2. Kernel!ToSet(q) = {q[i] : i \in 1 .. Len(q)}
      BY <3>1 DEF Kernel!ToSet
    <3> QED BY <1>2, <2>5, <3>2
  <2>7. r = [ok |-> TRUE, ids |-> q]
    BY <2>1 DEF q
  <2>8. r = Kernel!append_idempotent_memory(ids, id)
    BY <2>1 DEF Kernel!append_idempotent_memory
  <2> QED BY <2>1, <2>2, <2>4, <2>6, <2>7, <2>8 DEF Replayed, q
<1> QED BY <1>3, <1>4

\* What is read of a text whose lines are records are ids that grow.
LEMMA ReadGrows ==
  ASSUME MaxId \in Nat, NEW text \in Seq(Text), Parses(text), NEW n \in 0 .. Len(text)
  PROVE  Replayed(read(text)[n])
<1> DEFINE Bad == {k \in 0 .. Len(text) : ~Replayed(read(text)[k])}
<1>1. ASSUME NEW k \in Bad, \A j \in Bad : ~(j < k) PROVE FALSE
  <2>1. CASE k = 0
    <3>1. Replayed(Unread)
      BY DEF Replayed, Unread, Growing
    <3> QED BY <2>1, <3>1, ReadSteps
  <2>2. CASE k # 0
    <3>1. k \in 1 .. Len(text) /\ k - 1 \in 0 .. Len(text) /\ k - 1 < k
      BY <2>2
    <3> DEFINE r == read(text)[k - 1]
               s == read(text)[k]
    <3>2. Replayed(r) /\ s = reads(r, text[k])
      BY <1>1, <3>1, ReadSteps
    <3>3. text[k] \in Text /\ text[k] # MaxId + 1
      BY <3>1 DEF Parses, Kernel!Torn
    <3> HIDE DEF r, s
    <3>4. CASE text[k] = 0 \/ ~r.ok
      BY <3>2, <3>4 DEF reads, Kernel!Newline, r, s
    <3>5. CASE text[k] # 0 /\ r.ok
      <4>1. text[k] \in 1 .. MaxId
        BY <3>3, <3>5 DEF Text
      <4>2. s = Kernel!append_idempotent_memory(r.ids, text[k])
        BY <3>2, <3>5 DEF reads, Kernel!Newline
      <4>3. Replayed(s)
        <5>1. Replayed(Kernel!append_to_memory(r.ids, text[k]))
          BY <3>2, <4>1, MemoryGrows DEF Replayed
        <5> DEFINE same == [ok |-> TRUE, ids |-> r.ids]
        <5>2. Replayed(same)
          BY <3>2 DEF Replayed
        <5>3. s = same \/ s = Kernel!append_to_memory(r.ids, text[k])
          BY <4>2 DEF Kernel!append_idempotent_memory
        <5> HIDE DEF same
        <5> QED BY <5>1, <5>2, <5>3
      <4> QED BY <4>3 DEF s
    <3> QED BY <3>4, <3>5
  <2> QED BY <2>1, <2>2
<1>2. Bad \in SUBSET Nat
  OBVIOUS
<1>3. Bad = {}
  <2> HIDE DEF Bad
  <2> QED BY <1>1, <1>2, LeastNatural
<1> QED BY <1>3

\* What is read of a text does not depend on what is behind it.
LEMMA ReadFurther ==
  ASSUME NEW text \in Seq(Text), NEW t \in Text
  PROVE  LET more == Append(text, t)
         IN read(more)[Len(more)] = reads(read(text)[Len(text)], t)
<1> DEFINE more == Append(text, t)
           n == Len(text)
<1>1. /\ more \in Seq(Text) /\ n \in Nat /\ Len(more) = n + 1 /\ more[n + 1] = t
      /\ \A i \in 1 .. n : more[i] = text[i]
  OBVIOUS
<1> HIDE DEF more, n
<1>2. /\ read(more)[0] = Unread /\ read(text)[0] = Unread
      /\ \A i \in 1 .. (n + 1) : read(more)[i] = reads(read(more)[i - 1], more[i])
      /\ \A i \in 1 .. n : read(text)[i] = reads(read(text)[i - 1], text[i])
  BY <1>1, ReadSteps DEF n
<1> DEFINE Bad == {k \in 0 .. n : read(more)[k] # read(text)[k]}
<1>3. ASSUME NEW k \in Bad, \A j \in Bad : ~(j < k) PROVE FALSE
  <2>1. k # 0
    BY <1>2
  <2>2. k \in 1 .. n /\ k \in 1 .. (n + 1) /\ k - 1 \in 0 .. n /\ k - 1 < k
    BY <1>1, <2>1
  <2>3. read(more)[k - 1] = read(text)[k - 1]
    BY <1>3, <2>2
  <2> QED BY <1>1, <1>2, <2>2, <2>3
<1>4. Bad \in SUBSET Nat
  BY <1>1
<1>5. Bad = {}
  <2> HIDE DEF Bad
  <2> QED BY <1>3, <1>4, LeastNatural
<1>6. n \in 0 .. n /\ n + 1 \in 1 .. (n + 1) /\ (n + 1) - 1 = n
  BY <1>1
<1>7. read(more)[n] = read(text)[n]
  BY <1>5, <1>6
<1>8. read(more)[n + 1] = reads(read(text)[n], t)
  BY <1>1, <1>2, <1>6, <1>7
<1> QED BY <1>1, <1>8 DEF more, n

\* What an event store replays of a text with one more piece.
LEMMA ReplayFurther ==
  ASSUME MaxId \in Nat, NEW text \in Seq(Text), Kernel!replay(text).ok, NEW t \in 0 .. MaxId,
         t = 0 \/ text = <<>> \/ text[Len(text)] = 0
  PROVE  Kernel!replay(Append(text, t)) = reads(Kernel!replay(text), t)
<1> DEFINE more == Append(text, t)
           n == Len(text)
<1>1. /\ t \in Text /\ t # MaxId + 1 /\ more \in Seq(Text) /\ n \in Nat /\ Len(more) = n + 1 /\ more[n + 1] = t
      /\ \A i \in 1 .. n : more[i] = text[i]
  BY DEF Text
<1>2. Parses(text)
  BY ReplayReads
<1>3. Parses(more)
  <2>1. SUFFICES ASSUME NEW i \in 1 .. Len(more)
                 PROVE more[i] # Kernel!Torn /\ (i > 1 => more[i] = Kernel!Newline \/ more[i - 1] = Kernel!Newline)
    BY DEF Parses
  <2> HIDE DEF more
  <2>2. CASE i \in 1 .. n
    <3>1. i > 1 => i - 1 \in 1 .. n
      BY <1>1, <2>2
    <3> QED BY <1>1, <1>2, <2>2, <3>1 DEF Parses
  <2>3. CASE i = n + 1
    <3>1. i > 1 => text # <<>> /\ n \in 1 .. n /\ i - 1 = n
      BY <1>1, <2>3
    <3> QED BY <1>1, <2>3, <3>1 DEF Kernel!Torn, Kernel!Newline
  <2> QED BY <1>1, <2>1, <2>2, <2>3
<1>4. Kernel!replay(more) = read(more)[Len(more)]
  BY <1>1, <1>3, ReplayReads
<1>5. Kernel!replay(text) = read(text)[n]
  BY <1>2, ReplayReads
<1> QED BY <1>1, <1>4, <1>5, ReadFurther

\* A caller of the event store, and the store.
StoreCall == [at : {"idle", "absent", "text", "newline"}, id : 0 .. MaxId]
\* A caller that has a line to write.
Writing(c) == stores[c].at \in {"text", "newline"}

\* The store and the callers are of the types of the code.
StoreTypes ==
  /\ held \in [open : BOOLEAN, ids : Seq(1 .. MaxId)]
  /\ file \in Seq(Text)
  /\ stores \in [Writers -> StoreCall]
  /\ ghost \in [acked : SUBSET (1 .. MaxId), clean : BOOLEAN]
  /\ \A c \in Writers : stores[c].at # "idle" => stores[c].id # 0

\* What the file says of a memory when one line is written at a time and none was cut.
CleanInv ==
  ghost.clean =>
    LET kept == Kernel!replay(file)
    IN /\ kept.ok /\ ghost.acked \subseteq Kernel!ToSet(kept.ids)
       /\ \A c, d \in Writers : Writing(c) /\ Writing(d) => c = d
       /\ (\A c \in Writers : stores[c].at # "newline") => file = <<>> \/ file[Len(file)] = 0
       /\ \A c \in Writers : stores[c].at = "newline" => stores[c].id \in Kernel!ToSet(kept.ids)
       /\ \A c \in Writers : stores[c].at = "text" => held.ids = Append(kept.ids, stores[c].id)
       /\ held.open /\ (\A c \in Writers : stores[c].at # "text") => held.ids = kept.ids

\* The invariant of the event store.
StoreInv ==
  /\ StoreTypes
  /\ Growing(held.ids)
  /\ \A c \in Writers : stores[c].at # "idle" => held.open
  /\ CleanInv

\* What is replayed, if it can be, are ids that grow.
LEMMA ReplayGrows ==
  ASSUME MaxId \in Nat, NEW text \in Seq(Text)
  PROVE  Replayed(Kernel!replay(text))
<1>1. CASE Parses(text)
  <2>1. Len(text) \in 0 .. Len(text)
    OBVIOUS
  <2> QED BY <1>1, <2>1, ReplayReads, ReadGrows
<1>2. CASE ~Parses(text)
  <2>1. Kernel!replay(text) = [ok |-> FALSE, ids |-> <<>>]
    BY <1>2, ReplayReads
  <2> QED BY <2>1 DEF Replayed, Growing
<1> QED BY <1>1, <1>2

\* The empty file is replayed to no events.
LEMMA ReplayNothing == MaxId \in Nat => Kernel!replay(<<>>) = Unread
<1> SUFFICES ASSUME MaxId \in Nat PROVE Kernel!replay(<<>>) = Unread
  OBVIOUS
<1>1. <<>> \in Seq(Text) /\ Len(<<>>) = 0
  OBVIOUS
<1>2. Parses(<<>>)
  BY <1>1 DEF Parses
<1> QED BY <1>1, <1>2, ReplayReads, ReadSteps

\* The store is empty at first.
LEMMA StoreStarts == ASSUME MaxId \in Nat, Kernel!Init PROVE StoreInv
<1>1. /\ held = [open |-> FALSE, ids |-> <<>>] /\ file = <<>> /\ ghost = [acked |-> {}, clean |-> TRUE]
      /\ stores = [c \in Writers |-> [at |-> "idle", id |-> 0]]
  BY DEF Kernel!Init, Kernel!Closed, Kernel!Idle
<1>2. StoreTypes
  BY <1>1 DEF StoreTypes, StoreCall
<1>3. Kernel!replay(file).ok /\ \A c \in Writers : stores[c].at = "idle"
  BY <1>1, ReplayNothing DEF Unread
<1>4. CleanInv
  <2> DEFINE kept == Kernel!replay(file)
  <2>1. kept.ok /\ ghost.acked \subseteq Kernel!ToSet(kept.ids) /\ ~held.open
    BY <1>1, <1>3
  <2> HIDE DEF kept
  <2> QED BY <1>1, <1>3, <2>1 DEF CleanInv, Writing, kept
<1> QED BY <1>1, <1>2, <1>3, <1>4 DEF StoreInv, Growing

\* The memory half of an append.
LEMMA AppendedStep ==
  ASSUME MaxId \in Nat, StoreInv, NEW c \in Writers, NEW id \in 1 .. MaxId, held.open,
         stores[c].at \in {"idle", "absent"}, Kernel!appended(c, id)
  PROVE  StoreInv'
<1> DEFINE r == Kernel!append_to_memory(held.ids, id)
           next == IF r.ok THEN [at |-> "text", id |-> id] ELSE [at |-> "idle", id |-> 0]
           calm == r.ok => \A d \in Writers : stores[d].at \notin {"text", "newline"}
<1>0. StoreTypes /\ Growing(held.ids) /\ CleanInv /\ \A d \in Writers : stores[d].at # "idle" => held.open
  BY DEF StoreInv
<1>1. /\ Replayed(r) /\ (~r.ok => r.ids = held.ids) /\ (r.ok => r.ids = Append(held.ids, id))
  BY <1>0, MemoryGrows DEF StoreTypes
<1>2. /\ held' = [held EXCEPT !.ids = r.ids] /\ stores' = [stores EXCEPT ![c] = next]
      /\ ghost' = [ghost EXCEPT !.clean = @ /\ calm] /\ file' = file
  BY DEF Kernel!appended, Kernel!Idle
<1>3. next \in StoreCall /\ next.at \in {"idle", "text"} /\ (next.at = "text" <=> r.ok) /\ (r.ok => next.id = id)
  BY DEF StoreCall
<1>4. calm \in BOOLEAN
  OBVIOUS
<1> HIDE DEF r, next, calm
<1>5. /\ held'.open = held.open /\ held'.ids = r.ids /\ ghost'.acked = ghost.acked
      /\ ghost'.clean = (ghost.clean /\ calm) /\ stores'[c] = next /\ \A d \in Writers : d # c => stores'[d] = stores[d]
  BY <1>0, <1>2 DEF StoreTypes
<1>6. StoreTypes'
  <2>1. held' \in [open : BOOLEAN, ids : Seq(1 .. MaxId)] /\ file' \in Seq(Text) /\ stores' \in [Writers -> StoreCall]
    BY <1>0, <1>1, <1>2, <1>3 DEF StoreTypes, Replayed
  <2>2. ghost' \in [acked : SUBSET (1 .. MaxId), clean : BOOLEAN]
    BY <1>0, <1>2, <1>4 DEF StoreTypes
  <2>3. \A d \in Writers : stores'[d].at # "idle" => stores'[d].id # 0
    BY <1>0, <1>3, <1>5 DEF StoreTypes
  <2> QED BY <2>1, <2>2, <2>3 DEF StoreTypes
<1>7. CleanInv'
  <2> SUFFICES ASSUME ghost.clean, calm PROVE CleanInv'
    BY <1>5 DEF CleanInv
  <2>1. CASE r.ok
    <3>1. \A d \in Writers : stores[d].at \notin {"text", "newline"}
      BY <2>1 DEF calm
    <3>2. \A d \in Writers : stores'[d].at # "newline" /\ (stores'[d].at = "text" => d = c)
      BY <1>3, <1>5, <3>1
    <3>3. held.ids = Kernel!replay(file).ids
      BY <1>0, <3>1 DEF CleanInv
    <3>4. \A d \in Writers : stores'[d].at = "text" => held'.ids = Append(Kernel!replay(file).ids, stores'[d].id)
      BY <1>1, <1>3, <1>5, <2>1, <3>2, <3>3
    <3>5. \E d \in Writers : stores'[d].at = "text"
      BY <1>3, <1>5, <2>1
    <3>6. Kernel!replay(file)' = Kernel!replay(file)
      BY <1>2 DEF Kernel!replay, Kernel!append_idempotent_memory, Kernel!append_to_memory
    <3> QED BY <1>0, <1>2, <1>5, <3>1, <3>2, <3>4, <3>5, <3>6 DEF CleanInv, Writing
  <2>2. CASE ~r.ok
    <3>1. \A d \in Writers : /\ stores'[d].at = "newline" <=> stores[d].at = "newline"
                             /\ stores'[d].at = "text" <=> stores[d].at = "text"
                             /\ stores[d].at \in {"text", "newline"} => stores'[d] = stores[d]
      BY <1>3, <1>5, <2>2
    <3>2. Kernel!replay(file)' = Kernel!replay(file)
      BY <1>2 DEF Kernel!replay, Kernel!append_idempotent_memory, Kernel!append_to_memory
    <3> QED BY <1>0, <1>1, <1>2, <1>5, <2>2, <3>1, <3>2 DEF CleanInv, Writing
  <2> QED BY <2>1, <2>2
<1> QED BY <1>0, <1>1, <1>3, <1>5, <1>6, <1>7 DEF StoreInv, Replayed

\* A file that a step leaves alone is replayed as before.
LEMMA ReplayStays == ASSUME UNCHANGED file PROVE Kernel!replay(file)' = Kernel!replay(file)
BY DEF Kernel!replay, Kernel!append_idempotent_memory, Kernel!append_to_memory

\* The other steps of the store.
LEMMA StoreStep == ASSUME MaxId \in Nat, StoreInv, Kernel!StoreNext PROVE StoreInv'
<1>0. StoreTypes /\ Growing(held.ids) /\ CleanInv /\ \A d \in Writers : stores[d].at # "idle" => held.open
  BY DEF StoreInv
<1> DEFINE kept == Kernel!replay(file)
<1>1. Replayed(kept)
  BY <1>0, ReplayGrows DEF StoreTypes
<1>2. CASE Kernel!open
  <2>1. held' = [open |-> TRUE, ids |-> kept.ids] /\ UNCHANGED <<file, stores, ghost>> /\ ~held.open
    BY <1>2 DEF Kernel!open
  <2>2. \A c \in Writers : stores[c].at = "idle"
    BY <1>0, <2>1
  <2>3. Kernel!replay(file)' = kept
    BY <2>1, ReplayStays
  <2> HIDE DEF kept
  <2>4. StoreTypes' /\ Growing(held'.ids)
    BY <1>0, <1>1, <2>1 DEF StoreTypes, Replayed
  <2>5. CleanInv'
    BY <1>0, <2>1, <2>2, <2>3 DEF CleanInv, Writing, kept
  <2> QED BY <2>1, <2>2, <2>4, <2>5 DEF StoreInv
<1>3. CASE Kernel!crash
  <2>1. /\ held' = [open |-> FALSE, ids |-> <<>>] /\ stores' = [c \in Writers |-> [at |-> "idle", id |-> 0]]
        /\ ghost' = [ghost EXCEPT !.clean = @ /\ \A c \in Writers : stores[c].at # "newline"] /\ UNCHANGED file
    BY <1>3 DEF Kernel!crash, Kernel!Closed, Kernel!Idle
  <2>2. /\ \A c \in Writers : stores'[c] = [at |-> "idle", id |-> 0]
        /\ ghost'.acked = ghost.acked /\ ghost'.clean \in BOOLEAN
        /\ ghost'.clean = (ghost.clean /\ \A c \in Writers : stores[c].at # "newline")
    BY <1>0, <2>1 DEF StoreTypes
  <2>3. Kernel!replay(file)' = kept
    BY <2>1, ReplayStays
  <2> HIDE DEF kept
  <2>4. StoreTypes' /\ Growing(held'.ids)
    <3>1. held' \in [open : BOOLEAN, ids : Seq(1 .. MaxId)] /\ file' \in Seq(Text)
      BY <1>0, <2>1 DEF StoreTypes
    <3>2. [at |-> "idle", id |-> 0] \in StoreCall
      BY DEF StoreCall
    <3>3. stores' \in [Writers -> StoreCall]
      BY <2>1, <3>2
    <3>4. ghost' \in [acked : SUBSET (1 .. MaxId), clean : BOOLEAN]
      <4> DEFINE still == ghost.clean /\ \A c \in Writers : stores[c].at # "newline"
      <4>1. ghost' = [ghost EXCEPT !.clean = still] /\ still \in BOOLEAN
        BY <1>0, <2>1 DEF StoreTypes
      <4> HIDE DEF still
      <4> QED BY <1>0, <4>1 DEF StoreTypes
    <3>5. Growing(held'.ids)
      BY <2>1 DEF Growing
    <3> QED BY <2>2, <3>1, <3>3, <3>4, <3>5 DEF StoreTypes
  <2>5. CleanInv'
    BY <1>0, <2>1, <2>2, <2>3 DEF CleanInv, Writing, kept
  <2> QED BY <2>2, <2>4, <2>5 DEF StoreInv
<1>4. ASSUME NEW c \in Writers, NEW id \in 1 .. MaxId, Kernel!append(c, id) PROVE StoreInv'
  <2>1. held.open /\ stores[c].at = "idle" /\ Kernel!appended(c, id)
    BY <1>4 DEF Kernel!append, Kernel!Idle
  <2> QED BY <2>1, AppendedStep
<1>5. ASSUME NEW c \in Writers, Kernel!append_absent(c) PROVE StoreInv'
  <2>1. stores[c].at = "absent" /\ Kernel!appended(c, stores[c].id) /\ held.open /\ stores[c].id \in 1 .. MaxId
    BY <1>0, <1>5 DEF Kernel!append_absent, StoreTypes, StoreCall
  <2> QED BY <2>1, AppendedStep
<1>6. ASSUME NEW c \in Writers, NEW id \in 1 .. MaxId, Kernel!append_idempotent(c, id) PROVE StoreInv'
  <2>1. held.open /\ stores[c].at = "idle" /\ UNCHANGED <<held, file>>
    BY <1>6 DEF Kernel!append_idempotent, Kernel!Idle
  <2>2. Kernel!replay(file)' = kept
    BY <2>1, ReplayStays
  <2> HIDE DEF kept
  <2>3. CASE id \in Kernel!ToSet(held.ids)
    <3>1. /\ ghost' = [ghost EXCEPT !.acked = @ \cup {id}, !.clean = @ /\ \A d \in Writers : stores[d].id # id]
          /\ UNCHANGED stores
      BY <1>6, <2>3 DEF Kernel!append_idempotent
    <3>2. /\ ghost'.acked = ghost.acked \cup {id} /\ ghost'.clean \in BOOLEAN
          /\ ghost'.clean = (ghost.clean /\ \A d \in Writers : stores[d].id # id)
      BY <1>0, <3>1 DEF StoreTypes
    <3>3. StoreTypes'
      BY <1>0, <2>1, <3>1 DEF StoreTypes
    <3>4. ASSUME ghost'.clean PROVE id \in Kernel!ToSet(kept.ids)
      <4>1. CASE \A d \in Writers : stores[d].at # "text"
        BY <1>0, <2>1, <2>3, <3>2, <3>4, <4>1 DEF CleanInv, kept
      <4>2. ASSUME NEW d \in Writers, stores[d].at = "text" PROVE id \in Kernel!ToSet(kept.ids)
        <5>1. held.ids = Append(kept.ids, stores[d].id) /\ stores[d].id # id
          BY <1>0, <3>2, <3>4, <4>2 DEF CleanInv, kept
        <5>2. PICK i \in 1 .. Len(held.ids) : held.ids[i] = id
          BY <1>0, <2>3 DEF Kernel!ToSet, StoreTypes
        <5>3. kept.ids \in Seq(1 .. MaxId) /\ stores[d].id \in 1 .. MaxId
          BY <1>0, <1>1, <4>2 DEF Replayed, StoreTypes, StoreCall
        <5>4. i \in 1 .. Len(kept.ids) /\ kept.ids[i] = id
          BY <5>1, <5>2, <5>3
        <5> QED BY <5>3, <5>4 DEF Kernel!ToSet
      <4> QED BY <4>1, <4>2
    <3>5. CleanInv'
      BY <1>0, <2>1, <2>2, <3>1, <3>2, <3>4 DEF CleanInv, Writing, kept
    <3> QED BY <1>0, <2>1, <3>1, <3>3, <3>5 DEF StoreInv
  <2>4. CASE id \notin Kernel!ToSet(held.ids)
    <3>1. UNCHANGED ghost /\ stores' = [stores EXCEPT ![c] = [at |-> "absent", id |-> id]]
      BY <1>6, <2>4 DEF Kernel!append_idempotent
    <3>2. \A d \in Writers : stores'[d] = IF d = c THEN [at |-> "absent", id |-> id] ELSE stores[d]
      BY <1>0, <3>1 DEF StoreTypes
    <3>3. StoreTypes'
      BY <1>0, <2>1, <3>1, <3>2 DEF StoreTypes, StoreCall
    <3>4. \A d \in Writers : /\ stores'[d].at = "newline" <=> stores[d].at = "newline"
                             /\ stores'[d].at = "text" <=> stores[d].at = "text"
                             /\ stores[d].at \in {"text", "newline"} => stores'[d] = stores[d]
      BY <2>1, <3>2
    <3>5. CleanInv'
      BY <1>0, <2>1, <2>2, <3>1, <3>4 DEF CleanInv, Writing, kept
    <3> QED BY <1>0, <2>1, <3>2, <3>3, <3>5 DEF StoreInv
  <2> QED BY <2>3, <2>4
<1>7. ASSUME NEW c \in Writers, Kernel!write_text(c) PROVE StoreInv'
  <2> DEFINE id == stores[c].id
  <2>1. /\ stores[c].at = "text" /\ file' = Append(file, id) /\ UNCHANGED <<held, ghost>>
        /\ stores' = [stores EXCEPT ![c].at = "newline"]
    BY <1>7 DEF Kernel!write_text
  <2>2. id \in 1 .. MaxId /\ id \in Text /\ id \in 0 .. MaxId /\ held.open
    BY <1>0, <2>1 DEF StoreTypes, StoreCall, Text
  <2>3. stores'[c].at = "newline" /\ stores'[c].id = id /\ \A d \in Writers : d # c => stores'[d] = stores[d]
    BY <1>0, <2>1 DEF StoreTypes
  <2> HIDE DEF id, kept
  <2>4. StoreTypes'
    <3>1. file' \in Seq(Text)
      BY <1>0, <2>1, <2>2 DEF StoreTypes
    <3>2. stores' \in [Writers -> StoreCall]
      BY <1>0, <2>1 DEF StoreTypes, StoreCall
    <3>3. ASSUME NEW d \in Writers, stores'[d].at # "idle" PROVE stores'[d].id # 0
      <4>1. CASE d = c
        <5>1. id # 0
          BY <2>2
        <5> QED BY <2>3, <4>1, <5>1
      <4>2. CASE d # c
        <5>1. stores'[d] = stores[d]
          BY <2>3, <4>2
        <5> QED BY <1>0, <3>3, <5>1 DEF StoreTypes
      <4> QED BY <4>1, <4>2
    <3> QED BY <1>0, <2>1, <3>1, <3>2, <3>3 DEF StoreTypes
  <2>5. ASSUME ghost.clean PROVE CleanInv'
    <3>1. /\ kept.ok /\ ghost.acked \subseteq Kernel!ToSet(kept.ids) /\ held.ids = Append(kept.ids, id)
          /\ \A d \in Writers : Writing(d) => d = c
          /\ file = <<>> \/ file[Len(file)] = 0
      BY <1>0, <2>1, <2>5 DEF CleanInv, Writing, kept, id
    <3>2. Kernel!replay(file') = reads(kept, id)
      BY <1>0, <2>1, <2>2, <3>1, ReplayFurther DEF kept, StoreTypes
    <3>3. kept.ids \in Seq(1 .. MaxId) /\ Growing(kept.ids)
      BY <1>1 DEF Replayed
    <3>4. id \notin Kernel!ToSet(kept.ids) /\ (kept.ids = <<>> \/ id > Kernel!Last(kept.ids))
      <4> DEFINE q == kept.ids
      <4>1. /\ Len(q) \in Nat /\ Len(held.ids) = Len(q) + 1 /\ held.ids[Len(q) + 1] = id
            /\ \A i \in 1 .. Len(q) : held.ids[i] = q[i] /\ q[i] \in 1 .. MaxId
        BY <2>2, <3>1, <3>3
      <4> HIDE DEF q
      <4>2. \A i \in 1 .. Len(q) : q[i] < id
        BY <1>0, <4>1 DEF Growing
      <4>3. id \notin Kernel!ToSet(q)
        <5>1. Kernel!ToSet(q) = {q[i] : i \in 1 .. Len(q)}
          BY <3>3 DEF Kernel!ToSet, q
        <5> QED BY <2>2, <4>1, <4>2, <5>1
      <4>4. q = <<>> \/ id > Kernel!Last(q)
        <5>1. q = <<>> \/ Len(q) \in 1 .. Len(q)
          BY <3>3 DEF q
        <5> QED BY <2>2, <4>1, <4>2, <5>1 DEF Kernel!Last
      <4> QED BY <4>3, <4>4 DEF q
    <3>5. reads(kept, id) = [ok |-> TRUE, ids |-> held.ids]
      <4>1. id # 0 /\ kept.ok
        BY <2>2, <3>1
      <4>2. reads(kept, id) = Kernel!append_to_memory(kept.ids, id)
        BY <3>4, <4>1 DEF reads, Kernel!append_idempotent_memory, Kernel!Newline
      <4>3. ~(kept.ids # <<>> /\ id <= Kernel!Last(kept.ids))
        <5>1. kept.ids # <<>> => Kernel!Last(kept.ids) \in 1 .. MaxId
          BY <3>3 DEF Kernel!Last
        <5> QED BY <2>2, <3>4, <5>1
      <4>4. Kernel!append_to_memory(kept.ids, id) = [ok |-> TRUE, ids |-> Append(kept.ids, id)]
        BY <3>4, <4>3 DEF Kernel!append_to_memory
      <4> QED BY <3>1, <4>2, <4>4
    <3>6. Kernel!replay(file)' = [ok |-> TRUE, ids |-> held.ids]
      <4>1. Kernel!replay(file)' = Kernel!replay(file')
        BY DEF Kernel!replay, Kernel!append_idempotent_memory, Kernel!append_to_memory
      <4> QED BY <3>2, <3>5, <4>1
    <3>7. ghost.acked \subseteq Kernel!ToSet(held.ids) /\ id \in Kernel!ToSet(held.ids)
      <4> DEFINE q == kept.ids
      <4>1. /\ Len(q) \in Nat /\ Len(held.ids) = Len(q) + 1 /\ held.ids[Len(q) + 1] = id
            /\ \A i \in 1 .. Len(q) : held.ids[i] = q[i]
        BY <2>2, <3>1, <3>3
      <4> HIDE DEF q
      <4>2. Kernel!ToSet(q) = {q[i] : i \in 1 .. Len(q)}
            /\ Kernel!ToSet(held.ids) = {held.ids[i] : i \in 1 .. Len(held.ids)}
        BY <1>0, <3>3 DEF Kernel!ToSet, q, StoreTypes
      <4>3. \A i \in 1 .. Len(q) : i \in 1 .. Len(held.ids)
        BY <4>1
      <4>4. Len(q) + 1 \in 1 .. Len(held.ids)
        BY <4>1
      <4>5. Kernel!ToSet(q) \subseteq Kernel!ToSet(held.ids) /\ id \in Kernel!ToSet(held.ids)
        BY <4>1, <4>2, <4>3, <4>4
      <4> QED BY <3>1, <4>5 DEF q
    <3>8. \A d \in Writers : stores'[d].at # "text" /\ (Writing(d)' => d = c) /\ (stores'[d].at = "newline" => d = c)
      BY <2>3, <3>1 DEF Writing
    <3> QED BY <2>1, <2>3, <3>6, <3>7, <3>8 DEF CleanInv
  <2> QED BY <1>0, <2>1, <2>2, <2>3, <2>4, <2>5 DEF StoreInv, CleanInv
<1>8. ASSUME NEW c \in Writers, Kernel!write_newline(c) PROVE StoreInv'
  <2> DEFINE id == stores[c].id
  <2>1. /\ stores[c].at = "newline" /\ file' = Append(file, 0) /\ UNCHANGED held
        /\ stores' = [stores EXCEPT ![c] = [at |-> "idle", id |-> 0]] /\ ghost' = [ghost EXCEPT !.acked = @ \cup {id}]
    BY <1>8 DEF Kernel!write_newline, Kernel!Newline, Kernel!Idle
  <2>2. id \in 1 .. MaxId /\ 0 \in Text /\ 0 \in 0 .. MaxId
    BY <1>0, <2>1 DEF StoreTypes, StoreCall, Text
  <2>3. stores'[c] = [at |-> "idle", id |-> 0] /\ \A d \in Writers : d # c => stores'[d] = stores[d]
    BY <1>0, <2>1 DEF StoreTypes
  <2>4. ghost'.acked = ghost.acked \cup {id} /\ ghost'.clean = ghost.clean
    BY <1>0, <2>1 DEF StoreTypes
  <2>5. file' \in Seq(Text) /\ file'[Len(file')] = 0
    BY <1>0, <2>1, <2>2 DEF StoreTypes
  <2> HIDE DEF id, kept
  <2>6. StoreTypes'
    BY <1>0, <2>1, <2>2, <2>3, <2>5 DEF StoreTypes, StoreCall
  <2>7. ASSUME ghost.clean PROVE CleanInv'
    <3>1. /\ kept.ok /\ ghost.acked \subseteq Kernel!ToSet(kept.ids) /\ id \in Kernel!ToSet(kept.ids)
          /\ \A d \in Writers : Writing(d) => d = c
          /\ held.open => held.ids = kept.ids
      BY <1>0, <2>1, <2>7 DEF CleanInv, Writing, kept, id
    <3>2. Kernel!replay(file)' = kept
      <4>1. Kernel!replay(file') = reads(kept, 0)
        BY <1>0, <2>1, <2>2, <3>1, ReplayFurther DEF kept, StoreTypes
      <4>2. Kernel!replay(file)' = Kernel!replay(file')
        BY DEF Kernel!replay, Kernel!append_idempotent_memory, Kernel!append_to_memory
      <4> QED BY <4>1, <4>2 DEF reads, Kernel!Newline
    <3>3. \A d \in Writers : stores'[d].at \notin {"text", "newline"} /\ ~Writing(d)'
      BY <2>3, <3>1 DEF Writing
    <3> QED BY <2>1, <2>4, <2>5, <3>1, <3>2, <3>3 DEF CleanInv
  <2> QED BY <1>0, <2>1, <2>3, <2>4, <2>6, <2>7 DEF StoreInv, CleanInv
<1>9. ASSUME NEW c \in Writers, Kernel!write_fails(c) PROVE StoreInv'
  <2>1. /\ stores[c].at \in {"text", "newline"} /\ UNCHANGED held
        /\ file' = file \/ file' = Append(file, MaxId + 1)
        /\ stores' = [stores EXCEPT ![c] = [at |-> "idle", id |-> 0]] /\ ghost' = [ghost EXCEPT !.clean = FALSE]
    BY <1>9 DEF Kernel!write_fails, Kernel!Torn, Kernel!Idle
  <2>2. file' \in Seq(Text)
    <3>1. MaxId + 1 \in Text
      BY DEF Text
    <3>2. file \in Seq(Text)
      BY <1>0 DEF StoreTypes
    <3>3. Append(file, MaxId + 1) \in Seq(Text)
      BY <3>1, <3>2
    <3> QED BY <2>1, <3>2, <3>3
  <2>3. \A d \in Writers : stores'[d] = IF d = c THEN [at |-> "idle", id |-> 0] ELSE stores[d]
    BY <1>0, <2>1 DEF StoreTypes
  <2>4. StoreTypes' /\ ~ghost'.clean
    <3>1. [at |-> "idle", id |-> 0] \in StoreCall
      BY DEF StoreCall
    <3>2. stores' \in [Writers -> StoreCall]
      BY <1>0, <2>1, <3>1 DEF StoreTypes
    <3>3. ghost' \in [acked : SUBSET (1 .. MaxId), clean : BOOLEAN] /\ ~ghost'.clean
      BY <1>0, <2>1 DEF StoreTypes
    <3>4. \A d \in Writers : stores'[d].at # "idle" => stores'[d].id # 0
      BY <1>0, <2>3 DEF StoreTypes
    <3> QED BY <1>0, <2>1, <2>2, <3>2, <3>3, <3>4 DEF StoreTypes
  <2> QED BY <1>0, <2>1, <2>3, <2>4 DEF StoreInv, CleanInv
<1> QED BY <1>2, <1>3, <1>4, <1>5, <1>6, <1>7, <1>8, <1>9 DEF Kernel!StoreNext

\* Reading on after a cursor gives the ids that follow it, if none before them is above it.
LEMMA IdsAfter ==
  ASSUME NEW T, NEW q \in Seq(T), held.ids = q, NEW k \in 0..Len(q), NEW cursor,
         \A i \in 1..Len(q) : q[i] > cursor <=> i > k
  PROVE  Kernel!events_after(cursor) = SubSeq(q, k + 1, Len(q))
<1> DEFINE n == Len(q)
           g == [i \in 0..n |-> SubSeq(q, k + 1, i)]
           h == CHOOSE f : f = [i \in 0..n |-> IF i = 0 THEN <<>>
                                               ELSE IF q[i] > cursor THEN Append(f[i - 1], q[i]) ELSE f[i - 1]]
<1>1. Kernel!events_after(cursor) = h[n]
  BY DEF Kernel!events_after
<1>2. n \in Nat /\ k \in 0..n
  OBVIOUS
<1>3. ASSUME NEW i \in 0..n
      PROVE  SubSeq(q, k + 1, i) = IF i = 0 THEN <<>>
                    ELSE IF q[i] > cursor THEN Append(SubSeq(q, k + 1, i - 1), q[i]) ELSE SubSeq(q, k + 1, i - 1)
  <2>1. CASE i <= k
    <3>1. SubSeq(q, k + 1, i) = <<>> /\ (i # 0 => SubSeq(q, k + 1, i - 1) = <<>>)
      BY <1>2, <2>1
    <3>2. i # 0 => ~(q[i] > cursor)
      BY <1>2, <2>1
    <3> QED BY <3>1, <3>2
  <2>2. CASE ~(i <= k)
    <3>1. i # 0 /\ i \in 1..n /\ q[i] > cursor
      BY <1>2, <2>2
    <3> DEFINE a == SubSeq(q, k + 1, i)
               b == Append(SubSeq(q, k + 1, i - 1), q[i])
    <3>2. a \in Seq(T) /\ b \in Seq(T) /\ Len(a) = i - k /\ Len(b) = i - k
      <4>1. a \in Seq(T) /\ Len(a) = i - k
        BY <1>2, <2>2, <3>1
      <4>2. SubSeq(q, k + 1, i - 1) \in Seq(T) /\ Len(SubSeq(q, k + 1, i - 1)) = (i - k) - 1
        BY <1>2, <2>2, <3>1
      <4>3. q[i] \in T
        BY <3>1
      <4> QED BY <1>2, <3>1, <4>1, <4>2, <4>3
    <3>3. \A j \in 1..(i - k) : a[j] = q[k + j] /\ b[j] = q[k + j]
      <4> TAKE j \in 1..(i - k)
      <4>1. a[j] = q[k + j]
        BY <1>2, <2>2, <3>1
      <4>2. b[j] = q[k + j]
        BY <1>2, <2>2, <3>1
      <4> QED BY <4>1, <4>2
    <3> HIDE DEF a, b
    <3>4. a = b
      <4>1. Len(a) = Len(b) /\ \A j \in 1..Len(a) : a[j] = b[j]
        BY <3>2, <3>3
      <4> QED BY <3>2, <4>1, SeqEqual
    <3> QED BY <3>1, <3>4 DEF a, b
  <2> QED BY <2>1, <2>2
<1>4. g = [i \in 0..n |-> IF i = 0 THEN <<>>
                          ELSE IF q[i] > cursor THEN Append(g[i - 1], q[i]) ELSE g[i - 1]]
  <2>1. \A i \in 0..n : i # 0 => i - 1 \in 0..n /\ g[i - 1] = SubSeq(q, k + 1, i - 1)
    <3>1. \A x \in 0..n : g[x] = SubSeq(q, k + 1, x)
      OBVIOUS
    <3>2. \A i \in 0..n : i # 0 => i - 1 \in 0..n
      BY <1>2
    <3> HIDE DEF g
    <3> QED BY <3>1, <3>2
  <2> QED BY <1>3, <2>1
<1>5. h = [i \in 0..n |-> IF i = 0 THEN <<>>
                          ELSE IF q[i] > cursor THEN Append(h[i - 1], q[i]) ELSE h[i - 1]]
  <2> HIDE DEF g
  <2> QED BY <1>4
<1> DEFINE Bad == {i \in 0..n : h[i] # g[i]}
<1>6. ASSUME NEW i \in Bad, \A j \in Bad : ~(j < i) PROVE FALSE
  <2> HIDE DEF g, h
  <2>1. /\ g[i] = IF i = 0 THEN <<>> ELSE IF q[i] > cursor THEN Append(g[i - 1], q[i]) ELSE g[i - 1]
        /\ h[i] = IF i = 0 THEN <<>> ELSE IF q[i] > cursor THEN Append(h[i - 1], q[i]) ELSE h[i - 1]
    BY <1>4, <1>5
  <2>2. i # 0 /\ i - 1 \in 0..n /\ i - 1 < i
    BY <1>2, <2>1
  <2>3. h[i - 1] = g[i - 1]
    BY <1>6, <2>2
  <2> QED BY <2>1, <2>2, <2>3
<1>7. Bad \in SUBSET Nat
  OBVIOUS
<1>8. Bad = {}
  <2> HIDE DEF Bad
  <2> QED BY <1>6, <1>7, LeastNatural
<1>9. h[n] = g[n]
  <2> HIDE DEF g, h
  <2> QED BY <1>2, <1>8
<1>10. g[n] = SubSeq(q, k + 1, n)
  BY <1>2
<1> HIDE DEF g, h
<1> QED BY <1>1, <1>9, <1>10

\* A store lists all its events after the cursor 0, and none after the latest cursor.
LEMMA CursorsAgree ==
  ASSUME MaxId \in Nat, StoreInv
  PROVE  Kernel!events_after(Kernel!latest_cursor) = <<>> /\ Kernel!events_after(0) = held.ids
<1> DEFINE q == held.ids
           n == Len(q)
<1>1. q \in Seq(1 .. MaxId) /\ n \in Nat /\ Growing(q) /\ \A i \in 1 .. n : q[i] \in 1 .. MaxId
  BY DEF StoreInv, StoreTypes
<1>2. Kernel!events_after(0) = SubSeq(q, 1, n)
  <2>1. \A i \in 1 .. n : q[i] > 0 <=> i > 0
    BY <1>1
  <2>2. 0 \in 0 .. n /\ 0 + 1 = 1
    BY <1>1
  <2>3. held.ids = q
    OBVIOUS
  <2> HIDE DEF q
  <2>4. Kernel!events_after(0) = SubSeq(q, 0 + 1, Len(q))
    BY <1>1, <2>1, <2>2, <2>3, IdsAfter
  <2> QED BY <2>2, <2>4
<1>3. SubSeq(q, 1, n) = q
  BY <1>1
<1>4. Kernel!events_after(Kernel!latest_cursor) = <<>>
  <2>1. \A i \in 1 .. n : ~(q[i] > Kernel!latest_cursor)
    <3>1. CASE n = 0
      BY <3>1
    <3>2. CASE n # 0
      <4>1. Kernel!latest_cursor = q[n] /\ n \in 1 .. n
        <5>1. q # <<>>
          BY <3>2
        <5> QED BY <1>1, <3>2, <5>1 DEF Kernel!latest_cursor, Kernel!Last
      <4> HIDE DEF q, n
      <4>2. ASSUME NEW i \in 1 .. n PROVE ~(q[i] > q[n])
        <5>1. q[i] \in Nat /\ q[n] \in Nat
          BY <1>1, <4>1
        <5>2. i = n \/ q[i] < q[n]
          BY <1>1, <4>1 DEF Growing, n
        <5> QED BY <5>1, <5>2
      <4> QED BY <4>1, <4>2
    <3> QED BY <1>1, <3>1, <3>2
  <2>2. n \in 0 .. n /\ \A i \in 1 .. n : ~(i > n)
    BY <1>1
  <2>3. held.ids = q
    OBVIOUS
  <2> HIDE DEF q
  <2>4. Kernel!events_after(Kernel!latest_cursor) = SubSeq(q, n + 1, n)
    BY <1>1, <2>1, <2>2, <2>3, IdsAfter
  <2>5. SubSeq(q, n + 1, n) = <<>>
    BY <1>1
  <2> QED BY <2>4, <2>5
<1> QED BY <1>2, <1>3, <1>4

\* The runtime has a state of the code, and in production no test doubles.
RuntimeInv ==
  /\ runtime.state \in Kernel!KernelRuntimeState \cup {"Unbuilt"}
  /\ runtime = [state |-> runtime.state, mode |-> runtime.mode, kind |-> runtime.kind]
  /\ runtime.mode = "Production" => ~Kernel!is_test_only(runtime.kind)

\* Building a runtime, and a step of its lifecycle.
LEMMA RuntimeStep == ASSUME RuntimeInv, Kernel!RuntimeNext PROVE RuntimeInv' /\ UNCHANGED <<held, file, stores, ghost>>
<1>1. ASSUME NEW b \in Kernel!Builder, Kernel!build(b) PROVE RuntimeInv' /\ UNCHANGED <<held, file, stores, ghost>>
  <2>1. /\ runtime' = [state |-> "New", mode |-> b.mode, kind |-> IF b.mode = "Production" THEN b.kind ELSE "InMemoryTest"]
        /\ b.mode = "Production" => ~Kernel!is_test_only(b.kind)
        /\ UNCHANGED <<held, file, stores, ghost>>
    BY <1>1 DEF Kernel!build, Kernel!client_build, Kernel!dependencies_validate
  <2>2. runtime'.state = "New" /\ runtime'.mode = b.mode /\ (b.mode = "Production" => runtime'.kind = b.kind)
    BY <2>1
  <2> QED BY <2>1, <2>2 DEF RuntimeInv, Kernel!KernelRuntimeState, Kernel!is_test_only
<1>2. ASSUME NEW from, NEW to \in Kernel!KernelRuntimeState, Kernel!lifecycle(from, to)
      PROVE  RuntimeInv' /\ UNCHANGED <<held, file, stores, ghost>>
  <2>1. runtime' = [runtime EXCEPT !.state = to] /\ UNCHANGED <<held, file, stores, ghost>>
    BY <1>2 DEF Kernel!lifecycle
  <2>2. runtime' = [state |-> to, mode |-> runtime.mode, kind |-> runtime.kind]
    BY <2>1 DEF RuntimeInv
  <2>3. runtime'.state = to /\ runtime'.mode = runtime.mode /\ runtime'.kind = runtime.kind
    BY <2>2
  <2> QED BY <2>1, <2>2, <2>3 DEF RuntimeInv, Kernel!is_test_only
<1>3. \A x \in {"New", "Initialized", "Started", "Shutdown"} : x \in Kernel!KernelRuntimeState
  BY DEF Kernel!KernelRuntimeState
<1>4. Kernel!init_runtime \/ Kernel!start \/ Kernel!shutdown \/ Kernel!recover
      => \E from, to : to \in Kernel!KernelRuntimeState /\ Kernel!lifecycle(from, to)
  BY <1>3 DEF Kernel!init_runtime, Kernel!start, Kernel!shutdown, Kernel!recover
<1> QED BY <1>1, <1>2, <1>4 DEF Kernel!RuntimeNext

\* The invariant of the kernel.
KernelInv == StoreInv /\ RuntimeInv

\* What the invariant says of the kernel.
LEMMA KernelFollows == ASSUME MaxId \in Nat, KernelInv PROVE Kernel!TypeOK /\ Kernel!HostSound
<1>1. Kernel!TypeOK
  <2>1. Kernel!ToSet(held.ids) \subseteq 1 .. MaxId
    BY DEF KernelInv, StoreInv, StoreTypes, Kernel!ToSet
  <2>2. Kernel!ToSet(file) \subseteq 0 .. (MaxId + 1)
    BY DEF KernelInv, StoreInv, StoreTypes, Text, Kernel!ToSet
  <2> QED BY <2>1, <2>2 DEF KernelInv, StoreInv, StoreTypes, RuntimeInv, Kernel!TypeOK, Kernel!Torn
<1>2. Kernel!EventsReopen
  <2>1. ASSUME ghost.clean
        PROVE  /\ Kernel!replay(file).ok
               /\ ghost.acked \subseteq Kernel!ToSet(Kernel!replay(file).ids)
               /\ held.open /\ (\A c \in Writers : stores[c].at \in {"idle", "absent"}) =>
                    held.ids = Kernel!replay(file).ids
    BY <2>1 DEF KernelInv, StoreInv, CleanInv
  <2> QED BY <2>1, CursorsAgree DEF KernelInv, Kernel!EventsReopen
<1>3. Kernel!healthy <=> Kernel!failures = {}
  <2>1. CASE runtime.state \in {"ShuttingDown", "Shutdown"}
    <3>1. Kernel!failures = {"kernel_not_running"} /\ ~Kernel!healthy
      BY <2>1 DEF Kernel!failures, Kernel!healthy
    <3> QED BY <3>1
  <2>2. CASE runtime.state \notin {"ShuttingDown", "Shutdown"}
    <3>1. runtime.state # "Recovering"
      BY DEF KernelInv, RuntimeInv, Kernel!KernelRuntimeState
    <3> QED BY <2>2, <3>1 DEF Kernel!failures, Kernel!healthy
  <2> QED BY <2>1, <2>2
<1> QED BY <1>1, <1>2, <1>3 DEF KernelInv, RuntimeInv, Kernel!HostSound

\* HostSound (part of HostOpens): as long as the lines of the event file were
\* written one at a time and none was cut, the file opens with every event that
\* was acknowledged, and a store at rest holds what the file does; a cursor lists
\* what follows it; a runtime in production has no test doubles, and its health
\* report agrees with its failure summary.
THEOREM HostIsSound == ASSUME MaxId \in Nat PROVE Kernel!Spec => [](Kernel!TypeOK /\ Kernel!HostSound)
<1>1. Kernel!Init => KernelInv
  <2> SUFFICES ASSUME Kernel!Init PROVE KernelInv
    OBVIOUS
  <2>1. runtime = [state |-> "Unbuilt", mode |-> "Test", kind |-> "InMemoryTest"]
    BY DEF Kernel!Init, Kernel!Unbuilt
  <2>2. RuntimeInv
    BY <2>1 DEF RuntimeInv
  <2> QED BY <2>2, StoreStarts DEF KernelInv
<1>2. ASSUME KernelInv, [Kernel!Next]_Kernel!hvars PROVE KernelInv'
  <2>1. ASSUME UNCHANGED <<held, file, stores, ghost>> PROVE StoreInv'
    <3>1. Kernel!replay(file)' = Kernel!replay(file)
      BY <2>1, ReplayStays
    <3>2. CleanInv'
      BY <1>2, <2>1, <3>1 DEF KernelInv, StoreInv, CleanInv, Writing
    <3> QED BY <1>2, <2>1, <3>2 DEF KernelInv, StoreInv, StoreTypes
  <2>2. CASE Kernel!RuntimeNext
    BY <1>2, <2>1, <2>2, RuntimeStep DEF KernelInv
  <2>3. CASE Kernel!StoreNext
    <3>1. UNCHANGED runtime
      BY <2>3 DEF Kernel!StoreNext, Kernel!open, Kernel!crash, Kernel!append, Kernel!append_idempotent, Kernel!append_absent,
                  Kernel!appended, Kernel!write_text, Kernel!write_newline, Kernel!write_fails
    <3>2. RuntimeInv'
      BY <1>2, <3>1 DEF KernelInv, RuntimeInv, Kernel!is_test_only
    <3> QED BY <1>2, <2>3, <3>2, StoreStep DEF KernelInv
  <2>4. CASE UNCHANGED Kernel!hvars
    <3>1. UNCHANGED <<runtime, held, file, stores, ghost>>
      BY <2>4 DEF Kernel!hvars
    <3>2. RuntimeInv'
      BY <1>2, <3>1 DEF KernelInv, RuntimeInv, Kernel!is_test_only
    <3> QED BY <2>1, <3>1, <3>2 DEF KernelInv
  <2> QED BY <1>2, <2>2, <2>3, <2>4 DEF Kernel!Next
<1>3. KernelInv => Kernel!TypeOK /\ Kernel!HostSound
  BY KernelFollows
<1> QED BY <1>1, <1>2, <1>3, PTL DEF Kernel!Spec
=============================================================================

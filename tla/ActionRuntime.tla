---------------------------- MODULE ActionRuntime ----------------------------
(***************************************************************************)
(* action-runtime: ActionRuntime::process and ::execute_approved, run by   *)
(* several workers over one conversation, while people approve and deny    *)
(* actions through the kernel.  Every kernel command is two steps, the     *)
(* load-and-validate and the append, because ConversationKernel takes no   *)
(* lock between them; every await is a point where the call can be dropped *)
(* (a tool-loop timeout, a failing journal or audit log, a crash).         *)
(***************************************************************************)
EXTENDS Naturals, FiniteSets

CONSTANTS Workers,      \* callers of process / execute_approved
          People,       \* participants who approve or deny
          Actions,      \* action ids
          Policy,       \* registry and CapabilityPolicy outcome per action
          NoOne,        \* approved_by = None
          MaxRequests,  \* bound: ActionRequested events per action id
          Aborts        \* may a call be dropped or fail at an await?

Decision == {"Allow", "Ask", "Deny", "Unregistered"}

ASSUME PolicyAssumption == Policy \in [Actions -> Decision]
ASSUME CallersAssumption == Workers \cap People = {} /\ NoOne \notin People
ASSUME BoundAssumption == MaxRequests \in Nat /\ Aborts \in BOOLEAN

VARIABLES
  status,       \* projected ConversationActionState.status, or Absent
  approved_by,  \* projected ConversationActionState.approved_by
  pc,           \* what each caller does next
  act,          \* the action each caller works on
  loaded,       \* the caller's kernel command has validated, not appended
  via,          \* "process" or "execute_approved"
  grantor,      \* approved_by as execute_approved read it
  audit,        \* the audit log: set of records
  requests,     \* history: ActionRequested events per action
  starts,       \* history: ActionStarted events per action
  execs,        \* history: executor calls per action
  approvals     \* history: <<action, person>> of ActionApproved events

projection == <<status, approved_by>>
caller     == <<pc, act, loaded, via, grantor>>
history    == <<requests, starts, execs, approvals>>
vars == <<status, approved_by, pc, act, loaded, via, grantor, audit,
          requests, starts, execs, approvals>>

Callers == Workers \cup People

-----------------------------------------------------------------------------
(* The life of one action as the conversation records it: the projected    *)
(* status, the validation the kernel performs on a loaded projection       *)
(* before it appends an event, and what the appended event does to the     *)
(* projection when it is replayed.                                         *)
\* state.actions has no entry for the action id.
Absent == "Absent"

ConversationActionStatus ==
  { "Requested", "ApprovalRequired", "Approved", "Denied",
    "Started", "Completed", "Failed" }

is_terminal(s) == s \in {"Denied", "Completed", "Failed"}

(***************************************************************************)
(* The kernel's action commands, each named for the ConversationKernel     *)
(* method.  A command loads the projection, validates, and only then       *)
(* appends its event; nothing holds the journal between the two halves.    *)
(***************************************************************************)
ActionCommand ==
  { "request_action", "require_action_approval", "approve_action",
    "deny_action", "start_action", "complete_action", "fail_action" }

\* No look at state.actions: a request for an id that is already there is
\* accepted.
request_action_accepts(s) == TRUE

require_action_approval_accepts(s) == s # Absent /\ ~is_terminal(s)

approve_action_accepts(s) == s = "ApprovalRequired"

deny_action_accepts(s) == s # Absent /\ ~is_terminal(s)

start_action_accepts(s) == s \in {"Requested", "Approved"}

complete_action_accepts(s) == s = "Started"

\* Faulty variant: a failure is only accepted before the start.
fail_action_accepts_early(s) == s = "Requested"

fail_action_accepts(s) == s = "Started"

\* The validation half of command cmd on a projection where the action has
\* status s.
accepts(cmd, s) ==
  \/ cmd = "request_action"          /\ request_action_accepts(s)
  \/ cmd = "require_action_approval" /\ require_action_approval_accepts(s)
  \/ cmd = "approve_action"          /\ approve_action_accepts(s)
  \/ cmd = "deny_action"             /\ deny_action_accepts(s)
  \/ cmd = "start_action"            /\ start_action_accepts(s)
  \/ cmd = "complete_action"         /\ complete_action_accepts(s)
  \/ cmd = "fail_action"             /\ fail_action_accepts(s)

\* The status each command's event writes.
EventStatus ==
  [ request_action          |-> "Requested",
    require_action_approval |-> "ApprovalRequired",
    approve_action          |-> "Approved",
    deny_action             |-> "Denied",
    start_action            |-> "Started",
    complete_action         |-> "Completed",
    fail_action             |-> "Failed" ]

\* Replaying the event of cmd: ActionRequested inserts (and so overwrites) the
\* entry, every other event only changes an entry that exists.
apply_event(cmd, s) ==
  IF cmd # "request_action" /\ s = Absent THEN s ELSE EventStatus[cmd]

\* The approved_by field: a fresh request clears it, ActionApproved sets it,
\* the other events leave it alone.
apply_approved_by(cmd, s, old, actor, none) ==
  IF cmd = "request_action" THEN none
  ELSE IF cmd = "approve_action" /\ s # Absent THEN actor
  ELSE old

-----------------------------------------------------------------------------
\* The stages that are kernel commands.
KernelStage == ActionCommand
WorkerStage == {"idle", "check", "execute", "link", "audit_completed", "audit_failed",
                "audit_denied", "audit_approval_required"} \cup ActionCommand

AuditRecord == [ action : Actions,
                 policy_decision : {"allow", "ask", "deny", "approved"},
                 result_status : {"completed", "failed", "denied", "approval_required"},
                 approved_by : People \cup {NoOne} ]

Init ==
  /\ status = [a \in Actions |-> Absent]
  /\ approved_by = [a \in Actions |-> NoOne]
  /\ pc = [c \in Callers |-> "idle"]
  /\ act \in [Callers -> Actions]
  /\ \A c, d \in Callers : act[c] = act[d]
  /\ loaded = [c \in Callers |-> FALSE]
  /\ via = [c \in Callers |-> "process"]
  /\ grantor = [c \in Callers |-> NoOne]
  /\ audit = {}
  /\ requests = [a \in Actions |-> 0]
  /\ starts = [a \in Actions |-> 0]
  /\ execs = [a \in Actions |-> 0]
  /\ approvals = {}

-----------------------------------------------------------------------------
(* The calls.                                                              *)

\* ActionRuntime::process is called for action a.
Process(w, a) ==
  /\ pc[w] = "idle"
  /\ requests[a] < MaxRequests
  /\ pc' = [pc EXCEPT ![w] = "request_action"]
  /\ act' = [act EXCEPT ![w] = a]
  /\ via' = [via EXCEPT ![w] = "process"]
  /\ grantor' = [grantor EXCEPT ![w] = NoOne]
  /\ UNCHANGED <<projection, loaded, audit, history>>

\* ActionRuntime::execute_approved is called for action a.
ExecuteApproved(w, a) ==
  /\ pc[w] = "idle"
  /\ pc' = [pc EXCEPT ![w] = "check"]
  /\ act' = [act EXCEPT ![w] = a]
  /\ via' = [via EXCEPT ![w] = "execute_approved"]
  /\ grantor' = [grantor EXCEPT ![w] = NoOne]
  /\ UNCHANGED <<projection, loaded, audit, history>>

\* A participant calls approve_action or deny_action on the kernel.
Decide(p, a, cmd) ==
  /\ pc[p] = "idle"
  /\ pc' = [pc EXCEPT ![p] = cmd]
  /\ act' = [act EXCEPT ![p] = a]
  /\ UNCHANGED <<projection, loaded, via, grantor, audit, history>>

-----------------------------------------------------------------------------
(* The steps of a call.                                                    *)

\* Faulty variant: an action still waiting for its approval passes too.
approved_or_waiting(a) ==
  status[a] \in {"Approved", "ApprovalRequired"} /\ Policy[a] # "Unregistered"

approved_and_registered(a) == status[a] = "Approved" /\ Policy[a] # "Unregistered"

\* Faulty variant: the approver is not carried along.
CheckForgetful(w) ==
  /\ pc[w] = "check"
  /\ pc' = [pc EXCEPT ![w] = IF approved_and_registered(act[w]) THEN "start_action" ELSE "idle"]
  /\ UNCHANGED <<projection, act, loaded, via, grantor, audit, history>>

\* Faulty variant: an approved action is run without recording its start.
CheckUnrecorded(w) ==
  /\ pc[w] = "check"
  /\ pc' = [pc EXCEPT ![w] = IF approved_and_registered(act[w]) THEN "execute" ELSE "idle"]
  /\ grantor' = [grantor EXCEPT ![w] = approved_by[act[w]]]
  /\ UNCHANGED <<projection, act, loaded, via, audit, history>>

\* execute_approved loads the state: the action must be Approved and its kind
\* registered; who approved it is remembered for the audit record.
Check(w) ==
  /\ pc[w] = "check"
  /\ IF approved_and_registered(act[w])
       THEN /\ pc' = [pc EXCEPT ![w] = "start_action"]
            /\ grantor' = [grantor EXCEPT ![w] = approved_by[act[w]]]
       ELSE /\ pc' = [pc EXCEPT ![w] = "idle"]
            /\ UNCHANGED grantor
  /\ UNCHANGED <<projection, act, loaded, via, audit, history>>

\* First half of a kernel command: load the state and validate.  A rejected
\* command returns Err, which `?` turns into the end of the whole call.
Validate(c) ==
  /\ pc[c] \in KernelStage
  /\ ~loaded[c]
  /\ IF accepts(pc[c], status[act[c]])
       THEN loaded' = [loaded EXCEPT ![c] = TRUE] /\ UNCHANGED pc
       ELSE pc' = [pc EXCEPT ![c] = "idle"] /\ UNCHANGED loaded
  /\ UNCHANGED <<projection, act, via, grantor, audit, history>>

\* What process does once the request is recorded.
route(a) ==
  [ Allow |-> "start_action", Ask |-> "require_action_approval",
    Deny |-> "deny_action", Unregistered |-> "deny_action" ][Policy[a]]

\* The stage that follows a kernel command; a participant's call is over.
after(c, cmd) ==
  IF c \in People THEN "idle"
  ELSE [ request_action          |-> route(act[c]),
         require_action_approval |-> "audit_approval_required",
         approve_action          |-> "idle",
         deny_action             |-> "audit_denied",
         start_action            |-> "execute",
         complete_action         |-> "link",
         fail_action             |-> "audit_failed" ][cmd]

\* Second half: the event is appended to whatever the journal holds by now.
AppendEvent(c) ==
  LET cmd == pc[c]
      a == act[c]
  IN /\ cmd \in KernelStage
     /\ loaded[c]
     /\ status' = [status EXCEPT ![a] = apply_event(cmd, @)]
     /\ approved_by' = [approved_by EXCEPT
                          ![a] = apply_approved_by(cmd, status[a], @, c, NoOne)]
     /\ loaded' = [loaded EXCEPT ![c] = FALSE]
     /\ pc' = [pc EXCEPT ![c] = after(c, cmd)]
     /\ requests' = [requests EXCEPT ![a] = IF cmd = "request_action" THEN @ + 1 ELSE @]
     /\ starts' = [starts EXCEPT ![a] = IF cmd = "start_action" THEN @ + 1 ELSE @]
     /\ approvals' = IF cmd = "approve_action" THEN approvals \cup {<<a, c>>} ELSE approvals
     /\ UNCHANGED <<act, via, grantor, audit, execs>>

\* The executor runs; it succeeds or fails.
Execute(w) ==
  /\ pc[w] = "execute"
  /\ execs' = [execs EXCEPT ![act[w]] = @ + 1]
  /\ \E next \in {"complete_action", "fail_action"} : pc' = [pc EXCEPT ![w] = next]
  /\ UNCHANGED <<projection, act, loaded, via, grantor, audit, requests, starts, approvals>>

\* link_artifact_result_if_available; its failure is an Abort.
LinkArtifact(w) ==
  /\ pc[w] = "link"
  /\ pc' = [pc EXCEPT ![w] = "audit_completed"]
  /\ UNCHANGED <<projection, act, loaded, via, grantor, audit, history>>

\* The decision word record_audit is given on each path, and the result it
\* records at each stage.
decision_word(w) ==
  IF via[w] = "execute_approved" THEN "approved"
  ELSE [ Allow |-> "allow", Ask |-> "ask",
         Deny |-> "deny", Unregistered |-> "deny" ][Policy[act[w]]]

AuditStage ==
  [ completed |-> "audit_completed", failed |-> "audit_failed",
    denied |-> "audit_denied", approval_required |-> "audit_approval_required" ]

RecordAudit(w) ==
  /\ \E r \in DOMAIN AuditStage :
       /\ pc[w] = AuditStage[r]
       /\ audit' = audit \cup
            { [ action |-> act[w], policy_decision |-> decision_word(w),
                result_status |-> r, approved_by |-> grantor[w] ] }
  /\ pc' = [pc EXCEPT ![w] = "idle"]
  /\ UNCHANGED <<projection, act, loaded, via, grantor, history>>

\* The call ends at an await: a journal or audit write fails, the artifact
\* resolver fails, or the tool loop's timeout drops the future.
Abort(c) ==
  /\ Aborts
  /\ pc[c] # "idle"
  /\ pc' = [pc EXCEPT ![c] = "idle"]
  /\ loaded' = [loaded EXCEPT ![c] = FALSE]
  /\ UNCHANGED <<projection, act, via, grantor, audit, history>>

-----------------------------------------------------------------------------
WorkerStep(w) ==
  \/ Check(w) \/ Validate(w) \/ AppendEvent(w)
  \/ Execute(w) \/ LinkArtifact(w) \/ RecordAudit(w)

PersonStep(p) == Validate(p) \/ AppendEvent(p)

Next ==
  \/ \E w \in Workers, a \in Actions : Process(w, a) \/ ExecuteApproved(w, a)
  \/ \E p \in People, a \in Actions :
       \/ Decide(p, a, "approve_action")
       \/ Decide(p, a, "deny_action")
  \/ \E w \in Workers : WorkerStep(w)
  \/ \E p \in People : PersonStep(p)
  \/ \E c \in Callers : Abort(c)

Spec == Init /\ [][Next]_vars

\* Every started call is driven to its end: the executor, the journal and the
\* audit log answer.  Nothing obliges anybody to make a new call.
LiveSpec ==
  /\ Spec
  /\ \A w \in Workers : WF_vars(WorkerStep(w))
  /\ \A p \in People : WF_vars(PersonStep(p))

-----------------------------------------------------------------------------
TypeOK ==
  /\ status \in [Actions -> ConversationActionStatus \cup {Absent}]
  /\ approved_by \in [Actions -> People \cup {NoOne}]
  /\ pc \in [Callers -> WorkerStage]
  /\ act \in [Callers -> Actions]
  /\ loaded \in [Callers -> BOOLEAN]
  /\ via \in [Callers -> {"process", "execute_approved"}]
  /\ grantor \in [Callers -> People \cup {NoOne}]
  /\ audit \subseteq AuditRecord
  /\ requests \in [Actions -> Nat]
  /\ starts \in [Actions -> Nat]
  /\ execs \in [Actions -> Nat]
  /\ approvals \subseteq Actions \X People

\* Policy lets a run, or it asked and a participant's ActionApproved is in the
\* journal.
Authorised(a) ==
  \/ Policy[a] = "Allow"
  \/ Policy[a] = "Ask" /\ \E p \in People : <<a, p>> \in approvals

\* No interleaving of workers, approvals, denials and repeated requests makes
\* the executor run an action that policy denies or whose kind is not
\* registered, or one that policy asks about before somebody approved it
\* (process, execute_approved, start_action's validation).
ExecutionAuthorised == \A a \in Actions : execs[a] > 0 => Authorised(a)

\* Every executor call was preceded by an ActionStarted event of its own: the
\* journal never knows of fewer starts than there were executions, whatever
\* calls are dropped half way.
ExecutionJournaled == \A a \in Actions : execs[a] <= starts[a]

\* What an audit record says happened did happen: a completion or failure was
\* executed, "approved" names a participant whose approval is in the journal,
\* and the decision word is the policy's.
RecordTruthful(r) ==
  /\ r.result_status \in {"completed", "failed"} => execs[r.action] > 0
  /\ r.policy_decision = "approved" => <<r.action, r.approved_by>> \in approvals
  /\ r.policy_decision = "allow" => Policy[r.action] = "Allow"
  /\ r.policy_decision = "ask" => Policy[r.action] = "Ask"
  /\ r.result_status = "denied" => Policy[r.action] \in {"Deny", "Unregistered"}
AuditTruthful == \A r \in audit : RecordTruthful(r)

\* When no call is dropped, an action that policy allows never stays Requested
\* or Started for good, however many workers request, start and deny it at the
\* same time: a worker whose command is rejected leaves another one behind
\* that finishes the job.
AllowedActionEnds ==
  \A a \in Actions :
    (Policy[a] = "Allow" /\ status[a] # Absent) ~> is_terminal(status[a])

-----------------------------------------------------------------------------
(* What the repository says and the interleavings refute.                  *)

\* "Action was denied and must not execute." (ConversationActionStatus::Denied)
DeniedNeverExecutes ==
  [][\A a \in Actions : status[a] = "Denied" => execs'[a] = execs[a]]_vars
=============================================================================

------------------------------ MODULE AgentRuns ------------------------------
(***************************************************************************)
(* The agent runs of one conversation: the kernel's message and run        *)
(* commands, the projection of their events, and AgentRunProcessor's       *)
(* process and process_with_actions, which start a run, build its context, *)
(* call the model, append the reply and complete the run.  The kernel      *)
(* takes no lock between loading the state it validates and appending the  *)
(* event.  The conversation exists and every actor is a participant.       *)
(***************************************************************************)
EXTENDS Naturals, Sequences

CONSTANTS Processors,     \* callers of process and process_with_actions
          Users,          \* callers of the kernel's commands
          MaxRuns,        \* bound: runs 1..MaxRuns, in the order of their ids
          MaxUserMessages,\* bound: messages when a user begins a new one
          MaxCalls,       \* bound: calls of process
          SliceWindow,    \* max_messages of request_agent_run (20)
          ContextWindow,  \* max_context_messages of the context builder
          Drops           \* callers whose calls may fail or be dropped at an await

Runs == 1..MaxRuns
Callers == Processors \cup Users

ASSUME RunsAssumption ==
  /\ MaxRuns \in Nat /\ MaxUserMessages \in Nat /\ MaxCalls \in Nat
  /\ SliceWindow \in Nat \ {0} /\ ContextWindow \in Nat \ {0}
  /\ Drops \subseteq Processors \cup Users

Absent == "Absent"
AgentRunStatus == {"Requested", "Started", "Completed", "Failed", "Cancelled", "TimedOut"}
Terminal == {"Completed", "Failed", "Cancelled", "TimedOut"}

\* The commands on a run and the status their events give it.
RunCommand == {"start", "complete", "fail", "cancel", "timeout"}

EventStatus ==
  [ start |-> "Started", complete |-> "Completed", fail |-> "Failed",
    cancel |-> "Cancelled", timeout |-> "TimedOut" ]

VARIABLES
  messages,   \* state.messages in order; the id of a message is its position
  status,     \* agent_runs[r].status, or Absent
  trigger,    \* agent_runs[r].trigger_message_id
  output,     \* agent_runs[r].output_message_id, 0 when None
  completed,  \* completed_agent_runs[r], 0 when there is no entry
  slice,      \* message_ids of the run's ContextSliceBuilt event; <<>> before it
  call,       \* per caller: its call in progress
  requested,  \* history: calls of request_agent_run, each with a run id of its own
  calls,      \* history: calls of process
  given,      \* history: given[r] are the messages that calls of process on run r were about
  left        \* history: runs a processor left in the middle: its call was dropped, or its action failed

projection == <<messages, status, trigger, output, completed, slice>>
histories == <<requested, calls, given, left>>
vars == <<messages, status, trigger, output, completed, slice, call, requested, calls, given, left>>

\* A call: its next step, whether the kernel command of that step has validated,
\* the run, the message it is about (trigger, or reply_to), the output message
\* it got, and the messages of the prompt or of the slice.
Idle == [step |-> "idle", valid |-> FALSE, run |-> 0, msg |-> 0, out |-> 0, window |-> <<>>]

Init ==
  /\ messages = <<>>
  /\ status = [r \in Runs |-> Absent]
  /\ trigger = [r \in Runs |-> 0]
  /\ output = [r \in Runs |-> 0]
  /\ completed = [r \in Runs |-> 0]
  /\ slice = [r \in Runs |-> <<>>]
  /\ call = [c \in Callers |-> Idle]
  /\ requested = 0 /\ calls = 0 /\ given = [r \in Runs |-> {}] /\ left = {}

begin(c, step, r, m) ==
  /\ call[c] = Idle
  /\ call' = [call EXCEPT ![c] = [Idle EXCEPT !.step = step, !.run = r, !.msg = m]]

goto(c, step) == call' = [call EXCEPT ![c].step = step, ![c].valid = FALSE]

return(c) == call' = [call EXCEPT ![c] = Idle]

\* messages_by_id has the id.
exists(m) == m \in DOMAIN messages

-----------------------------------------------------------------------------
(* The calls.                                                              *)

AppendMessage(u, m) ==
  /\ Len(messages) < MaxUserMessages
  /\ begin(u, "append", 0, m)
  /\ UNCHANGED <<projection, histories>>

RequestAgentRun(u, m) ==
  /\ requested < MaxRuns
  /\ begin(u, "request", requested + 1, m)
  /\ requested' = requested + 1
  /\ UNCHANGED <<projection, calls, given, left>>

EndRun(u, r, cmd) ==
  /\ begin(u, cmd, r, 0)
  /\ UNCHANGED <<projection, histories>>

\* process and process_with_actions, for any run and any message, which nothing
\* compares with the run's trigger: 0 stands for an id that is no message.
Process(p, r, m) ==
  /\ calls < MaxCalls
  /\ begin(p, "start", r, m)
  /\ calls' = calls + 1
  /\ given' = [given EXCEPT ![r] = @ \cup {m}]
  /\ UNCHANGED <<projection, requested, left>>

-----------------------------------------------------------------------------
(* The kernel's commands, first half: load the state and validate.         *)

validate_agent_run_transition(r) == status[r] \in {"Requested", "Started"}

accepts(c) ==
  LET k == call[c] IN
  \/ k.step = "append" /\ (k.msg = 0 \/ exists(k.msg))
  \/ k.step \in RunCommand /\ validate_agent_run_transition(k.run)
       /\ (k.step = "complete" => exists(k.out))

\* The rejected command's error ends the whole call.
Validate(c) ==
  /\ call[c].step \in RunCommand \cup {"append"}
  /\ ~call[c].valid
  /\ IF accepts(c) THEN call' = [call EXCEPT ![c].valid = TRUE] ELSE return(c)
  /\ UNCHANGED <<projection, histories>>

\* The last SliceWindow messages.
recent_window ==
  LET n == Len(messages)
  IN SubSeq([i \in 1..n |-> i], IF n > SliceWindow THEN n - SliceWindow + 1 ELSE 1, n)

\* request_agent_run validates and takes the window of this state.
ValidateRequest(u) ==
  /\ call[u].step = "request"
  /\ IF exists(call[u].msg)
       THEN call' = [call EXCEPT ![u].step = "slice", ![u].window = recent_window]
       ELSE return(u)
  /\ UNCHANGED <<projection, histories>>

-----------------------------------------------------------------------------
(* Second half: append the event, here with its effect on the projection.  *)

after_append(c) == IF call[c].run = 0 THEN Idle
                   ELSE [call[c] EXCEPT !.step = "complete", !.valid = FALSE,
                                        !.out = Len(messages) + 1]

\* MessageAppended; the processor's own message is the run's output.
MessageAppended(c) ==
  /\ call[c].step = "append"
  /\ call[c].valid
  /\ messages' = Append(messages, [ sender |-> IF call[c].run = 0 THEN "user" ELSE "agent",
                                    reply_to |-> call[c].msg ])
  /\ call' = [call EXCEPT ![c] = after_append(c)]
  /\ UNCHANGED <<status, trigger, output, completed, slice, histories>>

\* Faulty variant: the request is recorded before its slice.
ContextSliceBuiltLate(u) ==
  /\ call[u].step = "slice"
  /\ status' = [status EXCEPT ![call[u].run] = "Requested"]
  /\ trigger' = [trigger EXCEPT ![call[u].run] = call[u].msg]
  /\ goto(u, "requested")
  /\ UNCHANGED <<messages, output, completed, slice, histories>>

ContextSliceBuilt(u) ==
  /\ call[u].step = "slice"
  /\ slice' = [slice EXCEPT ![call[u].run] = call[u].window]
  /\ goto(u, "requested")
  /\ UNCHANGED <<messages, status, trigger, output, completed, histories>>

AgentRunRequested(u) ==
  LET r == call[u].run IN
  /\ call[u].step = "requested"
  /\ status' = [status EXCEPT ![r] = "Requested"]
  /\ trigger' = [trigger EXCEPT ![r] = call[u].msg]
  /\ output' = [output EXCEPT ![r] = 0]
  /\ return(u)
  /\ UNCHANGED <<messages, completed, slice, histories>>

\* What a processor does after each of its run commands; a user's call is over.
after(c) ==
  IF c \in Processors /\ call[c].step = "start" THEN "context" ELSE "return"

\* Faulty variant: the index keeps the first output.
completed_first(r, m) == IF completed[r] = 0 THEN m ELSE completed[r]

\* The completed_agent_runs entry AgentRunCompleted inserts.
completed_insert(r, m) == m

\* AgentRunStarted, Completed, Failed, Cancelled, TimedOut.
RunEvent(c) ==
  LET cmd == call[c].step
      r == call[c].run
      m == IF cmd = "complete" THEN call[c].out ELSE 0
  IN /\ cmd \in RunCommand
     /\ call[c].valid
     /\ status' = [status EXCEPT ![r] = EventStatus[cmd]]
     /\ output' = [output EXCEPT ![r] = m]
     /\ completed' = IF cmd = "complete" THEN [completed EXCEPT ![r] = completed_insert(r, m)]
                                         ELSE completed
     /\ IF after(c) = "return" THEN return(c) ELSE goto(c, after(c))
     /\ UNCHANGED <<messages, trigger, slice, histories>>

-----------------------------------------------------------------------------
(* The processor's own steps.                                              *)

\* Faulty variant: the newest messages, whatever triggered the run.
context_newest(m) ==
  LET n == Len(messages)
  IN [i \in 1..(IF n < ContextWindow THEN n ELSE ContextWindow) |->
        (IF n < ContextWindow THEN 0 ELSE n - ContextWindow) + i]

\* AgentContextBuilder::build: from trigger_index.saturating_sub(max - 1) up to
\* the trigger, with positions that count from 1.
context_of(m) ==
  LET start == IF m > ContextWindow - 1 THEN m - (ContextWindow - 1) ELSE 1
  IN SubSeq([i \in 1..Len(messages) |-> i], start, m)

\* The state is loaded again and the context built from it.
BuildContext(p) ==
  /\ call[p].step = "context"
  /\ IF exists(call[p].msg)
       THEN call' = [call EXCEPT ![p].step = "model", ![p].window = context_of(call[p].msg)]
       ELSE goto(p, "fail")
  /\ UNCHANGED <<projection, histories>>

\* Faulty variant: a failed model call just ends the call.
CallModelUnreported(p) ==
  /\ call[p].step = "model"
  /\ goto(p, "append") \/ goto(p, "act") \/ return(p)
  /\ UNCHANGED <<projection, histories>>

\* The model answers, with or without an action proposal, or fails.
CallModel(p) ==
  /\ call[p].step = "model"
  /\ goto(p, "append") \/ goto(p, "act") \/ goto(p, "fail")
  /\ UNCHANGED <<projection, histories>>

\* The call ends in the middle of its run: nothing fails the run.
leave(c) ==
  /\ return(c)
  /\ left' = left \cup {r \in Runs : c \in Processors /\ r = call[c].run}

\* process_with_actions runs the proposed action; an error of the action runtime
\* ends the call.
ProcessAction(p) ==
  /\ call[p].step = "act"
  /\ \/ goto(p, "append") /\ UNCHANGED left
     \/ leave(p)
  /\ UNCHANGED <<projection, requested, calls, given>>

\* The call ends at an await, or the journal fails under it.
Drop(c) ==
  /\ c \in Drops
  /\ call[c] # Idle
  /\ leave(c)
  /\ UNCHANGED <<projection, requested, calls, given>>

-----------------------------------------------------------------------------
ProcessorStep(p) == BuildContext(p) \/ CallModel(p) \/ ProcessAction(p)

CallStep(c) ==
  \/ Validate(c) \/ ValidateRequest(c)
  \/ MessageAppended(c) \/ ContextSliceBuilt(c) \/ AgentRunRequested(c) \/ RunEvent(c)
  \/ c \in Processors /\ ProcessorStep(c)

Next ==
  \/ \E u \in Users, m \in 0..Len(messages) : AppendMessage(u, m) \/ RequestAgentRun(u, m)
  \/ \E u \in Users, r \in Runs, cmd \in {"cancel", "timeout"} : EndRun(u, r, cmd)
  \/ \E p \in Processors, r \in Runs, m \in 0..Len(messages) : Process(p, r, m)
  \/ \E c \in Callers : CallStep(c) \/ Drop(c)

Spec == Init /\ [][Next]_vars

\* Started calls go on; nobody has to make a new one.
LiveSpec == Spec /\ \A c \in Callers : WF_vars(CallStep(c))

-----------------------------------------------------------------------------
Step == RunCommand \cup {"idle", "append", "request", "slice", "requested", "context", "model", "act"}

TypeOK ==
  /\ messages \in Seq([sender : {"user", "agent"}, reply_to : Nat])
  /\ status \in [Runs -> AgentRunStatus \cup {Absent}]
  /\ trigger \in [Runs -> Nat] /\ output \in [Runs -> Nat] /\ completed \in [Runs -> Nat]
  /\ slice \in [Runs -> Seq(Nat)]
  /\ call \in [Callers -> [ step : Step, valid : BOOLEAN, run : Nat, msg : Nat,
                            out : Nat, window : Seq(Nat) ]]
  /\ requested \in 0..MaxRuns /\ calls \in 0..MaxCalls
  /\ given \in [Runs -> SUBSET Nat] /\ left \subseteq Runs

\* A run that shows as Completed has the output message that the index
\* completed_agent_runs gives for it, and that message is in the conversation
\* and is an agent's reply to an earlier message that a processor of this run
\* was given, which is the run's trigger unless a caller passed another one:
\* also when several processors work on the same run, with different messages,
\* it is cancelled meanwhile, or calls break off.
CompletedSound ==
  \A r \in Runs : status[r] = "Completed" =>
    /\ output[r] = completed[r]
    /\ exists(output[r])
    /\ messages[output[r]].sender = "agent"
    /\ messages[output[r]].reply_to \in given[r] \cap (1 .. output[r] - 1)
    /\ given[r] \subseteq {trigger[r], 0} => messages[output[r]].reply_to = trigger[r]

\* What the model is shown ends with the message the processor was given, leaves
\* nothing out on the way there and keeps to the window, whatever messages
\* arrived between the request and the building of the context.
ContextSound ==
  \A p \in Processors : call[p].step \in {"model", "act"} =>
    LET w == call[p].window
    IN /\ w # <<>> /\ w[Len(w)] = call[p].msg
       /\ Len(w) = IF call[p].msg < ContextWindow THEN call[p].msg ELSE ContextWindow
       /\ \A i \in 1..(Len(w) - 1) : w[i + 1] = w[i] + 1

\* A run in the projection has its context slice in the journal, wherever
\* request_agent_run breaks off between its two events.
RunHasSlice == \A r \in Runs : status[r] # Absent => slice[r] # <<>>

\* Every run that was started ends, unless a processor left it in the middle,
\* though several processors, cancellations and timeouts work on it at the same
\* time and one of them may set it back to Started (process_with_actions fails
\* the run for a context or a model that fails, not for an action).
StartedRunEnds == \A r \in Runs : status[r] = "Started" ~> status[r] \in Terminal \/ r \in left

\* A run in a terminal status keeps it.  True of one caller at a time, whatever
\* breaks off; the kernel's comments say it of every caller ("Validates: ...
\* run is not terminal").
TerminalStable ==
  [][\A r \in Runs : status[r] \in Terminal => status'[r] = status[r]]_vars
=============================================================================

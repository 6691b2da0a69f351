------------------------------ MODULE ToolLoop ------------------------------
(***************************************************************************)
(* AgentToolLoop::run_inner over a checkpoint store: several attempts at   *)
(* one run, one after the other (a resume) or at the same time (a lease    *)
(* that was recovered).  The model answers with a text or with tool calls, *)
(* each tool call becomes an action, its result a checkpoint and then a    *)
(* message to the model.  Every await is a step of its own.  Tool call ids *)
(* stand for the calls: an id always means the same tool.                  *)
(***************************************************************************)
EXTENDS Naturals, Sequences, SequencesExt

CONSTANTS Loops,           \* the tasks that run attempts
          ToolCalls,       \* ids of tool calls
          ReadOnly,        \* is_read_only_tool_action of the call's action kind
          Browser,         \* is_browser_tool_action of the call's action kind
          Unmapped,        \* calls the ToolCallMapper refuses
          MaxTurns,        \* config.max_turns
          Answers,         \* sequences of tool calls the model may answer with
          MaxAttempts,     \* bound: attempts at the run
          ModelTimeout, ActionTimeout, BrowserTimeout,  \* which timeouts are set
          Faults           \* may the checkpoint store, the model and actions fail?

ASSUME ToolLoopAssumption ==
  /\ ReadOnly \subseteq ToolCalls /\ Browser \subseteq ToolCalls /\ Unmapped \subseteq ToolCalls
  /\ Answers \subseteq Seq(ToolCalls) /\ MaxTurns \in Nat /\ MaxAttempts \in Nat
  /\ {ModelTimeout, ActionTimeout, BrowserTimeout, Faults} \subseteq BOOLEAN

\* What the model is told of a call: the outcome of its n-th execution, a
\* refusal (denied, approval required) or an error.
Results == [kind : {"ran", "refused", "error"}, n : Nat]
Refused == [kind |-> "refused", n |-> 0]
Error   == [kind |-> "error", n |-> 0]
None    == [kind |-> "none", n |-> 0]

ToolLoopOutcome == {"Completed", "MaxTurnsReached", "Cancelled", "TimedOut", "Failed"}

VARIABLES
  checkpoints,  \* the ToolResult checkpoints of the run, oldest first; those around
                \* model calls carry nothing that run_inner reads
  loop,         \* per loop: the local state of run_inner
  outcome,      \* per loop: what its last attempt returned, after how many answers
  execs,        \* history: executions of each call
  attempts      \* history: attempts at the run

vars == <<checkpoints, loop, outcome, execs, attempts>>

\* The locals of run_inner and the attempt's cancellation token.
Idle == [ step      |-> "idle",
          cancelled |-> FALSE,
          plan      |-> [t \in ToolCalls |-> None],  \* the result of each call to skip
          turn      |-> 0,                           \* turns_used
          asked     |-> <<>>,  \* the tool calls of each of the model's answers
          messages  |-> <<>>,  \* the tool results of each earlier turn
          results   |-> <<>>,  \* tool_results of this turn
          pending   |-> None ] \* the result that is to be checkpointed

Init ==
  /\ checkpoints = <<>>
  /\ loop = [l \in Loops |-> Idle]
  /\ outcome = [l \in Loops |-> [kind |-> "none", answers |-> 0]]
  /\ execs = [t \in ToolCalls |-> 0]
  /\ attempts = 0

goto(l, s) == loop' = [loop EXCEPT ![l].step = s] /\ UNCHANGED outcome

\* run_inner returns o.
return(l, o) ==
  /\ loop' = [loop EXCEPT ![l] = Idle]
  /\ outcome' = [outcome EXCEPT ![l] = [kind |-> o, answers |-> Len(loop[l].asked)]]

\* The answer that is gone through, and the tool call it is at.
answer(l)  == Last(loop[l].asked)
current(l) == answer(l)[Len(loop[l].results) + 1]

\* Call t is answered with r, and the next one is looked at.
push_result(l, t, r) ==
  /\ loop' = [loop EXCEPT ![l].results = Append(@, <<t, r>>), ![l].step = "tools",
                          ![l].pending = None]
  /\ UNCHANGED outcome

-----------------------------------------------------------------------------
(* Starting and resuming.                                                  *)

recorded(i, t) == checkpoints[i].tool_call_id = t

skippable(t) == \E i \in DOMAIN checkpoints : recorded(i, t) /\ checkpoints[i].read_only

\* The position of the first result of t.
first(t) ==
  CHOOSE i \in DOMAIN checkpoints : recorded(i, t) /\ \A j \in 1..(i - 1) : ~recorded(j, t)

\* Faulty variant: a later checkpoint replaces an earlier one.
from_checkpoints_last(t) ==
  IF skippable(t)
    THEN checkpoints[CHOOSE i \in DOMAIN checkpoints :
                       recorded(i, t) /\ \A j \in (i + 1)..Len(checkpoints) : ~recorded(j, t)].result
    ELSE None

\* ToolLoopResumePlan: a call with a read-only checkpoint is skipped, and the
\* first result recorded for it stands.
from_checkpoints(t) == IF skippable(t) THEN checkpoints[first(t)].result ELSE None

Begin(l) ==
  /\ loop[l].step = "idle"
  /\ attempts < MaxAttempts
  /\ attempts' = attempts + 1
  /\ \/ /\ loop' = [loop EXCEPT ![l].step = "head",
                                ![l].plan = [t \in ToolCalls |-> from_checkpoints(t)]]
        /\ UNCHANGED outcome
     \/ Faults /\ return(l, "Failed")
  /\ UNCHANGED <<checkpoints, execs>>

\* RunCancellationToken::cancel, by the host.
Cancel(l) ==
  /\ loop[l].step # "idle"
  /\ ~loop[l].cancelled
  /\ loop' = [loop EXCEPT ![l].cancelled = TRUE]
  /\ UNCHANGED <<checkpoints, outcome, execs, attempts>>

-----------------------------------------------------------------------------
(* A turn.                                                                 *)

TurnHead(l) ==
  /\ loop[l].step = "head"
  /\ \/ loop[l].cancelled /\ return(l, "Cancelled")
     \/ ~loop[l].cancelled /\ loop[l].turn + 1 > MaxTurns /\ return(l, "MaxTurnsReached")
     \/ /\ ~loop[l].cancelled /\ loop[l].turn + 1 <= MaxTurns
        /\ loop' = [loop EXCEPT ![l].step = "before", ![l].turn = @ + 1]
        /\ UNCHANGED outcome
  /\ UNCHANGED <<checkpoints, execs, attempts>>

\* The checkpoint before the model call.
BeforeModelCall(l) ==
  /\ loop[l].step = "before"
  /\ goto(l, "model") \/ (Faults /\ return(l, "Failed"))
  /\ UNCHANGED <<checkpoints, execs, attempts>>

\* complete_with_tools answers with tool calls ...
ModelAsks(l, batch) ==
  /\ loop[l].step = "model"
  /\ loop' = [loop EXCEPT ![l].step = "after", ![l].asked = Append(@, batch)]
  /\ UNCHANGED <<checkpoints, outcome, execs, attempts>>

\* ... or with a text, or it fails ...
ModelSpeaks(l) ==
  /\ loop[l].step = "model"
  /\ goto(l, "text") \/ (Faults /\ return(l, "Failed"))
  /\ UNCHANGED <<checkpoints, execs, attempts>>

\* ... or the timeout drops it.
ModelTimesOut(l) ==
  /\ loop[l].step = "model"
  /\ ModelTimeout
  /\ return(l, "TimedOut")
  /\ UNCHANGED <<checkpoints, execs, attempts>>

\* The checkpoint after the model call; a text ends the loop, tool calls are
\* gone through.
AfterModelCall(l) ==
  /\ \/ loop[l].step = "text" /\ return(l, "Completed")
     \/ loop[l].step = "after" /\ goto(l, "tools")
     \/ loop[l].step \in {"after", "text"} /\ Faults /\ return(l, "Failed")
  /\ UNCHANGED <<checkpoints, execs, attempts>>

-----------------------------------------------------------------------------
(* The tool calls of an answer.                                            *)

more_tools(l) == loop[l].step = "tools" /\ Len(loop[l].results) < Len(answer(l))

\* Faulty variant: cancellation is looked at between turns only.
NextToolUnchecked(l) ==
  LET t == current(l) IN
  /\ more_tools(l)
  /\ IF t \in Unmapped THEN push_result(l, t, Error) ELSE goto(l, "act")
  /\ UNCHANGED <<checkpoints, execs, attempts>>

\* The next tool call: the run is cancelled, the call is skipped, refused by the
\* mapper, or begun as an action.
NextTool(l) ==
  LET t == current(l)
      skip == loop[l].plan[t]
  IN
  /\ more_tools(l)
  /\ \/ loop[l].cancelled /\ return(l, "Cancelled")
     \/ ~loop[l].cancelled /\ skip # None /\ push_result(l, t, skip)
     \/ ~loop[l].cancelled /\ skip = None /\ t \in Unmapped /\ push_result(l, t, Error)
     \/ ~loop[l].cancelled /\ skip = None /\ t \notin Unmapped /\ goto(l, "act")
  /\ UNCHANGED <<checkpoints, execs, attempts>>

\* ActionRuntime::process returns an outcome: the executor ran, or policy did not
\* let it.
ActionReturns(l) ==
  LET t == current(l) IN
  /\ loop[l].step = "act"
  /\ \/ /\ execs' = [execs EXCEPT ![t] = @ + 1]
        /\ loop' = [loop EXCEPT ![l].step = "record", ![l].pending = [kind |-> "ran", n |-> execs'[t]]]
     \/ /\ loop' = [loop EXCEPT ![l].step = "record", ![l].pending = Refused]
        /\ UNCHANGED execs
  /\ UNCHANGED <<checkpoints, outcome, attempts>>

\* The call broke off before the executor or after it.
broken_off(t) == execs' \in {execs, [execs EXCEPT ![t] = @ + 1]}

\* Faulty variant: an error ends the turn instead of the call.
ActionErrsBreaks(l) ==
  /\ loop[l].step = "act"
  /\ Faults
  /\ broken_off(current(l))
  /\ loop' = [loop EXCEPT ![l].step = "head", ![l].results = <<>>,
                          ![l].messages = Append(@, loop[l].results)]
  /\ UNCHANGED <<checkpoints, outcome, attempts>>

\* process returns an error, which the model is told and which is not
\* checkpointed.
ActionErrs(l) ==
  /\ loop[l].step = "act"
  /\ Faults
  /\ broken_off(current(l))
  /\ push_result(l, current(l), Error)
  /\ UNCHANGED <<checkpoints, attempts>>

\* Faulty variant: no fallback to action_timeout.
action_timeout_for_own(t) == IF t \in Browser THEN BrowserTimeout ELSE ActionTimeout

action_timeout_for(t) == IF t \in Browser THEN BrowserTimeout \/ ActionTimeout ELSE ActionTimeout

\* The timeout drops process.
ActionTimesOut(l) ==
  /\ loop[l].step = "act"
  /\ action_timeout_for(current(l))
  /\ broken_off(current(l))
  /\ return(l, "TimedOut")
  /\ UNCHANGED <<checkpoints, attempts>>

tool_result(t, r) == [tool_call_id |-> t, result |-> r, read_only |-> t \in ReadOnly]

\* Faulty variant: a checkpoint that cannot be written is ignored.
RecordResultLax(l) ==
  LET t == current(l) IN
  /\ loop[l].step = "record"
  /\ push_result(l, t, loop[l].pending)
  /\ \/ checkpoints' = Append(checkpoints, tool_result(t, loop[l].pending))
     \/ Faults /\ UNCHANGED checkpoints
  /\ UNCHANGED <<execs, attempts>>

\* The ToolResult checkpoint, then the result.
RecordResult(l) ==
  LET t == current(l) IN
  /\ loop[l].step = "record"
  /\ \/ /\ checkpoints' = Append(checkpoints, tool_result(t, loop[l].pending))
        /\ push_result(l, t, loop[l].pending)
     \/ Faults /\ return(l, "Failed") /\ UNCHANGED checkpoints
  /\ UNCHANGED <<execs, attempts>>

\* Faulty variant: the limit is looked at one turn early.
last_turn_early(l) == loop[l].turn + 1 >= MaxTurns

last_turn(l) == loop[l].turn >= MaxTurns

\* All calls are answered: the next request, or the end at max_turns.
EndTurn(l) ==
  /\ loop[l].step = "tools" /\ Len(loop[l].results) = Len(answer(l))
  /\ \/ last_turn(l) /\ return(l, "MaxTurnsReached")
     \/ /\ ~last_turn(l)
        /\ loop' = [loop EXCEPT ![l].step = "head", ![l].results = <<>>,
                                ![l].messages = Append(@, loop[l].results)]
        /\ UNCHANGED outcome
  /\ UNCHANGED <<checkpoints, execs, attempts>>

-----------------------------------------------------------------------------
\* What the loop does by itself, its timeouts included.
LoopStep(l) ==
  \/ TurnHead(l) \/ BeforeModelCall(l) \/ AfterModelCall(l)
  \/ NextTool(l) \/ RecordResult(l) \/ EndTurn(l)
  \/ ModelTimesOut(l) \/ ActionTimesOut(l)

Next ==
  \E l \in Loops :
    \/ Begin(l) \/ Cancel(l)
    \/ LoopStep(l)
    \/ \E batch \in Answers : ModelAsks(l, batch)
    \/ ModelSpeaks(l)
    \/ ActionReturns(l) \/ ActionErrs(l)

Spec == Init /\ [][Next]_vars

\* The loop is polled and its timers fire.  Neither the model nor an executor
\* has to answer.
LiveSpec == Spec /\ \A l \in Loops : WF_vars(LoopStep(l))

-----------------------------------------------------------------------------
Step == {"idle", "head", "before", "model", "after", "text", "tools", "act", "record"}

ToolResultCheckpoint == [tool_call_id : ToolCalls, result : Results, read_only : BOOLEAN]

LoopState ==
  [ step : Step, cancelled : BOOLEAN, plan : [ToolCalls -> Results \cup {None}],
    turn : 0..MaxTurns, asked : Seq(Seq(ToolCalls)),
    messages : Seq(Seq(ToolCalls \X Results)), results : Seq(ToolCalls \X Results),
    pending : Results \cup {None} ]

TypeOK ==
  /\ checkpoints \in Seq(ToolResultCheckpoint)
  /\ loop \in [Loops -> LoopState]
  /\ outcome \in [Loops -> [kind : ToolLoopOutcome \cup {"none"}, answers : Nat]]
  /\ execs \in [ToolCalls -> Nat] /\ attempts \in 0..MaxAttempts

\* Whenever the model is called it has been given, for each of its earlier
\* answers, one result per tool call in the order of the calls: whether the call
\* was executed, skipped on a resume, refused by the mapper or failed.
EveryCallAnswered ==
  \A l \in Loops : loop[l].step = "model" =>
    LET m == loop[l].messages
        a == loop[l].asked
    IN /\ Len(m) = Len(a)
       /\ \A k \in DOMAIN a : [i \in DOMAIN m[k] |-> m[k][i][1]] = a[k]

\* What the model is told of an executed or refused call is in the checkpoint
\* store, so that an attempt that resumes later finds it, although writing a
\* checkpoint may fail and other attempts run at the same time.
RecordedBeforeShown ==
  \A l \in Loops : \A k \in DOMAIN loop[l].messages : \A e \in Range(loop[l].messages[k]) :
    e[2].kind # "error" => tool_result(e[1], e[2]) \in Range(checkpoints)

\* All attempts skip a read-only call with one and the same answer, the one that
\* was recorded first, also when the call was executed several times and
\* different results are recorded.
SkipsAgree ==
  \A l \in Loops, t \in ToolCalls : loop[l].plan[t] # None =>
    t \in ReadOnly /\ skippable(t) /\ loop[l].plan[t] = checkpoints[first(t)].result

\* A loop makes at most max_turns model calls, and it reports MaxTurnsReached
\* only when it got that many answers.
TurnsUsed ==
  \A l \in Loops :
    /\ Len(loop[l].asked) <= MaxTurns
    /\ outcome[l].kind = "MaxTurnsReached" => outcome[l].answers = MaxTurns

\* Once the host has cancelled the run the loop starts no further action, at
\* whatever await the cancellation found it.
NoActionAfterCancel ==
  [][\A l \in Loops : loop[l].cancelled /\ loop[l].step # "act" => loop'[l].step # "act"]_vars

\* With a model timeout and an action timeout every attempt returns, though the
\* model, an executor or the browser never answers: browser actions fall back
\* to the action timeout when they have none of their own.
LoopReturns == \A l \in Loops : loop[l].step # "idle" ~> loop[l].step = "idle"
=============================================================================

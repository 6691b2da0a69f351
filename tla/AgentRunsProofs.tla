--------------------------- MODULE AgentRunsProofs ---------------------------
(***************************************************************************)
(* Proofs about AgentRuns, for any processors and users, any number of     *)
(* runs and messages and any windows; and about Assistants, for any        *)
(* callers, humans, entities and bindings: what an assistant opened is     *)
(* whole, and what a skill registered is consistent.                       *)
(***************************************************************************)
EXTENDS AgentRuns, FiniteSetTheorems, SequenceTheorems, WellFoundedInduction, TLAPS

CONSTANTS Openers, Humans, Owner, Assistant, Foreground, Entities,
          MaxConversations, Actions, Needs, MaxBindings                 \* of Assistants
VARIABLES conversations, opening, environment, skill, report            \* of Assistants

\* The assistants, with callers and calls of their own.
Assist == INSTANCE Assistants WITH Callers <- Openers, calls <- opening

Requesting == {"request", "slice", "requested"}
Working    == {"start", "context", "model", "act", "append", "complete"}
Answering  == {"model", "act", "append", "complete"}

\* Every call except a user's append is about a run.
RunInv ==
  \A c \in Callers :
    /\ call[c].run \in Runs \cup {0}
    /\ call[c].step \notin {"idle", "append"} => call[c].run # 0

\* Run ids are fresh: the run of a request is not in the projection until the
\* request's own second event puts it there.
FreshInv ==
  /\ \A r \in Runs : (r > requested => status[r] = Absent) /\ (status[r] = Absent => trigger[r] = 0)
  /\ \A c \in Callers : call[c].step \in Requesting =>
       call[c].run <= requested /\ status[call[c].run] = Absent
  /\ \A c, d \in Callers :
       /\ call[c].step \in Requesting /\ call[d].step \in Requesting
       /\ call[c].run = call[d].run
       => c = d

\* A command that validated is about a run of the projection.
ValidInv ==
  \A c \in Callers :
    call[c].valid /\ call[c].step \in RunCommand => status[call[c].run] # Absent

\* A processor works on a message it was given for its run, and from the context
\* on that message is one of the conversation.
WorkInv ==
  \A c \in Callers :
    /\ call[c].run # 0 /\ call[c].step \in Working => call[c].msg \in given[call[c].run]
    /\ call[c].run # 0 /\ call[c].step \in Answering => exists(call[c].msg)

\* A run's output is an agent's reply to an earlier message given for the run.
Answers(r, o) ==
  /\ exists(o)
  /\ messages[o].sender = "agent"
  /\ messages[o].reply_to \in given[r] \cap (1 .. o - 1)

\* The output a processor is about to record is its own reply.
OutInv == \A c \in Callers : call[c].step = "complete" => Answers(call[c].run, call[c].out)

IInv == TypeOK /\ RunInv /\ FreshInv /\ ValidInv /\ WorkInv /\ OutInv /\ CompletedSound

\* With one caller a validated command still finds the run it validated.
AloneInv ==
  \A c \in Callers :
    call[c].valid /\ call[c].step \in RunCommand => status[call[c].run] \in {"Requested", "Started"}

-----------------------------------------------------------------------------
\* The identity sequence of length n, from a to b.
LEMMA Interval ==
  ASSUME NEW n \in Nat, NEW a \in 1..n, NEW b \in a..n
  PROVE  LET w == SubSeq([i \in 1..n |-> i], a, b)
         IN /\ w \in Seq(Nat)
            /\ Len(w) = b - a + 1
            /\ \A i \in 1..(b - a + 1) : w[i] = a + i - 1
<1> DEFINE ids == [i \in 1..n |-> i]
<1>1. ids \in Seq(Nat) /\ Len(ids) = n
  OBVIOUS
<1>2. \A i \in 1..n : ids[i] = i
  OBVIOUS
<1> HIDE DEF ids
<1>3. SubSeq(ids, a, b) \in Seq(Nat) /\ Len(SubSeq(ids, a, b)) = b - a + 1
  BY <1>1
<1>4. \A i \in 1..(b - a + 1) : SubSeq(ids, a, b)[i] = ids[a + i - 1]
  BY <1>1
<1> QED BY <1>2, <1>3, <1>4 DEF ids

\* The window of the last messages, when there is a message.
LEMMA RecentWindow ==
  ASSUME TypeOK, NEW m, exists(m)
  PROVE  recent_window \in Seq(Nat) /\ recent_window # <<>>
<1>1. Len(messages) \in Nat /\ Len(messages) > 0
  BY DEF TypeOK, exists
<1> DEFINE start == IF Len(messages) > SliceWindow THEN Len(messages) - SliceWindow + 1 ELSE 1
<1>2. start \in 1..Len(messages)
  BY <1>1, RunsAssumption
<1> HIDE DEF start
<1>3. recent_window = SubSeq([i \in 1..Len(messages) |-> i], start, Len(messages))
  BY DEF recent_window, start
<1>4. Len(recent_window) > 0 /\ recent_window \in Seq(Nat)
  BY <1>1, <1>2, <1>3, Interval
<1> QED BY <1>4

\* The context the builder takes: consecutive messages up to the trigger, as
\* many as the window allows.
ContextOK(w, m) ==
  /\ w # <<>> /\ w[Len(w)] = m
  /\ Len(w) = IF m < ContextWindow THEN m ELSE ContextWindow
  /\ \A i \in 1..(Len(w) - 1) : w[i + 1] = w[i] + 1

\* AgentContextBuilder's saturating arithmetic, for every trigger position and
\* every window.
LEMMA ContextOf ==
  ASSUME TypeOK, NEW m, exists(m)
  PROVE  context_of(m) \in Seq(Nat) /\ ContextOK(context_of(m), m)
<1>1. Len(messages) \in Nat /\ m \in 1..Len(messages)
  BY DEF TypeOK, exists
<1> DEFINE start == IF m > ContextWindow - 1 THEN m - (ContextWindow - 1) ELSE 1
           w == context_of(m)
<1>2. start \in 1..Len(messages) /\ m \in start..Len(messages)
  BY <1>1, RunsAssumption
<1>3. m - start + 1 = IF m < ContextWindow THEN m ELSE ContextWindow
  BY <1>1, RunsAssumption
<1> HIDE DEF start
<1>4. w = SubSeq([i \in 1..Len(messages) |-> i], start, m)
  BY DEF context_of, start
<1> HIDE DEF w
<1>5. /\ w \in Seq(Nat) /\ Len(w) = m - start + 1
      /\ \A i \in 1..(m - start + 1) : w[i] = start + i - 1
  BY <1>1, <1>2, <1>4, Interval
<1>6. w # <<>> /\ w[Len(w)] = m /\ \A i \in 1..(Len(w) - 1) : w[i + 1] = w[i] + 1
  BY <1>1, <1>2, <1>5
<1> QED BY <1>3, <1>5, <1>6 DEF ContextOK, w

-----------------------------------------------------------------------------
Call == [ step : Step, valid : BOOLEAN, run : Nat, msg : Nat, out : Nat, window : Seq(Nat) ]

\* A call record that is begun, moved on or ended stays a call record.
LEMMA CallTypes ==
  ASSUME TypeOK, NEW c \in Callers
  PROVE  /\ call[c] \in Call
         /\ \A k \in Call : [call EXCEPT ![c] = k] \in [Callers -> Call]
         /\ Idle \in Call
         /\ return(c) => call' \in [Callers -> Call]
         /\ \A step \in Step : goto(c, step) => call' \in [Callers -> Call]
         /\ \A step \in Step, r, m \in Nat : begin(c, step, r, m) => call' \in [Callers -> Call]
<1>1. call \in [Callers -> Call]
  BY DEF TypeOK, Call
<1>2. Idle \in Call
  BY DEF Idle, Call, Step, RunCommand
<1>3. \A k \in Call : [call EXCEPT ![c] = k] \in [Callers -> Call]
  BY <1>1
<1>4. \A step \in Step : [call[c] EXCEPT !.step = step, !.valid = FALSE] \in Call
  BY <1>1 DEF Call
<1>5. \A step \in Step, r, m \in Nat :
         [Idle EXCEPT !.step = step, !.run = r, !.msg = m] \in Call
  BY <1>2 DEF Call
<1>6. \A step \in Step : goto(c, step) =>
         call' = [call EXCEPT ![c] = [call[c] EXCEPT !.step = step, !.valid = FALSE]]
  BY <1>1 DEF goto, Call
<1>7. return(c) => call' \in [Callers -> Call]
  BY <1>2, <1>3 DEF return
<1>8. \A step \in Step : goto(c, step) => call' \in [Callers -> Call]
  BY <1>3, <1>4, <1>6
<1>9. ASSUME NEW step \in Step, NEW r \in Nat, NEW m \in Nat, begin(c, step, r, m)
      PROVE  call' \in [Callers -> Call]
  BY <1>3, <1>5, <1>9 DEF begin
<1>10. call[c] \in Call
  BY <1>1
<1> QED BY <1>2, <1>3, <1>7, <1>8, <1>9, <1>10

\* The initial state satisfies every part.
LEMMA InitInv == Init => IInv /\ AloneInv
<1> SUFFICES ASSUME Init PROVE IInv /\ AloneInv
  OBVIOUS
<1> USE RunsAssumption DEF Init, Idle, Absent
<1>1. TypeOK
  <2>1. <<>> \in Seq(Nat) /\ messages \in Seq([sender : {"user", "agent"}, reply_to : Nat])
    OBVIOUS
  <2>2. call \in [Callers -> [ step : Step, valid : BOOLEAN, run : Nat, msg : Nat,
                            out : Nat, window : Seq(Nat) ]]
    BY <2>1 DEF Step, RunCommand
  <2> QED BY <2>1, <2>2 DEF TypeOK
<1>2. RunInv /\ FreshInv /\ ValidInv /\ WorkInv /\ OutInv
  BY DEF RunInv, FreshInv, ValidInv, WorkInv, OutInv, Requesting, Working, Answering, RunCommand
<1>3. CompletedSound /\ AloneInv
  BY DEF CompletedSound, AloneInv, RunCommand
<1> QED BY <1>1, <1>2, <1>3 DEF IInv

\* Every action keeps the types.
LEMMA TypeNext == TypeOK /\ RunInv /\ [Next]_vars => TypeOK'
<1> SUFFICES ASSUME TypeOK, RunInv, [Next]_vars PROVE TypeOK'
  OBVIOUS
<1>0. \A c \in Callers : call[c].step \notin {"idle", "append"} => call[c].run \in Runs
  BY DEF RunInv
<1>a. ASSUME call' \in [Callers -> Call], UNCHANGED <<projection, histories>> PROVE TypeOK'
  BY <1>a DEF TypeOK, Call, projection, histories
<1>l. ASSUME NEW c \in Callers, leave(c), UNCHANGED <<projection, requested, calls, given>>
      PROVE  TypeOK'
  <2>1. call' \in [Callers -> Call] /\ left' \subseteq Runs
    BY <1>l, CallTypes DEF leave, TypeOK
  <2> QED BY <1>l, <2>1 DEF TypeOK, Call, projection
<1>s. /\ {"append", "request", "slice", "requested", "context", "model", "act"} \subseteq Step
      /\ RunCommand \subseteq Step
  BY DEF Step
<1>1. CASE UNCHANGED vars
  BY <1>1 DEF TypeOK, vars
<1>2. ASSUME NEW u \in Users, NEW m \in 0..Len(messages), AppendMessage(u, m)
      PROVE  TypeOK'
  <2>1. u \in Callers /\ m \in Nat /\ 0 \in Nat /\ "append" \in Step
    BY <1>s DEF Callers, TypeOK
  <2> QED BY <1>2, <1>a, <2>1, CallTypes DEF AppendMessage
<1>3. ASSUME NEW u \in Users, NEW m \in 0..Len(messages), RequestAgentRun(u, m)
      PROVE  TypeOK'
  <2>0. u \in Callers /\ m \in Nat /\ requested + 1 \in Nat /\ "request" \in Step
    BY <1>s, RunsAssumption DEF Callers, TypeOK
  <2>1. call' \in [Callers -> Call]
    BY <1>3, <2>0, CallTypes DEF RequestAgentRun
  <2> QED BY <1>3, <2>1, RunsAssumption DEF RequestAgentRun, TypeOK, Call, projection
<1>4. ASSUME NEW u \in Users, NEW r \in Runs, NEW cmd \in {"cancel", "timeout"}, EndRun(u, r, cmd)
      PROVE  TypeOK'
  <2>1. cmd \in Step /\ r \in Nat
    BY <1>s DEF RunCommand, Runs
  <2> QED BY <1>4, <1>a, <2>1, CallTypes DEF EndRun, Callers
<1>5. ASSUME NEW p \in Processors, NEW r \in Runs, NEW m \in 0..Len(messages), Process(p, r, m)
      PROVE  TypeOK'
  <2>1. p \in Callers /\ "start" \in Step /\ r \in Nat /\ m \in Nat
    BY <1>s DEF RunCommand, Runs, Callers, TypeOK
  <2>2. call' \in [Callers -> Call]
    BY <1>5, <2>1, CallTypes DEF Process
  <2>3. given' \in [Runs -> SUBSET Nat]
    <3>1. given \in [Runs -> SUBSET Nat] /\ given' = [given EXCEPT ![r] = given[r] \cup {m}]
      BY <1>5 DEF Process, TypeOK
    <3>2. given[r] \cup {m} \in SUBSET Nat
      BY <2>1, <3>1
    <3> QED BY <3>1, <3>2
  <2> QED BY <1>5, <2>2, <2>3, RunsAssumption DEF Process, TypeOK, Call, projection
<1>6. ASSUME NEW c \in Callers, Validate(c)
      PROVE  TypeOK'
  <2>1. [call[c] EXCEPT !.valid = TRUE] \in Call
    BY CallTypes DEF Call
  <2>2. call' = [call EXCEPT ![c] = [call[c] EXCEPT !.valid = TRUE]] \/ return(c)
    BY <1>6 DEF Validate, TypeOK
  <2> QED BY <1>6, <1>a, <2>1, <2>2, CallTypes DEF Validate
<1>7. ASSUME NEW c \in Callers, ValidateRequest(c)
      PROVE  TypeOK'
  <2> DEFINE k == [call[c] EXCEPT !.step = "slice", !.window = recent_window]
  <2>1. CASE exists(call[c].msg)
    <3>1. k \in Call
      BY <2>1, <1>s, RecentWindow, CallTypes DEF Call
    <3>2. call' = [call EXCEPT ![c] = k]
      BY <1>7, <2>1 DEF ValidateRequest, TypeOK
    <3> HIDE DEF k
    <3> QED BY <1>7, <1>a, <3>1, <3>2, CallTypes DEF ValidateRequest
  <2>2. CASE ~exists(call[c].msg)
    BY <1>7, <1>a, <2>2, CallTypes DEF ValidateRequest
  <2> QED BY <2>1, <2>2
<1>8. ASSUME NEW c \in Callers, MessageAppended(c)
      PROVE  TypeOK'
  <2>1. after_append(c) \in Call
    <3>1. Len(messages) + 1 \in Nat /\ "complete" \in Step
      BY <1>s DEF TypeOK, RunCommand
    <3>2. [call[c] EXCEPT !.step = "complete", !.valid = FALSE, !.out = Len(messages) + 1] \in Call
      BY <3>1, CallTypes DEF Call
    <3> QED BY <3>2, CallTypes DEF after_append
  <2>2. call' \in [Callers -> Call]
    BY <1>8, <2>1, CallTypes DEF MessageAppended
  <2>3. messages' \in Seq([sender : {"user", "agent"}, reply_to : Nat])
    BY <1>8, CallTypes DEF MessageAppended, TypeOK, Call
  <2> QED BY <1>8, <2>2, <2>3 DEF MessageAppended, TypeOK, Call, histories
<1>9. ASSUME NEW c \in Callers, ContextSliceBuilt(c)
      PROVE  TypeOK'
  <2>1. call' \in [Callers -> Call]
    BY <1>9, <1>s, CallTypes DEF ContextSliceBuilt
  <2>2. slice' \in [Runs -> Seq(Nat)]
    BY <1>9, CallTypes DEF ContextSliceBuilt, TypeOK, Call
  <2> QED BY <1>9, <2>1, <2>2 DEF ContextSliceBuilt, TypeOK, Call, histories
<1>10. ASSUME NEW c \in Callers, AgentRunRequested(c)
      PROVE  TypeOK'
  <2>1. call' \in [Callers -> Call]
    BY <1>10, CallTypes DEF AgentRunRequested
  <2>2. /\ status' \in [Runs -> AgentRunStatus \cup {Absent}]
        /\ trigger' \in [Runs -> Nat] /\ output' \in [Runs -> Nat]
    BY <1>10, CallTypes DEF AgentRunRequested, TypeOK, Call, AgentRunStatus
  <2> QED BY <1>10, <2>1, <2>2 DEF AgentRunRequested, TypeOK, Call, histories
<1>11. ASSUME NEW c \in Callers, RunEvent(c)
      PROVE  TypeOK'
  <2>1. call' \in [Callers -> Call]
    BY <1>11, <1>s, CallTypes DEF RunEvent, after
  <2>2. call[c].step \in RunCommand /\ call[c].out \in Nat
    BY <1>11, CallTypes DEF RunEvent, Call
  <2>3. EventStatus[call[c].step] \in AgentRunStatus
    BY <2>2 DEF RunCommand, EventStatus, AgentRunStatus
  <2>4. /\ status' \in [Runs -> AgentRunStatus \cup {Absent}]
        /\ output' \in [Runs -> Nat] /\ completed' \in [Runs -> Nat]
    BY <1>11, <2>2, <2>3 DEF RunEvent, TypeOK, completed_insert
  <2> QED BY <1>11, <2>1, <2>4 DEF RunEvent, TypeOK, Call, histories
<1>12. ASSUME NEW c \in Callers, BuildContext(c)
      PROVE  TypeOK'
  <2> DEFINE k == [call[c] EXCEPT !.step = "model", !.window = context_of(call[c].msg)]
  <2>1. CASE exists(call[c].msg)
    <3>1. k \in Call
      BY <2>1, <1>s, ContextOf, CallTypes DEF Call
    <3>2. call' = [call EXCEPT ![c] = k]
      BY <1>12, <2>1 DEF BuildContext, TypeOK
    <3> HIDE DEF k
    <3> QED BY <1>12, <1>a, <3>1, <3>2, CallTypes DEF BuildContext
  <2>2. CASE ~exists(call[c].msg)
    BY <1>12, <1>a, <1>s, <2>2, CallTypes DEF BuildContext, RunCommand
  <2> QED BY <2>1, <2>2
<1>13. ASSUME NEW c \in Callers, CallModel(c) \/ ProcessAction(c)
      PROVE  TypeOK'
  <2>1. CASE left' = left
    <3>1. call' \in [Callers -> Call] /\ UNCHANGED <<projection, histories>>
      BY <1>13, <1>s, <2>1, CallTypes DEF CallModel, ProcessAction, leave, RunCommand, histories
    <3> QED BY <1>a, <3>1
  <2>2. CASE leave(c) /\ call[c].step = "act" /\ UNCHANGED <<projection, requested, calls, given>>
    BY <1>l, <2>2
  <2> QED BY <1>13, <2>1, <2>2 DEF CallModel, ProcessAction, histories
<1>14. ASSUME NEW c \in Callers, Drop(c)
      PROVE  TypeOK'
  BY <1>14, <1>l DEF Drop
<1> QED BY <1>1, <1>2, <1>3, <1>4, <1>5, <1>6, <1>7, <1>8, <1>9, <1>10, <1>11, <1>12, <1>13, <1>14
        DEF Next, CallStep, ProcessorStep, Callers

-----------------------------------------------------------------------------
\* The types the arguments below need.
CallFacts ==
  /\ call \in [Callers -> Call]
  /\ status \in [Runs -> AgentRunStatus \cup {Absent}] /\ trigger \in [Runs -> Nat]
  /\ requested \in Nat /\ given \in [Runs -> SUBSET Nat]

\* The type invariant gives them.
LEMMA FactsOf == TypeOK => CallFacts
<1> SUFFICES ASSUME TypeOK PROVE CallFacts
  OBVIOUS
<1>1. call \in [Callers -> Call]
  BY DEF TypeOK, Call
<1>2. status \in [Runs -> AgentRunStatus \cup {Absent}] /\ trigger \in [Runs -> Nat]
  BY DEF TypeOK
<1>3. requested \in Nat /\ given \in [Runs -> SUBSET Nat]
  BY RunsAssumption DEF TypeOK
<1> QED BY <1>1, <1>2, <1>3 DEF CallFacts

\* In this step caller c's record changes to the given fields, the others' not
\* at all.
Moves(c, step, valid, r, m, o) ==
  /\ \A d \in Callers : d # c => call'[d] = call[d]
  /\ call'[c].step = step /\ call'[c].valid = valid
  /\ call'[c].run = r /\ call'[c].msg = m /\ call'[c].out = o

\* What begin, goto, return and the other changes of a call do to its fields.
LEMMA CallMoves ==
  ASSUME CallFacts, NEW c \in Callers
  PROVE  /\ \A step, r, m : begin(c, step, r, m) =>
               call[c].step = "idle" /\ Moves(c, step, FALSE, r, m, 0)
         /\ \A step : goto(c, step) =>
               Moves(c, step, FALSE, call[c].run, call[c].msg, call[c].out)
         /\ return(c) => Moves(c, "idle", FALSE, 0, 0, 0)
         /\ call' = [call EXCEPT ![c].valid = TRUE] =>
               Moves(c, call[c].step, TRUE, call[c].run, call[c].msg, call[c].out)
         /\ \A step, w : call' = [call EXCEPT ![c].step = step, ![c].window = w] =>
               Moves(c, step, call[c].valid, call[c].run, call[c].msg, call[c].out)
         /\ call' = [call EXCEPT ![c] = after_append(c)] =>
               \/ call[c].run = 0 /\ Moves(c, "idle", FALSE, 0, 0, 0)
               \/ /\ call[c].run # 0
                  /\ Moves(c, "complete", FALSE, call[c].run, call[c].msg, Len(messages) + 1)
<1> USE DEF CallFacts, Call
<1>1. ASSUME NEW step, NEW r, NEW m, begin(c, step, r, m)
      PROVE  call[c].step = "idle" /\ Moves(c, step, FALSE, r, m, 0)
  BY <1>1 DEF begin, Idle, Moves
<1>2. ASSUME NEW step, goto(c, step)
      PROVE  Moves(c, step, FALSE, call[c].run, call[c].msg, call[c].out)
  BY <1>2 DEF goto, Moves
<1>3. return(c) => Moves(c, "idle", FALSE, 0, 0, 0)
  BY DEF return, Idle, Moves
<1>4. ASSUME call' = [call EXCEPT ![c].valid = TRUE]
      PROVE  Moves(c, call[c].step, TRUE, call[c].run, call[c].msg, call[c].out)
  BY <1>4 DEF Moves
<1>5. ASSUME NEW step, NEW w, call' = [call EXCEPT ![c].step = step, ![c].window = w]
      PROVE  Moves(c, step, call[c].valid, call[c].run, call[c].msg, call[c].out)
  BY <1>5 DEF Moves
<1>6. ASSUME call' = [call EXCEPT ![c] = after_append(c)]
      PROVE  \/ call[c].run = 0 /\ Moves(c, "idle", FALSE, 0, 0, 0)
             \/ /\ call[c].run # 0
                /\ Moves(c, "complete", FALSE, call[c].run, call[c].msg, Len(messages) + 1)
  BY <1>6 DEF after_append, Idle, Moves
<1> HIDE DEF CallFacts
<1> QED BY <1>1, <1>2, <1>3, <1>4, <1>5, <1>6

-----------------------------------------------------------------------------
(* The steps as the arguments below see them: nine kinds, with what each   *)
(* does to its caller's record and to the projection.                      *)

Quiet == UNCHANGED <<messages, status, trigger, output, completed>>

keeps(c, step, valid) == Moves(c, step, valid, call[c].run, call[c].msg, call[c].out)

Begins(c) ==
  /\ call[c].step = "idle"
  /\ \/ \E m \in Nat : Moves(c, "append", FALSE, 0, m, 0)
     \/ \E r \in Runs, cmd \in {"cancel", "timeout"} : Moves(c, cmd, FALSE, r, 0, 0)
  /\ Quiet /\ UNCHANGED <<requested, given>>

Takes(c) ==
  /\ call[c].step = "idle"
  /\ \E r \in Runs, m \in Nat :
       /\ Moves(c, "start", FALSE, r, m, 0)
       /\ given' = [given EXCEPT ![r] = @ \cup {m}]
  /\ Quiet /\ UNCHANGED requested

Requests(c) ==
  /\ call[c].step = "idle"
  /\ requested < MaxRuns
  /\ \E m \in Nat : Moves(c, "request", FALSE, requested + 1, m, 0)
  /\ Quiet /\ requested' = requested + 1 /\ UNCHANGED given

Returns(c) == Moves(c, "idle", FALSE, 0, 0, 0) /\ Quiet /\ UNCHANGED <<requested, given>>

Validates(c) ==
  /\ call[c].step \in RunCommand \cup {"append"}
  /\ call[c].step \in RunCommand => status[call[c].run] \in {"Requested", "Started"}
  /\ keeps(c, call[c].step, TRUE)
  /\ Quiet /\ UNCHANGED <<requested, given>>

Advances(c) ==
  /\ \E to \in Step, v \in BOOLEAN :
       /\ <<call[c].step, to>> \in { <<"request", "slice">>, <<"slice", "requested">>,
            <<"context", "model">>, <<"context", "fail">>, <<"model", "append">>,
            <<"model", "act">>, <<"model", "fail">>, <<"act", "append">> }
       /\ to = "fail" => v = FALSE
       /\ to = "model" => exists(call[c].msg)
       /\ keeps(c, to, v)
  /\ Quiet /\ UNCHANGED <<requested, given>>

Replies(c) ==
  /\ call[c].step = "append"
  /\ messages' = Append(messages, [ sender |-> IF call[c].run = 0 THEN "user" ELSE "agent",
                                    reply_to |-> call[c].msg ])
  /\ \/ call[c].run = 0 /\ Moves(c, "idle", FALSE, 0, 0, 0)
     \/ /\ call[c].run # 0
        /\ Moves(c, "complete", FALSE, call[c].run, call[c].msg, Len(messages) + 1)
  /\ UNCHANGED <<status, trigger, output, completed, requested, given>>

Enters(c) ==
  /\ call[c].step = "requested"
  /\ status' = [status EXCEPT ![call[c].run] = "Requested"]
  /\ trigger' = [trigger EXCEPT ![call[c].run] = call[c].msg]
  /\ output' = [output EXCEPT ![call[c].run] = 0]
  /\ Moves(c, "idle", FALSE, 0, 0, 0)
  /\ UNCHANGED <<messages, completed, requested, given>>

Records(c) ==
  LET r == call[c].run
      m == IF call[c].step = "complete" THEN call[c].out ELSE 0
  IN /\ call[c].step \in RunCommand /\ call[c].valid
     /\ status' = [status EXCEPT ![r] = EventStatus[call[c].step]]
     /\ output' = [output EXCEPT ![r] = m]
     /\ completed' = IF call[c].step = "complete" THEN [completed EXCEPT ![r] = m] ELSE completed
     /\ \/ call[c].step = "start" /\ keeps(c, "context", FALSE)
        \/ Moves(c, "idle", FALSE, 0, 0, 0)
     /\ UNCHANGED <<messages, trigger, requested, given>>

\* Every step is of one of the kinds.
LEMMA Kinds ==
  ASSUME TypeOK, RunInv, [Next]_vars
  PROVE  \/ UNCHANGED vars
         \/ \E c \in Callers :
              \/ Begins(c) \/ Takes(c) \/ Requests(c) \/ Returns(c) \/ Validates(c) \/ Advances(c)
              \/ Replies(c) \/ Enters(c) \/ Records(c)
<1> DEFINE Goal == \E c \in Callers :
                     \/ Begins(c) \/ Takes(c) \/ Requests(c) \/ Returns(c) \/ Validates(c) \/ Advances(c)
                     \/ Replies(c) \/ Enters(c) \/ Records(c)
<1> USE CallMoves DEF projection, histories, Quiet
<1>0. CallFacts
  BY FactsOf
<1>m. \A m \in 0..Len(messages) : m \in Nat
  BY DEF TypeOK
<1>s. /\ {"slice", "requested", "append", "model", "act", "fail"} \subseteq Step
      /\ \A c \in Callers : call[c].valid \in BOOLEAN
  BY <1>0 DEF Step, RunCommand, CallFacts, Call
<1>2. ASSUME NEW u \in Users, NEW m \in 0..Len(messages), AppendMessage(u, m)
      PROVE  Goal
  <2>1. Begins(u)
    BY <1>0, <1>2, <1>m DEF AppendMessage, Callers, Begins
  <2> QED BY <2>1 DEF Callers
<1>3. ASSUME NEW u \in Users, NEW m \in 0..Len(messages), RequestAgentRun(u, m)
      PROVE  Goal
  <2>1. Requests(u)
    BY <1>0, <1>3, <1>m DEF RequestAgentRun, Callers, Requests
  <2> QED BY <2>1 DEF Callers
<1>4. ASSUME NEW u \in Users, NEW r \in Runs, NEW cmd \in {"cancel", "timeout"}, EndRun(u, r, cmd)
      PROVE  Goal
  <2>1. Begins(u)
    BY <1>0, <1>4 DEF EndRun, Callers, Begins
  <2> QED BY <2>1 DEF Callers
<1>5. ASSUME NEW p \in Processors, NEW r \in Runs, NEW m \in 0..Len(messages), Process(p, r, m)
      PROVE  Goal
  <2>1. Takes(p)
    BY <1>0, <1>5, <1>m DEF Process, Callers, Takes
  <2> QED BY <2>1 DEF Callers
<1>6. ASSUME NEW c \in Callers, Validate(c)
      PROVE  Goal
  <2>1. Validates(c) \/ Returns(c)
    <3>1. CASE accepts(c)
      <4>1. call[c].step \in RunCommand => status[call[c].run] \in {"Requested", "Started"}
        BY <3>1 DEF accepts, validate_agent_run_transition, RunCommand
      <4> QED BY <1>0, <1>6, <3>1, <4>1 DEF Validate, Validates, keeps
    <3>2. CASE ~accepts(c)
      BY <1>0, <1>6, <3>2 DEF Validate, Returns
    <3> QED BY <3>1, <3>2
  <2> QED BY <2>1
<1>7. ASSUME NEW c \in Callers, ValidateRequest(c)
      PROVE  Goal
  <2>1. CASE exists(call[c].msg)
    <3>1. keeps(c, "slice", call[c].valid)
      BY <1>0, <1>7, <2>1 DEF ValidateRequest, keeps
    <3>2. Advances(c)
      BY <1>7, <1>s, <3>1 DEF ValidateRequest, Advances
    <3> QED BY <3>2
  <2>2. CASE ~exists(call[c].msg)
    <3>1. Returns(c)
      BY <1>0, <1>7, <2>2 DEF ValidateRequest, Returns
    <3> QED BY <3>1
  <2> QED BY <2>1, <2>2
<1>8. ASSUME NEW c \in Callers, MessageAppended(c)
      PROVE  Goal
  <2>1. Replies(c)
    BY <1>0, <1>8 DEF MessageAppended, Replies
  <2> QED BY <2>1
<1>9. ASSUME NEW c \in Callers, ContextSliceBuilt(c)
      PROVE  Goal
  <2>1. keeps(c, "requested", FALSE)
    BY <1>0, <1>9 DEF ContextSliceBuilt, keeps
  <2>2. Advances(c)
    BY <1>9, <1>s, <2>1 DEF ContextSliceBuilt, Advances
  <2> QED BY <2>2
<1>10. ASSUME NEW c \in Callers, AgentRunRequested(c)
      PROVE  Goal
  <2>1. Enters(c)
    BY <1>0, <1>10 DEF AgentRunRequested, Enters
  <2> QED BY <2>1
<1>11. ASSUME NEW c \in Callers, RunEvent(c)
      PROVE  Goal
  <2>1. \/ call[c].step = "start" /\ keeps(c, "context", FALSE)
        \/ Moves(c, "idle", FALSE, 0, 0, 0)
    BY <1>0, <1>11 DEF RunEvent, after, keeps
  <2>2. Records(c)
    BY <1>11, <2>1 DEF RunEvent, Records, completed_insert
  <2> QED BY <2>2
<1>12. ASSUME NEW c \in Callers, BuildContext(c)
      PROVE  Goal
  <2>1. CASE exists(call[c].msg)
    <3>1. keeps(c, "model", call[c].valid)
      BY <1>0, <1>12, <2>1 DEF BuildContext, keeps
    <3>2. Advances(c)
      BY <1>12, <1>s, <2>1, <3>1 DEF BuildContext, Advances
    <3> QED BY <3>2
  <2>2. CASE ~exists(call[c].msg)
    <3>1. keeps(c, "fail", FALSE)
      BY <1>0, <1>12, <2>2 DEF BuildContext, keeps
    <3>2. Advances(c)
      BY <1>12, <1>s, <3>1 DEF BuildContext, Advances
    <3> QED BY <3>2
  <2> QED BY <2>1, <2>2
<1>13. ASSUME NEW c \in Callers, CallModel(c) \/ ProcessAction(c)
      PROVE  Goal
  <2>0. UNCHANGED <<messages, status, trigger, output, completed, requested, given>>
    BY <1>13 DEF CallModel, ProcessAction
  <2>1. CASE \E to \in {"append", "act", "fail"} :
               /\ goto(c, to)
               /\ <<call[c].step, to>> \in { <<"model", "append">>, <<"model", "act">>,
                                             <<"model", "fail">>, <<"act", "append">> }
    <3>1. PICK to \in {"append", "act", "fail"} :
            /\ keeps(c, to, FALSE)
            /\ <<call[c].step, to>> \in { <<"model", "append">>, <<"model", "act">>,
                                          <<"model", "fail">>, <<"act", "append">> }
      BY <1>0, <2>1 DEF keeps
    <3>2. Advances(c)
      BY <2>0, <1>s, <3>1 DEF Advances
    <3> QED BY <3>2
  <2>2. CASE return(c)
    <3>1. Returns(c)
      BY <1>0, <2>0, <2>2 DEF Returns
    <3> QED BY <3>1
  <2> QED BY <1>13, <2>1, <2>2 DEF CallModel, ProcessAction, leave
<1>14. ASSUME NEW c \in Callers, Drop(c)
      PROVE  Goal
  <2>1. Returns(c)
    BY <1>0, <1>14 DEF Drop, leave, Returns
  <2> QED BY <2>1
<1> HIDE DEF Goal
<1>15. Goal \/ UNCHANGED vars
  BY <1>2, <1>3, <1>4, <1>5, <1>6, <1>7, <1>8, <1>9, <1>10, <1>11, <1>12, <1>13, <1>14
     DEF Next, CallStep, ProcessorStep, Callers
<1> QED BY <1>15 DEF Goal
-----------------------------------------------------------------------------
(* Each part of the invariant, kind by kind.                               *)

\* A call keeps its run while it has one to work on.
LEMMA RunNext == TypeOK /\ RunInv /\ [Next]_vars => RunInv'
<1> SUFFICES ASSUME TypeOK, RunInv, [Next]_vars PROVE RunInv'
  OBVIOUS
<1>0. CallFacts
  BY FactsOf
<1> USE <1>0 DEF CallFacts, Call, RunInv, RunCommand
<1>1. CASE UNCHANGED vars
  BY <1>1 DEF vars
<1>2. ASSUME NEW c \in Callers, Begins(c) PROVE RunInv'
  <2>1. /\ \A d \in Callers : d # c => call'[d] = call[d]
        /\ call'[c].run \in Runs \cup {0}
        /\ call'[c].step \notin {"idle", "append"} => call'[c].run # 0
    <3>1. 0 \notin Runs
      BY DEF Runs
    <3> HIDE DEF RunInv, CallFacts, Call
    <3> QED BY <1>2, <3>1 DEF Begins, Moves
  <2> QED BY <2>1
<1>t. ASSUME NEW c \in Callers, Takes(c) PROVE RunInv'
  <2>1. /\ \A d \in Callers : d # c => call'[d] = call[d]
        /\ call'[c].run \in Runs
    BY <1>t DEF Takes, Moves
  <2>2. 0 \notin Runs
    BY DEF Runs
  <2> QED BY <2>1, <2>2
<1>3. ASSUME NEW c \in Callers, Requests(c) PROVE RunInv'
  <2>1. /\ \A d \in Callers : d # c => call'[d] = call[d]
        /\ call'[c].run = requested + 1
    BY <1>3 DEF Requests, Moves
  <2>2. requested + 1 \in Runs /\ requested + 1 # 0
    BY <1>3, RunsAssumption DEF Requests, Runs
  <2> QED BY <2>1, <2>2
<1>4. ASSUME NEW c \in Callers, Returns(c) PROVE RunInv'
  BY <1>4 DEF Returns, Moves, keeps, Quiet
<1>5. ASSUME NEW c \in Callers, Validates(c) PROVE RunInv'
  BY <1>5 DEF Validates, Moves, keeps, Quiet
<1>6. ASSUME NEW c \in Callers, Advances(c) PROVE RunInv'
  BY <1>6 DEF Advances, Moves, keeps, Quiet
<1>7. ASSUME NEW c \in Callers, Replies(c) PROVE RunInv'
  BY <1>7 DEF Replies, Moves, keeps, Quiet
<1>8. ASSUME NEW c \in Callers, Enters(c) PROVE RunInv'
  BY <1>8 DEF Enters, Moves, keeps, Quiet
<1>9. ASSUME NEW c \in Callers, Records(c) PROVE RunInv'
  BY <1>9 DEF Records, Moves, keeps, Quiet
<1> HIDE DEF CallFacts, Call, RunInv, RunCommand
<1> QED BY <1>1, <1>2, <1>t, <1>3, <1>4, <1>5, <1>6, <1>7, <1>8, <1>9, Kinds

\* The run of a request outside Requests and Enters.
LEMMA RequestsKept ==
  ASSUME CallFacts, NEW c \in Callers,
         \/ Begins(c) \/ Takes(c) \/ Returns(c) \/ Validates(c) \/ Advances(c)
         \/ Replies(c) \/ Enters(c) \/ Records(c)
  PROVE  /\ \A d \in Callers : call'[d].step \in Requesting =>
              call[d].step \in Requesting /\ call'[d].run = call[d].run
         /\ Enters(c) => call'[c].step \notin Requesting
         /\ requested' = requested
<1> SUFFICES /\ \A d \in Callers : d # c => call'[d] = call[d]
             /\ call'[c].step \in Requesting =>
                  call[c].step \in Requesting /\ call'[c].run = call[c].run
             /\ Enters(c) => call'[c].step \notin Requesting
             /\ requested' = requested
  OBVIOUS
<1> USE DEF Requesting, Moves, keeps, RunCommand
<1>1. CASE Begins(c) \/ Takes(c)
  BY <1>1 DEF Begins, Takes, Enters
<1>2. CASE Returns(c)
  BY <1>2 DEF Returns, Enters
<1>3. CASE Validates(c)
  BY <1>3 DEF Validates, Enters
<1>4. CASE Advances(c)
  BY <1>4 DEF Advances, Enters
<1>5. CASE Replies(c)
  BY <1>5 DEF Replies, Enters
<1>6. CASE Enters(c)
  BY <1>6 DEF Enters
<1>7. CASE Records(c)
  BY <1>7 DEF Records, Enters
<1> QED BY <1>1, <1>2, <1>3, <1>4, <1>5, <1>6, <1>7

\* Only the request that was given a run id brings the run into the projection.
LEMMA FreshNext == TypeOK /\ RunInv /\ ValidInv /\ FreshInv /\ [Next]_vars => FreshInv'
<1> SUFFICES ASSUME TypeOK, RunInv, ValidInv, FreshInv, [Next]_vars PROVE FreshInv'
  OBVIOUS
<1>0. CallFacts
  BY FactsOf
<1>r. \A c \in Callers : call[c].step \notin {"idle", "append"} => call[c].run \in Runs
  BY DEF RunInv
<1>a. ASSUME NEW c \in Callers,
             Begins(c) \/ Takes(c) \/ Returns(c) \/ Validates(c) \/ Advances(c) \/ Replies(c)
      PROVE  FreshInv'
  <2>1. status' = status /\ trigger' = trigger
    BY <1>a DEF Begins, Takes, Returns, Validates, Advances, Replies, Quiet
  <2> QED BY <1>0, <1>a, <2>1, RequestsKept DEF FreshInv
<1>1. CASE UNCHANGED vars
  BY <1>1 DEF vars, FreshInv
<1>2. ASSUME NEW c \in Callers, Requests(c) PROVE FreshInv'
  <2>1. /\ \A d \in Callers : d # c => call'[d] = call[d]
        /\ call'[c].run = requested + 1 /\ requested' = requested + 1
        /\ status' = status /\ trigger' = trigger
    BY <1>2 DEF Requests, Moves, Quiet
  <2>2. requested + 1 \in Runs /\ requested \in Nat
    BY <1>0, <1>2, RunsAssumption DEF Requests, Runs, CallFacts
  <2>3. status[requested + 1] = Absent
    BY <2>2 DEF FreshInv
  <2>4. \A d \in Callers : call[d].step \in Requesting => call[d].run \in Nat /\ call[d].run <= requested
    BY <1>0 DEF FreshInv, CallFacts, Call
  <2>5. \A r \in Runs : (r > requested' => status'[r] = Absent) /\ (status'[r] = Absent => trigger'[r] = 0)
    BY <2>1, <2>2 DEF FreshInv, Runs
  <2>6. \A d \in Callers : call'[d].step \in Requesting =>
          call'[d].run <= requested' /\ status'[call'[d].run] = Absent
    BY <2>1, <2>2, <2>3, <2>4 DEF FreshInv
  <2>7. \A d, e \in Callers :
          /\ call'[d].step \in Requesting /\ call'[e].step \in Requesting
          /\ call'[d].run = call'[e].run
          => d = e
    BY <2>1, <2>2, <2>4 DEF FreshInv
  <2> QED BY <2>5, <2>6, <2>7 DEF FreshInv
<1>3. ASSUME NEW c \in Callers, Enters(c) PROVE FreshInv'
  <2> DEFINE q == call[c].run
  <2>1. /\ call[c].step \in Requesting /\ q \in Runs
        /\ status' = [status EXCEPT ![q] = "Requested"]
        /\ trigger' = [trigger EXCEPT ![q] = call[c].msg]
    BY <1>3, <1>r DEF Enters, Requesting
  <2>2. q <= requested
    BY <2>1 DEF FreshInv
  <2>3. \A d \in Callers : call'[d].step \in Requesting =>
          call[d].step \in Requesting /\ call'[d].run = call[d].run /\ d # c
    BY <1>0, <1>3, RequestsKept
  <2>4. requested' = requested
    BY <1>3 DEF Enters
  <2> HIDE DEF q
  <2>5. \A r \in Runs : (r > requested' => status'[r] = Absent) /\ (status'[r] = Absent => trigger'[r] = 0)
    BY <1>0, <2>1, <2>2, <2>4 DEF FreshInv, CallFacts, Absent, Runs
  <2>6. \A d \in Callers : d # c /\ call[d].step \in Requesting => call[d].run # q /\ call[d].run \in Runs
    BY <1>r, <2>1 DEF FreshInv, q, Requesting
  <2>7. \A d \in Callers : call'[d].step \in Requesting =>
          call'[d].run <= requested' /\ status'[call'[d].run] = Absent
    BY <1>0, <2>1, <2>3, <2>4, <2>6 DEF FreshInv, CallFacts
  <2> QED BY <2>3, <2>5, <2>7 DEF FreshInv
<1>4. ASSUME NEW c \in Callers, Records(c) PROVE FreshInv'
  <2> DEFINE q == call[c].run
  <2>1. /\ q \in Runs /\ status[q] # Absent
        /\ status' = [status EXCEPT ![q] = EventStatus[call[c].step]]
        /\ EventStatus[call[c].step] # Absent
        /\ trigger' = trigger
    BY <1>4, <1>r DEF Records, ValidInv, RunCommand, EventStatus, Absent
  <2>2. \A r \in Runs : status'[r] = Absent <=> status[r] = Absent
    BY <1>0, <2>1 DEF CallFacts
  <2>3. \A d \in Callers : call[d].step \in Requesting => call[d].run \in Runs
    BY <1>r DEF Requesting
  <2> QED BY <1>0, <1>4, <2>1, <2>2, <2>3, RequestsKept DEF FreshInv
<1> QED BY <1>a, <1>1, <1>2, <1>3, <1>4, Kinds

\* A run of the projection stays in it.
LEMMA ValidNext == TypeOK /\ RunInv /\ ValidInv /\ [Next]_vars => ValidInv'
<1> SUFFICES ASSUME TypeOK, RunInv, ValidInv, [Next]_vars PROVE ValidInv'
  OBVIOUS
<1>0. CallFacts
  BY FactsOf
<1> USE <1>0 DEF CallFacts, Call, RunInv, ValidInv, RunCommand, EventStatus, Absent
<1>1. CASE UNCHANGED vars
  BY <1>1 DEF vars
<1>2. ASSUME NEW c \in Callers, Begins(c) \/ Takes(c) PROVE ValidInv'
  <2>1. /\ \A d \in Callers : d # c => call'[d] = call[d]
        /\ call'[c].valid = FALSE /\ status' = status
    BY <1>2 DEF Begins, Takes, Moves, Quiet
  <2> QED BY <2>1
<1>3. ASSUME NEW c \in Callers, Requests(c) PROVE ValidInv'
  BY <1>3 DEF Requests, Moves, keeps, Quiet
<1>4. ASSUME NEW c \in Callers, Returns(c) PROVE ValidInv'
  BY <1>4 DEF Returns, Moves, keeps, Quiet
<1>5. ASSUME NEW c \in Callers, Validates(c) PROVE ValidInv'
  <2>1. /\ \A d \in Callers : d # c => call'[d] = call[d]
        /\ call'[c].step = call[c].step /\ call'[c].run = call[c].run /\ status' = status
    BY <1>5 DEF Validates, Moves, keeps, Quiet
  <2>2. call[c].step \in RunCommand => status[call[c].run] # Absent
    BY <1>5 DEF Validates
  <2> HIDE DEF CallFacts, Call, RunInv, RunCommand, EventStatus, Absent
  <2> QED BY <2>1, <2>2
<1>6. ASSUME NEW c \in Callers, Advances(c) PROVE ValidInv'
  BY <1>6 DEF Advances, Moves, keeps, Quiet
<1>7. ASSUME NEW c \in Callers, Replies(c) PROVE ValidInv'
  BY <1>7 DEF Replies, Moves, keeps, Quiet
<1>8. ASSUME NEW c \in Callers, Enters(c) PROVE ValidInv'
  BY <1>8 DEF Enters, Moves, keeps, Quiet
<1>9. ASSUME NEW c \in Callers, Records(c) PROVE ValidInv'
  <2> DEFINE q == call[c].run
  <2>1. /\ q \in Runs
        /\ status' = [status EXCEPT ![q] = EventStatus[call[c].step]]
        /\ EventStatus[call[c].step] # Absent
    <3>1. call[c].step \in RunCommand /\ status' = [status EXCEPT ![q] = EventStatus[call[c].step]]
      BY <1>9 DEF Records
    <3>2. q \in Runs
      BY <3>1
    <3>3. \A step \in RunCommand : EventStatus[step] # Absent
      OBVIOUS
    <3> HIDE DEF RunCommand, EventStatus, Absent
    <3> QED BY <3>1, <3>2, <3>3
  <2>2. \A d \in Callers : call'[d].valid => call'[d] = call[d]
    BY <1>9 DEF Records, Moves, keeps
  <2>3. \A d \in Callers : call[d].step \in RunCommand => call[d].run \in Runs
    OBVIOUS
  <2> HIDE DEF q
  <2>4. \A r \in Runs : status[r] # Absent => status'[r] # Absent
    BY <2>1
  <2> QED BY <2>2, <2>3, <2>4
<1> HIDE DEF CallFacts, Call, RunInv, ValidInv, RunCommand, EventStatus, Absent
<1> QED BY <1>1, <1>2, <1>3, <1>4, <1>5, <1>6, <1>7, <1>8, <1>9, Kinds

\* Answers in the next state.
WillAnswer(r, o) ==
  /\ o \in DOMAIN messages'
  /\ messages'[o].sender = "agent"
  /\ messages'[o].reply_to \in given'[r] \cap (1 .. o - 1)

\* Messages stay where they are and what a run's processors were given stays
\* given, so that an answer stays one.
LEMMA AnswersStay ==
  ASSUME TypeOK, RunInv, [Next]_vars
  PROVE  /\ \A m : exists(m) => exists(m)'
         /\ \A r \in Runs : \A m : m \in given[r] => m \in given'[r]
         /\ \A r \in Runs : \A o : Answers(r, o) => WillAnswer(r, o)
<1>0. CallFacts /\ messages \in Seq([sender : {"user", "agent"}, reply_to : Nat])
  BY FactsOf DEF TypeOK
<1>1. /\ \A m \in DOMAIN messages : m \in DOMAIN messages' /\ messages'[m] = messages[m]
      /\ \A r \in Runs : given[r] \subseteq given'[r]
  <2>1. CASE UNCHANGED <<messages, given>>
    BY <2>1
  <2>2. ASSUME NEW c \in Callers, Takes(c)
        PROVE  messages' = messages /\ \A r \in Runs : given[r] \subseteq given'[r]
    BY <1>0, <2>2 DEF Takes, Quiet, CallFacts
  <2>3. ASSUME NEW c \in Callers, Replies(c)
        PROVE  /\ given' = given
               /\ \A m \in DOMAIN messages : m \in DOMAIN messages' /\ messages'[m] = messages[m]
    <3> DEFINE new == [ sender |-> IF call[c].run = 0 THEN "user" ELSE "agent", reply_to |-> call[c].msg ]
    <3>1. /\ messages' = Append(messages, new) /\ given' = given
          /\ new \in [sender : {"user", "agent"}, reply_to : Nat]
      BY <1>0, <2>3 DEF Replies, CallFacts, Call
    <3> HIDE DEF new
    <3> QED BY <1>0, <3>1
  <2>4. ASSUME NEW c \in Callers,
               \/ Begins(c) \/ Requests(c) \/ Returns(c) \/ Validates(c) \/ Advances(c)
               \/ Enters(c) \/ Records(c)
        PROVE  UNCHANGED <<messages, given>>
    BY <2>4 DEF Begins, Requests, Returns, Validates, Advances, Enters, Records, Quiet
  <2>5. CASE UNCHANGED vars
    BY <2>1, <2>5 DEF vars
  <2> QED BY <2>1, <2>2, <2>3, <2>4, <2>5, Kinds
<1> QED BY <1>1 DEF Answers, WillAnswer, exists

\* What a processor was given stays given, and only a message of the
\* conversation gets it past the context.
LEMMA WorkNext == TypeOK /\ RunInv /\ WorkInv /\ [Next]_vars => WorkInv'
<1> SUFFICES ASSUME TypeOK, RunInv, WorkInv, [Next]_vars PROVE WorkInv'
  OBVIOUS
<1>0. CallFacts
  BY FactsOf
<1> DEFINE Good(k) == /\ k.run # 0 /\ k.step \in Working => k.msg \in given[k.run]
                      /\ k.run # 0 /\ k.step \in Answering => exists(k.msg)
           Good2(k) == /\ k.run # 0 /\ k.step \in Working => k.msg \in given'[k.run]
                       /\ k.run # 0 /\ k.step \in Answering => k.msg \in DOMAIN messages'
<1>a. \A k : k.run \in Runs \cup {0} /\ Good(k) => Good2(k)
  BY AnswersStay DEF exists
<1>b. \A c \in Callers : call[c].run \in Runs \cup {0} /\ Good(call[c])
  BY DEF RunInv, WorkInv
\* The other calls, and one that does nothing new.
<1>c. ASSUME NEW c \in Callers, \A d \in Callers : d # c => call'[d] = call[d], Good2(call'[c])
      PROVE  WorkInv'
  <2>1. ASSUME NEW d \in Callers PROVE Good2(call'[d])
    BY <1>a, <1>b, <1>c
  <2> QED BY <2>1 DEF WorkInv, exists
<1>d. ASSUME NEW c \in Callers, \A d \in Callers : d # c => call'[d] = call[d],
             call'[c].run = 0 \/ call'[c].step \notin Working
      PROVE  WorkInv'
  BY <1>c, <1>d DEF Working, Answering
<1>e. ASSUME NEW c \in Callers, \A d \in Callers : d # c => call'[d] = call[d],
             call'[c].run = call[c].run, call'[c].msg = call[c].msg,
             call'[c].step \in Working => call[c].step \in Working,
             call'[c].step \in Answering => call[c].step \in Answering \/ exists(call[c].msg)
      PROVE  WorkInv'
  <2>1. \A m : exists(m) => m \in DOMAIN messages'
    BY AnswersStay DEF exists
  <2>2. Good2(call'[c])
    BY <1>a, <1>b, <1>e, <2>1
  <2> QED BY <1>c, <1>e, <2>2
<1>1. CASE UNCHANGED vars
  BY <1>1 DEF vars, WorkInv, exists
<1>2. ASSUME NEW c \in Callers, Begins(c) PROVE WorkInv'
  <2>1. /\ \A d \in Callers : d # c => call'[d] = call[d]
        /\ call'[c].run = 0 \/ call'[c].step \notin Working
    BY <1>2 DEF Begins, Moves, Working
  <2> QED BY <1>d, <2>1
<1>t. ASSUME NEW c \in Callers, Takes(c) PROVE WorkInv'
  <2>1. PICK r \in Runs, m \in Nat :
          Moves(c, "start", FALSE, r, m, 0) /\ given' = [given EXCEPT ![r] = @ \cup {m}]
    BY <1>t DEF Takes
  <2>2. m \in given'[r]
    BY <1>0, <2>1 DEF CallFacts
  <2>3. /\ \A d \in Callers : d # c => call'[d] = call[d]
        /\ call'[c].step = "start" /\ call'[c].run = r /\ call'[c].msg = m
    BY <2>1 DEF Moves
  <2>4. Good2(call'[c])
    BY <2>2, <2>3 DEF Answering
  <2> QED BY <1>c, <2>3, <2>4
<1>3. ASSUME NEW c \in Callers, Requests(c) PROVE WorkInv'
  <2>1. (\A d \in Callers : d # c => call'[d] = call[d]) /\ call'[c].step \notin Working
    BY <1>3 DEF Requests, Moves, Working
  <2> QED BY <1>d, <2>1
<1>4. ASSUME NEW c \in Callers, Returns(c) \/ Enters(c) PROVE WorkInv'
  <2>1. (\A d \in Callers : d # c => call'[d] = call[d]) /\ call'[c].run = 0
    BY <1>4 DEF Returns, Enters, Moves
  <2> QED BY <1>d, <2>1
<1>5. ASSUME NEW c \in Callers, Validates(c) PROVE WorkInv'
  <2>1. /\ \A d \in Callers : d # c => call'[d] = call[d]
        /\ call'[c].step = call[c].step /\ call'[c].run = call[c].run /\ call'[c].msg = call[c].msg
    BY <1>5 DEF Validates, Moves, keeps
  <2> QED BY <1>e, <2>1
<1>6. ASSUME NEW c \in Callers, Advances(c) PROVE WorkInv'
  <2>1. /\ \A d \in Callers : d # c => call'[d] = call[d]
        /\ call'[c].run = call[c].run /\ call'[c].msg = call[c].msg
    BY <1>6 DEF Advances, Moves, keeps
  <2>2. call'[c].step \in Working => call[c].step \in Working
    BY <1>6 DEF Advances, Moves, keeps, Working
  <2>3. call'[c].step \in Answering => call[c].step \in Answering \/ exists(call[c].msg)
    BY <1>6 DEF Advances, Moves, keeps, Answering
  <2> QED BY <1>e, <2>1, <2>2, <2>3
<1>7. ASSUME NEW c \in Callers, Replies(c) PROVE WorkInv'
  <2>1. /\ \A d \in Callers : d # c => call'[d] = call[d]
        /\ \/ call'[c].run = 0
           \/ /\ call[c].step = "append" /\ call'[c].step = "complete"
              /\ call'[c].run = call[c].run /\ call'[c].msg = call[c].msg
    BY <1>7 DEF Replies, Moves
  <2>2. "append" \in Working /\ "append" \in Answering
    BY DEF Working, Answering
  <2> QED BY <1>d, <1>e, <2>1, <2>2
<1>9. ASSUME NEW c \in Callers, Records(c) PROVE WorkInv'
  <2>1. /\ \A d \in Callers : d # c => call'[d] = call[d]
        /\ \/ call'[c].run = 0
           \/ /\ call[c].step = "start" /\ call'[c].step = "context"
              /\ call'[c].run = call[c].run /\ call'[c].msg = call[c].msg
    BY <1>9 DEF Records, Moves, keeps
  <2>2. "start" \in Working /\ "context" \notin Answering
    BY DEF Working, Answering
  <2> QED BY <1>d, <1>e, <2>1, <2>2
<1> QED BY <1>1, <1>2, <1>t, <1>3, <1>4, <1>5, <1>6, <1>7, <1>9, Kinds

\* A processor's reply is the message it appends.
LEMMA OutNext == TypeOK /\ RunInv /\ WorkInv /\ OutInv /\ [Next]_vars => OutInv'
<1> SUFFICES ASSUME TypeOK, RunInv, WorkInv, OutInv, [Next]_vars PROVE OutInv'
  OBVIOUS
<1>0. CallFacts /\ messages \in Seq([sender : {"user", "agent"}, reply_to : Nat])
  BY FactsOf DEF TypeOK
<1>a. \A d \in Callers : call[d].step = "complete" => WillAnswer(call[d].run, call[d].out)
  BY AnswersStay DEF RunInv, OutInv
<1>b. ASSUME \A d \in Callers : call'[d].step = "complete" => WillAnswer(call'[d].run, call'[d].out)
      PROVE  OutInv'
  BY <1>b DEF OutInv, Answers, WillAnswer, exists
<1>c. ASSUME NEW c \in Callers, \A d \in Callers : d # c => call'[d] = call[d],
             call'[c].step = "complete" => WillAnswer(call'[c].run, call'[c].out)
      PROVE  OutInv'
  BY <1>a, <1>b, <1>c
<1>1. CASE UNCHANGED vars
  BY <1>a, <1>b, <1>1 DEF vars
<1>2. ASSUME NEW c \in Callers, Begins(c) \/ Takes(c) \/ Requests(c) \/ Returns(c) PROVE OutInv'
  <2>1. (\A d \in Callers : d # c => call'[d] = call[d]) /\ call'[c].step # "complete"
    BY <1>2 DEF Begins, Takes, Requests, Returns, Moves
  <2> QED BY <1>c, <2>1
<1>3. ASSUME NEW c \in Callers, Advances(c) \/ Enters(c) \/ Records(c) PROVE OutInv'
  <2>1. (\A d \in Callers : d # c => call'[d] = call[d]) /\ call'[c].step # "complete"
    BY <1>3 DEF Advances, Enters, Records, Moves, keeps
  <2> QED BY <1>c, <2>1
<1>4. ASSUME NEW c \in Callers, Validates(c) PROVE OutInv'
  <2>1. /\ \A d \in Callers : d # c => call'[d] = call[d]
        /\ call'[c].step = call[c].step /\ call'[c].run = call[c].run /\ call'[c].out = call[c].out
    BY <1>4 DEF Validates, Moves, keeps
  <2> QED BY <1>a, <1>c, <2>1
<1>5. ASSUME NEW c \in Callers, Replies(c) PROVE OutInv'
  <2> DEFINE new == [ sender |-> IF call[c].run = 0 THEN "user" ELSE "agent", reply_to |-> call[c].msg ]
             o == Len(messages) + 1
  <2>1. /\ messages' = Append(messages, new) /\ given' = given /\ call[c].step = "append"
        /\ \A d \in Callers : d # c => call'[d] = call[d]
        /\ call'[c].step = "complete" => call[c].run # 0 /\ call'[c].run = call[c].run /\ call'[c].out = o
    BY <1>5 DEF Replies, Moves
  <2>2. new \in [sender : {"user", "agent"}, reply_to : Nat]
    BY <1>0 DEF CallFacts, Call
  <2>3. call[c].run # 0 => /\ new.sender = "agent" /\ new.reply_to = call[c].msg
                           /\ call[c].msg \in given[call[c].run] /\ exists(call[c].msg)
    BY <2>1 DEF WorkInv, Working, Answering
  <2> HIDE DEF new
  <2>4. o \in DOMAIN messages' /\ messages'[o] = new /\ DOMAIN messages = 1 .. o - 1
    BY <1>0, <2>1, <2>2
  <2> HIDE DEF o
  <2>5. call'[c].step = "complete" => WillAnswer(call'[c].run, call'[c].out)
    BY <2>1, <2>3, <2>4 DEF WillAnswer, exists
  <2> QED BY <1>c, <2>1, <2>5
<1> QED BY <1>1, <1>2, <1>3, <1>4, <1>5, Kinds

\* Only complete_agent_run makes a run Completed.
LEMMA CompletedNext ==
  TypeOK /\ RunInv /\ FreshInv /\ WorkInv /\ OutInv /\ CompletedSound /\ [Next]_vars => CompletedSound'
<1> SUFFICES ASSUME TypeOK, RunInv, FreshInv, WorkInv, OutInv, CompletedSound, [Next]_vars PROVE CompletedSound'
  OBVIOUS
<1>0. CallFacts /\ output \in [Runs -> Nat] /\ completed \in [Runs -> Nat]
  BY FactsOf DEF TypeOK
<1>a. \A r \in Runs : status[r] = "Completed" =>
         output[r] = completed[r] /\ WillAnswer(r, output[r])
  BY AnswersStay DEF CompletedSound, Answers
\* A trigger that is the only message given is the one answered.
<1>b. ASSUME \A r \in Runs : status'[r] = "Completed" =>
               output'[r] = completed'[r] /\ WillAnswer(r, output'[r])
      PROVE  CompletedSound'
  <2>1. \A r \in Runs : \A o : WillAnswer(r, o) /\ given'[r] \subseteq {trigger'[r], 0} =>
           messages'[o].reply_to = trigger'[r]
    BY DEF WillAnswer
  <2> QED BY <1>b, <2>1 DEF CompletedSound, WillAnswer, exists
<1>1. CASE UNCHANGED <<status, output, completed>>
  BY <1>a, <1>b, <1>1
<1>2. ASSUME NEW c \in Callers, Enters(c) PROVE CompletedSound'
  <2>1. \A r \in Runs : status'[r] = "Completed" =>
          status[r] = "Completed" /\ output'[r] = output[r] /\ completed'[r] = completed[r]
    BY <1>0, <1>2 DEF Enters, CallFacts
  <2> QED BY <1>a, <1>b, <2>1
<1>3. ASSUME NEW c \in Callers, Records(c) PROVE CompletedSound'
  <2> DEFINE q == call[c].run
  <2>1. /\ call[c].step \in RunCommand
        /\ status' = [status EXCEPT ![q] = EventStatus[call[c].step]]
        /\ output' = [output EXCEPT ![q] = IF call[c].step = "complete" THEN call[c].out ELSE 0]
        /\ completed' = IF call[c].step = "complete" THEN [completed EXCEPT ![q] = call[c].out] ELSE completed
    BY <1>3 DEF Records
  <2>2. EventStatus[call[c].step] = "Completed" => call[c].step = "complete"
    BY <2>1 DEF RunCommand, EventStatus
  <2>3. call[c].step = "complete" => WillAnswer(q, call[c].out)
    BY AnswersStay, <2>1 DEF OutInv, RunInv
  <2> HIDE DEF q
  <2>4. ASSUME NEW r \in Runs, status'[r] = "Completed"
        PROVE  output'[r] = completed'[r] /\ WillAnswer(r, output'[r])
    <3>1. CASE r = q
      BY <1>0, <2>1, <2>2, <2>3, <2>4, <3>1 DEF CallFacts
    <3>2. CASE r # q
      BY <1>0, <1>a, <2>1, <2>4, <3>2 DEF CallFacts
    <3> QED BY <3>1, <3>2
  <2> QED BY <1>b, <2>4
<1>4. ASSUME NEW c \in Callers,
             \/ Begins(c) \/ Takes(c) \/ Requests(c) \/ Returns(c) \/ Validates(c) \/ Advances(c)
             \/ Replies(c)
      PROVE  UNCHANGED <<status, output, completed>>
  BY <1>4 DEF Begins, Takes, Requests, Returns, Validates, Advances, Replies, Quiet
<1>5. UNCHANGED vars => UNCHANGED <<status, output, completed>>
  BY DEF vars
<1> QED BY <1>1, <1>2, <1>3, <1>4, <1>5, Kinds

-----------------------------------------------------------------------------
(* Windows: what a request has read for its slice, and a processor for its *)
(* prompt, is still in the call when it is used.                           *)

Reading == {"slice", "requested", "model", "act"}

WindowInv ==
  /\ \A c \in Callers :
       /\ call[c].step = "slice" => call[c].window # <<>>
       /\ call[c].step = "requested" => slice[call[c].run] # <<>>
       /\ call[c].step \in {"model", "act"} => ContextOK(call[c].window, call[c].msg)
  /\ RunHasSlice

\* A step that reads nothing: slices stay, no run enters the projection, and
\* the caller is left with no window to use, or with the one it had.
Rereads(c) ==
  /\ \A d \in Callers : d # c => call'[d] = call[d]
  /\ slice' = slice
  /\ \A r \in Runs : status[r] = Absent => status'[r] = Absent
  /\ \/ call'[c].step \notin Reading
     \/ /\ \/ call'[c].step = call[c].step
           \/ call[c].step = "model" /\ call'[c].step = "act"
        /\ call'[c].run = call[c].run /\ call'[c].msg = call[c].msg
        /\ call'[c].window = call[c].window

LEMMA WindowKept ==
  ASSUME TypeOK, WindowInv, NEW c \in Callers, Rereads(c)
  PROVE  WindowInv'
BY DEF WindowInv, Rereads, Reading, RunHasSlice, ContextOK

LEMMA WindowNext == TypeOK /\ RunInv /\ ValidInv /\ WindowInv /\ [Next]_vars => WindowInv'
<1> SUFFICES ASSUME TypeOK, RunInv, ValidInv, WindowInv, [Next]_vars PROVE WindowInv'
  OBVIOUS
<1>0. /\ call \in [Callers -> Call]
      /\ status \in [Runs -> AgentRunStatus \cup {Absent}]
      /\ slice \in [Runs -> Seq(Nat)]
  BY DEF TypeOK, Call
<1>r. \A c \in Callers : call[c].step \notin {"idle", "append"} => call[c].run \in Runs
  BY DEF RunInv
\* The changes of a call that read nothing.
<1>a. ASSUME NEW c \in Callers, slice' = slice,
             \A r \in Runs : status[r] = Absent => status'[r] = Absent,
             \/ return(c)
             \/ \E step \in (Step \ Reading) : goto(c, step)
             \/ \E step \in (Step \ Reading), r, m \in Nat : begin(c, step, r, m)
             \/ call' = [call EXCEPT ![c].valid = TRUE]
             \/ call[c].step = "model" /\ goto(c, "act")
      PROVE  WindowInv'
  <2>1. CASE return(c)
    BY <1>0, <1>a, <2>1, WindowKept DEF return, Idle, Rereads, Reading
  <2>2. ASSUME NEW step \in (Step \ Reading), goto(c, step) PROVE WindowInv'
    <3>1. (\A d \in Callers : d # c => call'[d] = call[d]) /\ call'[c].step = step
      BY <1>0, <2>2 DEF goto, Call
    <3>2. Rereads(c)
      BY <1>a, <3>1 DEF Rereads
    <3> QED BY <3>2, WindowKept
  <2>3. ASSUME NEW step \in (Step \ Reading), NEW r \in Nat, NEW m \in Nat, begin(c, step, r, m)
        PROVE  WindowInv'
    BY <1>0, <1>a, <2>3, WindowKept DEF begin, Idle, Rereads
  <2>4. CASE call' = [call EXCEPT ![c].valid = TRUE]
    BY <1>0, <1>a, <2>4, WindowKept DEF Rereads, Call
  <2>5. CASE call[c].step = "model" /\ goto(c, "act")
    <3>1. /\ \A d \in Callers : d # c => call'[d] = call[d]
          /\ call'[c].step = "act" /\ call[c].step = "model"
          /\ call'[c].run = call[c].run /\ call'[c].msg = call[c].msg /\ call'[c].window = call[c].window
      BY <1>0, <2>5 DEF goto, Call
    <3>2. Rereads(c)
      BY <1>a, <3>1 DEF Rereads
    <3> QED BY <3>2, WindowKept
  <2> QED BY <1>a, <2>1, <2>2, <2>3, <2>4, <2>5
<1>s. {"append", "request", "context", "idle"} \cup RunCommand \subseteq Step \ Reading
  BY DEF Step, Reading, RunCommand
<1>q. status' = status => \A r \in Runs : status[r] = Absent => status'[r] = Absent
  OBVIOUS
<1>m. \A m \in 0..Len(messages) : m \in Nat
  BY DEF TypeOK
<1>1. CASE UNCHANGED vars
  BY <1>1 DEF vars, WindowInv, RunHasSlice
<1>2. ASSUME NEW u \in Users, NEW m \in 0..Len(messages), AppendMessage(u, m)
      PROVE  WindowInv'
  <2>1. /\ u \in Callers /\ 0 \in Nat /\ m \in Nat /\ begin(u, "append", 0, m)
        /\ slice' = slice /\ status' = status
    BY <1>2, <1>m DEF AppendMessage, projection, Callers
  <2> QED BY <1>a, <1>q, <1>s, <2>1
<1>3. ASSUME NEW u \in Users, NEW m \in 0..Len(messages), RequestAgentRun(u, m)
      PROVE  WindowInv'
  <2>1. /\ u \in Callers /\ m \in Nat /\ requested + 1 \in Nat
        /\ begin(u, "request", requested + 1, m)
        /\ slice' = slice /\ status' = status
    BY <1>3, <1>m, RunsAssumption DEF RequestAgentRun, projection, Callers, TypeOK
  <2> QED BY <1>a, <1>q, <1>s, <2>1
<1>4. ASSUME NEW u \in Users, NEW r \in Runs, NEW cmd \in {"cancel", "timeout"}, EndRun(u, r, cmd)
      PROVE  WindowInv'
  <2>1. /\ u \in Callers /\ cmd \in RunCommand /\ r \in Nat /\ 0 \in Nat
        /\ begin(u, cmd, r, 0)
        /\ slice' = slice /\ status' = status
    BY <1>4 DEF EndRun, projection, Callers, RunCommand, Runs
  <2> QED BY <1>a, <1>q, <1>s, <2>1
<1>5. ASSUME NEW p \in Processors, NEW r \in Runs, NEW m \in 0..Len(messages), Process(p, r, m)
      PROVE  WindowInv'
  <2>1. /\ p \in Callers /\ "start" \in RunCommand /\ r \in Nat /\ m \in Nat
        /\ begin(p, "start", r, m)
        /\ slice' = slice /\ status' = status
    BY <1>5, <1>m DEF Process, projection, Callers, RunCommand, Runs
  <2> QED BY <1>a, <1>q, <1>s, <2>1
<1>6. ASSUME NEW c \in Callers, Validate(c) PROVE WindowInv'
  <2>1. /\ call' = [call EXCEPT ![c].valid = TRUE] \/ return(c)
        /\ slice' = slice /\ status' = status
    BY <1>6 DEF Validate, projection
  <2> QED BY <1>a, <1>q, <2>1
\* A request's window is not empty: its message exists.
<1>7. ASSUME NEW c \in Callers, ValidateRequest(c) PROVE WindowInv'
  <2>1. CASE exists(call[c].msg)
    <3>1. /\ call' = [call EXCEPT ![c].step = "slice", ![c].window = recent_window]
          /\ slice' = slice /\ status' = status
      BY <1>7, <2>1 DEF ValidateRequest, projection
    <3>2. recent_window # <<>>
      BY <2>1, RecentWindow
    <3>3. /\ \A d \in Callers : d # c => call'[d] = call[d]
          /\ call'[c].step = "slice" /\ call'[c].window = recent_window
      BY <1>0, <3>1 DEF Call
    <3> QED BY <3>1, <3>2, <3>3 DEF WindowInv, RunHasSlice
  <2>2. CASE ~exists(call[c].msg)
    BY <1>7, <1>a, <1>q, <2>2 DEF ValidateRequest, projection
  <2> QED BY <2>1, <2>2
<1>8. ASSUME NEW c \in Callers, MessageAppended(c) PROVE WindowInv'
  <2>1. /\ \A d \in Callers : d # c => call'[d] = call[d]
        /\ call'[c].step \in {"idle", "complete"}
        /\ slice' = slice /\ status' = status
    BY <1>0, <1>8 DEF MessageAppended, after_append, Idle, Call
  <2> QED BY <2>1, WindowKept DEF Rereads, Reading
\* The window becomes the slice of the request's run.
<1>9. ASSUME NEW c \in Callers, ContextSliceBuilt(c) PROVE WindowInv'
  <2> DEFINE q == call[c].run
  <2>1. /\ call[c].step = "slice" /\ q \in Runs
        /\ slice' = [slice EXCEPT ![q] = call[c].window]
        /\ status' = status
    BY <1>9, <1>r DEF ContextSliceBuilt
  <2>2. /\ \A d \in Callers : d # c => call'[d] = call[d]
        /\ call'[c].step = "requested" /\ call'[c].run = q
    BY <1>0, <1>9 DEF ContextSliceBuilt, goto, Call
  <2>3. call[c].window # <<>>
    BY <2>1 DEF WindowInv
  <2> HIDE DEF q
  <2>4. /\ \A r \in Runs : slice[r] # <<>> => slice'[r] # <<>>
        /\ slice'[q] # <<>>
    BY <1>0, <2>1, <2>3
  <2>5. \A d \in Callers : call[d].step = "requested" => call[d].run \in Runs
    BY <1>r
  <2> QED BY <2>1, <2>2, <2>4, <2>5 DEF WindowInv, RunHasSlice
\* The run enters the projection after its slice.
<1>10. ASSUME NEW c \in Callers, AgentRunRequested(c) PROVE WindowInv'
  <2> DEFINE q == call[c].run
  <2>1. /\ q \in Runs /\ slice[q] # <<>> /\ slice' = slice
        /\ status' = [status EXCEPT ![q] = "Requested"]
    BY <1>10, <1>r DEF AgentRunRequested, WindowInv
  <2>2. /\ \A d \in Callers : d # c => call'[d] = call[d]
        /\ call'[c].step = "idle"
    BY <1>0, <1>10 DEF AgentRunRequested, return, Idle
  <2> HIDE DEF q
  <2>3. \A r \in Runs : status'[r] # Absent => slice'[r] # <<>>
    BY <1>0, <2>1 DEF WindowInv, RunHasSlice
  <2> QED BY <2>1, <2>2, <2>3 DEF WindowInv, RunHasSlice
<1>11. ASSUME NEW c \in Callers, RunEvent(c) PROVE WindowInv'
  <2>1. /\ call[c].step \in RunCommand /\ call[c].valid
        /\ status' = [status EXCEPT ![call[c].run] = EventStatus[call[c].step]]
        /\ slice' = slice
        /\ return(c) \/ goto(c, "context")
    BY <1>11 DEF RunEvent, after
  <2>2. call[c].run \in Runs /\ status[call[c].run] # Absent
    BY <2>1, <1>r DEF ValidInv, RunCommand
  <2>3. \A r \in Runs : status[r] = Absent => status'[r] = Absent
    BY <1>0, <2>1, <2>2
  <2> QED BY <1>a, <1>s, <2>1, <2>3
\* The prompt ends with the trigger.
<1>12. ASSUME NEW c \in Callers, BuildContext(c) PROVE WindowInv'
  <2>1. CASE exists(call[c].msg)
    <3>1. /\ call' = [call EXCEPT ![c].step = "model", ![c].window = context_of(call[c].msg)]
          /\ slice' = slice /\ status' = status
      BY <1>12, <2>1 DEF BuildContext, projection
    <3>2. ContextOK(context_of(call[c].msg), call[c].msg)
      BY <2>1, ContextOf
    <3>3. /\ \A d \in Callers : d # c => call'[d] = call[d]
          /\ call'[c].step = "model" /\ call'[c].window = context_of(call[c].msg)
          /\ call'[c].msg = call[c].msg
      BY <1>0, <3>1 DEF Call
    <3>4. ContextOK(call'[c].window, call'[c].msg)
      BY <3>2, <3>3
    <3>5. RunHasSlice'
      BY <3>1 DEF WindowInv, RunHasSlice
    <3>6. ASSUME NEW d \in Callers
          PROVE  /\ call'[d].step = "slice" => call'[d].window # <<>>
                 /\ call'[d].step = "requested" => slice'[call'[d].run] # <<>>
                 /\ call'[d].step \in {"model", "act"} => ContextOK(call'[d].window, call'[d].msg)
      <4>1. CASE d = c
        BY <3>3, <3>4, <4>1
      <4>2. CASE d # c
        BY <3>1, <3>3, <4>2 DEF WindowInv
      <4> QED BY <4>1, <4>2
    <3>7. WindowInv' <=> /\ \A d \in Callers :
                              /\ call'[d].step = "slice" => call'[d].window # <<>>
                              /\ call'[d].step = "requested" => slice'[call'[d].run] # <<>>
                              /\ call'[d].step \in {"model", "act"} =>
                                   ContextOK(call'[d].window, call'[d].msg)
                         /\ RunHasSlice'
      BY DEF WindowInv, ContextOK
    <3> QED BY <3>5, <3>6, <3>7
  <2>2. CASE ~exists(call[c].msg)
    <3>1. goto(c, "fail") /\ slice' = slice /\ status' = status /\ "fail" \in RunCommand
      BY <1>12, <2>2 DEF BuildContext, projection, RunCommand
    <3> QED BY <1>a, <1>q, <1>s, <3>1
  <2> QED BY <2>1, <2>2
<1>13. ASSUME NEW c \in Callers, CallModel(c) \/ ProcessAction(c) PROVE WindowInv'
  <2>1. /\ \/ goto(c, "append") \/ goto(c, "fail") \/ return(c)
           \/ call[c].step = "model" /\ goto(c, "act")
        /\ slice' = slice /\ status' = status /\ "fail" \in RunCommand
    BY <1>13 DEF CallModel, ProcessAction, leave, projection, RunCommand
  <2> QED BY <1>a, <1>q, <1>s, <2>1
<1>14. ASSUME NEW c \in Callers, Drop(c) PROVE WindowInv'
  BY <1>14, <1>a, <1>q DEF Drop, leave, projection
<1> QED BY <1>1, <1>2, <1>3, <1>4, <1>5, <1>6, <1>7, <1>8, <1>9, <1>10, <1>11, <1>12, <1>13, <1>14
        DEF Next, CallStep, ProcessorStep, Callers

-----------------------------------------------------------------------------
\* IInv is an inductive invariant: the three obligations together.
THEOREM Invariant == Spec => []IInv
<1>1. Init => IInv
  BY InitInv
<1>2. IInv /\ [Next]_vars => IInv'
  BY TypeNext, RunNext, FreshNext, ValidNext, WorkNext, OutNext, CompletedNext DEF IInv
<1> QED BY <1>1, <1>2, PTL DEF Spec

\* The state of the conversation, of its runs and of the calls in progress is
\* well formed, for any number of callers and runs.
THEOREM TypeCorrect == Spec => []TypeOK
<1>1. IInv => TypeOK
  BY DEF IInv
<1> QED BY <1>1, Invariant, PTL

\* A Completed run shows the reply the index gives for it, an agent's message
\* that answers an earlier one a processor of this run was given, and the run's
\* trigger if no caller passed another message, whoever races whom.
THEOREM CompletedOutput == Spec => []CompletedSound
<1>1. IInv => CompletedSound
  BY DEF IInv
<1> QED BY <1>1, Invariant, PTL

\* WindowInv is inductive beside IInv.
THEOREM Windows == Spec => []WindowInv
<1>1. Init => WindowInv
  BY DEF Init, Idle, WindowInv, RunHasSlice
<1>2. IInv /\ WindowInv /\ [Next]_vars => WindowInv'
  BY WindowNext DEF IInv
<1> QED BY <1>1, <1>2, Invariant, PTL DEF Spec

\* request_agent_run writes the slice before the request, so that a run that
\* shows in the projection has one, wherever calls break off.
THEOREM RunsHaveSlices == Spec => []RunHasSlice
<1>1. WindowInv => RunHasSlice
  BY DEF WindowInv
<1> QED BY <1>1, Windows, PTL

\* What the model is called with is the message the processor was given and the
\* messages just before it, for every window and whatever arrives meanwhile.
THEOREM ContextsEndAtTrigger == Spec => []ContextSound
<1>1. WindowInv => ContextSound
  BY DEF WindowInv, ContextSound, ContextOK, Callers
<1> QED BY <1>1, Windows, PTL

\* With a single caller nothing comes between validation and event.
LEMMA AloneNext ==
  ASSUME \A c, d \in Callers : c = d
  PROVE  IInv /\ AloneInv /\ [Next]_vars => AloneInv'
<1> SUFFICES ASSUME IInv, AloneInv, [Next]_vars PROVE AloneInv'
  OBVIOUS
<1>0. TypeOK /\ RunInv
  BY DEF IInv
<1>1. ASSUME UNCHANGED vars PROVE AloneInv'
  BY <1>1 DEF vars, AloneInv
<1>2. ASSUME NEW c \in Callers, Begins(c) \/ Takes(c) \/ Requests(c) PROVE call'[c].valid = FALSE
  BY <1>2 DEF Begins, Takes, Requests, Moves
<1>3. ASSUME NEW c \in Callers, Returns(c) \/ Replies(c) \/ Enters(c) \/ Records(c)
      PROVE  call'[c].valid = FALSE
  BY <1>3 DEF Returns, Replies, Enters, Records, Moves, keeps
<1>4. ASSUME NEW c \in Callers, Advances(c)
      PROVE  call'[c].step \in RunCommand => call'[c].valid = FALSE
  BY <1>4 DEF Advances, Moves, keeps, RunCommand
<1>5. ASSUME NEW c \in Callers, Validates(c)
      PROVE  call'[c].step \in RunCommand => status'[call'[c].run] \in {"Requested", "Started"}
  BY <1>5 DEF Validates, Moves, keeps, Quiet
<1> QED BY <1>0, <1>1, <1>2, <1>3, <1>4, <1>5, Kinds DEF AloneInv

\* validate_agent_run_transition does keep an ended run ended when only one
\* caller at a time uses the kernel, whatever calls break off.
THEOREM RunsStayEnded ==
  ASSUME \A c, d \in Callers : c = d
  PROVE  Spec => TerminalStable
<1> DEFINE Stable == \A r \in Runs : status[r] \in Terminal => status'[r] = status[r]
<1>1. IInv /\ AloneInv /\ [Next]_vars => Stable
  <2> SUFFICES ASSUME IInv, AloneInv, [Next]_vars PROVE Stable
    OBVIOUS
  <2>0. TypeOK /\ RunInv /\ CallFacts
    <3>1. TypeOK /\ RunInv
      BY DEF IInv
    <3> QED BY <3>1, FactsOf
  <2>1. ASSUME NEW c \in Callers,
               \/ Begins(c) \/ Takes(c) \/ Requests(c) \/ Returns(c) \/ Validates(c) \/ Advances(c)
               \/ Replies(c)
        PROVE  status' = status
    BY <2>1 DEF Begins, Takes, Requests, Returns, Validates, Advances, Replies, Quiet
  <2>2. ASSUME NEW c \in Callers, Enters(c) PROVE Stable
    <3>1. /\ status' = [status EXCEPT ![call[c].run] = "Requested"]
          /\ status[call[c].run] = Absent
      BY <2>2 DEF IInv, FreshInv, Requesting, Enters
    <3> QED BY <2>0, <3>1 DEF Terminal, Absent, CallFacts
  <2>3. ASSUME NEW c \in Callers, Records(c) PROVE Stable
    <3>1. /\ status[call[c].run] \in {"Requested", "Started"}
          /\ status' = [status EXCEPT ![call[c].run] = EventStatus[call[c].step]]
      BY <2>3 DEF Records, AloneInv
    <3> QED BY <2>0, <3>1 DEF Terminal, CallFacts
  <2> QED BY <2>0, <2>1, <2>2, <2>3, Kinds DEF vars
<1>2. Init => IInv /\ AloneInv
  BY InitInv
<1>3. IInv /\ [Next]_vars => IInv'
  BY TypeNext, RunNext, FreshNext, ValidNext, WorkNext, OutNext, CompletedNext DEF IInv
<1>4. IInv /\ AloneInv /\ [Next]_vars => AloneInv'
  BY AloneNext
<1>5. IInv /\ AloneInv /\ [Next]_vars => [Stable]_vars
  BY <1>1
<1> QED BY <1>2, <1>3, <1>4, <1>5, PTL DEF Spec, TerminalStable

-----------------------------------------------------------------------------
(* Assistants.                                                             *)

\* A set of numbers that is not empty has a least one.
LEMMA LeastNatural ==
  ASSUME NEW T \in SUBSET Nat, T # {}
  PROVE  \E x \in T : \A y \in T : ~(y < x)
<1> DEFINE R == OpToRel(<, Nat)
<1>1. IsWellFoundedOn(R, Nat)
  BY NatLessThanWellFounded
<1>2. \A y, x \in Nat : y < x => <<y, x>> \in R
  BY DEF OpToRel
<1> HIDE DEF R
<1>3. \E x \in T : \A y \in T : ~(<<y, x>> \in R)
  BY <1>1, WFMin
<1> QED BY <1>2, <1>3

\* A request names finitely many participants and entities; the assistant and the humans are
\* none of the other programs.
RequestAssumption ==
  /\ IsFiniteSet(Humans) /\ IsFiniteSet(Entities)
  /\ Humans \cap Foreground = {} /\ Assistant \notin Foreground

\* The elements of a sequence.
In(q) == Assist!ToSet(q)

\* The elements of a set in some order.
LEMMA InSomeOrder ==
  ASSUME NEW S, IsFiniteSet(S)
  PROVE  Assist!SetToSeq(S) \in Seq(S) /\ In(Assist!SetToSeq(S)) = S
<1> DEFINE n == Cardinality(S)
           q == Assist!SetToSeq(S)
<1>1. n \in Nat /\ \E f : f \in Bijection(1 .. n, S)
  BY FS_CardinalityType DEF ExistsBijection
<1>2. Assist!Cardinality(S) = n
  BY DEF Cardinality, Assist!Cardinality
<1>3. \E f \in [1 .. n -> S] : Assist!IsInjective(f)
  BY <1>1 DEF Bijection, Injection, IsInjective, Assist!IsInjective
<1>4. q \in [1 .. n -> S] /\ Assist!IsInjective(q)
  BY <1>2, <1>3 DEF Assist!SetToSeq
<1> HIDE DEF q
<1>5. q \in Injection(1 .. n, S)
  BY <1>4 DEF Injection, IsInjective, Assist!IsInjective
<1>6. Cardinality(1 .. n) = n
  BY <1>1, FS_Interval
<1> HIDE DEF n
<1>7. q \in Surjection(1 .. n, S)
  BY <1>5, <1>6, FS_Injection DEF n
<1>8. \A x \in S : \E i \in 1 .. n : q[i] = x
  BY <1>7 DEF Surjection
<1>9. q \in Seq(S) /\ DOMAIN q = 1 .. n
  BY <1>1, <1>4
<1>10. In(q) = {q[i] : i \in 1 .. n}
  BY <1>9 DEF In, Assist!ToSet
<1>11. \A i \in 1 .. n : q[i] \in S
  BY <1>4
<1>12. In(q) = S
  BY <1>8, <1>10, <1>11
<1> QED BY <1>9, <1>12 DEF q

\* The first element and the others.
LEMMA FirstAndRest ==
  ASSUME NEW T, NEW q \in Seq(T), q # <<>>
  PROVE  Head(q) \in T /\ Tail(q) \in Seq(T) /\ In(q) = {Head(q)} \cup In(Tail(q))
<1> DEFINE n == Len(q)
           r == Tail(q)
<1>1. n \in Nat /\ n # 0 /\ DOMAIN q = 1 .. n /\ \A i \in 1 .. n : q[i] \in T
  OBVIOUS
<1>2. r \in Seq(T) /\ Len(r) = n - 1 /\ DOMAIN r = 1 .. (n - 1) /\ \A i \in 1 .. (n - 1) : r[i] = q[i + 1]
  OBVIOUS
<1>3. Head(q) = q[1] /\ 1 \in 1 .. n
  BY <1>1
<1> HIDE DEF n, r
<1>4. In(q) = {q[i] : i \in 1 .. n} /\ In(r) = {r[i] : i \in 1 .. (n - 1)}
  BY <1>1, <1>2 DEF In, Assist!ToSet
<1>5. \A i \in 1 .. (n - 1) : i + 1 \in 1 .. n
  BY <1>1
<1>6. \A i \in 1 .. n : i = 1 \/ (i - 1 \in 1 .. (n - 1) /\ r[i - 1] = q[i])
  <2> TAKE i \in 1 .. n
  <2>1. i # 1 => i - 1 \in 1 .. (n - 1) /\ (i - 1) + 1 = i
    BY <1>1
  <2> QED BY <1>2, <2>1
<1>7. In(q) \subseteq {q[1]} \cup In(r)
  BY <1>4, <1>6
<1>8. {q[1]} \cup In(r) \subseteq In(q)
  BY <1>2, <1>3, <1>4, <1>5
<1> QED BY <1>1, <1>2, <1>3, <1>7, <1>8 DEF r

\* Who may be in a conversation, and what the journal and a caller hold of one.
Party == Assist!Participants
Conversation == [by : Openers, members : SUBSET Party, added : SUBSET Party, linked : SUBSET Entities]
Opening == [at : {"idle", "create", "append", "done", "failed"}, id : Nat, adding : Seq(Party), linking : Seq(Entities),
            actor : Humans \cup {Owner, Assist!Nobody}, linked_by : Humans \cup {Owner, Assist!Nobody},
            wanted : [members : SUBSET Party, linked : SUBSET Entities]]

\* The conversations and the calls are of the types of the code.
OpeningTypes == conversations \in Seq(Conversation) /\ opening \in [Openers -> Opening]

\* A group of humans and the assistant.
Group(m) == Assistant \in m /\ m \cap Humans # {} /\ m \cap Foreground = {}

\* A conversation that a caller p is about.
Mine(p, c, o) ==
  /\ c.by = p /\ c.members = o.wanted.members
  /\ c.added \cup In(o.adding) = c.members
  /\ c.linked \cup In(o.linking) = o.wanted.linked
  /\ c.linked # {} => o.adding = <<>>

\* What a caller holds stands for what its conversation lacks.
OpenerInv(p) ==
  LET o == opening[p] IN
  /\ o.at = "create" => /\ Group(o.wanted.members)
                        /\ In(o.adding) = o.wanted.members /\ In(o.linking) = o.wanted.linked
  /\ o.at \in {"append", "done"} => o.id \in 1 .. Len(conversations) /\ Mine(p, conversations[o.id], o)
  /\ o.at = "done" => o.adding = <<>> /\ o.linking = <<>>

\* Every conversation is of a group, and has its participants before its links.
JournalInv ==
  \A i \in 1 .. Len(conversations) :
    /\ Group(conversations[i].members)
    /\ conversations[i].linked # {} => Assist!whole(conversations[i])

\* A skill that is registered was found without an error.
SkillInv ==
  skill.registered =>
    \E m \in Assist!Manifests : skill = [registered |-> TRUE, manifest |-> m] /\ Assist!errors(m, environment) = {}

\* The invariant of the assistants.
AssistInv == OpeningTypes /\ (\A p \in Openers : OpenerInv(p)) /\ JournalInv /\ SkillInv

\* Nothing is opened and no skill is registered at first.
LEMMA AssistStarts == Assist!Init => AssistInv
<1> SUFFICES ASSUME Assist!Init PROVE AssistInv
  OBVIOUS
<1>1. conversations = <<>> /\ opening = [p \in Openers |-> Assist!Idle] /\ skill.registered = FALSE
  BY DEF Assist!Init, Assist!Unregistered
<1>2. Assist!Idle \in Opening /\ Assist!Idle.at = "idle"
  BY DEF Assist!Idle, Opening
<1>3. OpeningTypes /\ \A p \in Openers : opening[p].at = "idle"
  <2>1. opening \in [Openers -> Opening] /\ \A p \in Openers : opening[p].at = "idle"
    BY <1>1, <1>2
  <2> QED BY <1>1, <2>1 DEF OpeningTypes
<1>4. Len(conversations) = 0
  BY <1>1
<1> QED BY <1>1, <1>3, <1>4 DEF AssistInv, OpenerInv, JournalInv, SkillInv

\* A call begins with what it wants still to be done.
LEMMA BeginStep ==
  ASSUME RequestAssumption, AssistInv, NEW p \in Openers, NEW members \in SUBSET Party, NEW entities \in SUBSET Entities,
         NEW actor \in Humans \cup {Owner, Assist!Nobody}, Group(members), IsFiniteSet(members),
         Assist!begin(p, members, entities, actor), UNCHANGED conversations
  PROVE  OpeningTypes' /\ (\A q \in Openers : OpenerInv(q)') /\ JournalInv'
<1> DEFINE adds == Assist!SetToSeq(members)
           links == Assist!SetToSeq(entities)
           by == IF actor = Assist!Nobody THEN Owner ELSE actor
           wants == [members |-> members, linked |-> entities]
           new == [at |-> "create", id |-> 0, adding |-> adds, linking |-> links, actor |-> actor,
                   linked_by |-> by, wanted |-> wants]
<1>0. OpeningTypes /\ JournalInv /\ \A q \in Openers : OpenerInv(q)
  BY DEF AssistInv
<1>1. opening' = [opening EXCEPT ![p] = new]
  BY DEF Assist!begin
<1>2. adds \in Seq(members) /\ In(adds) = members
  BY InSomeOrder
<1>3. links \in Seq(entities) /\ In(links) = entities
  <2>1. IsFiniteSet(entities)
    BY FS_Subset DEF RequestAssumption
  <2> QED BY <2>1, InSomeOrder
<1> HIDE DEF adds, links
<1>4. adds \in Seq(Party) /\ links \in Seq(Entities) /\ by \in Humans \cup {Owner, Assist!Nobody}
  BY <1>2, <1>3
<1>5. wants \in [members : SUBSET Party, linked : SUBSET Entities] /\ wants.members = members /\ wants.linked = entities
  OBVIOUS
<1> HIDE DEF by, wants
<1>6. new \in Opening /\ new.at = "create" /\ new.adding = adds /\ new.linking = links /\ new.wanted = wants
  BY <1>4, <1>5 DEF Opening
<1> HIDE DEF new
<1>7. opening' \in [Openers -> Opening] /\ opening'[p] = new /\ \A q \in Openers : q # p => opening'[q] = opening[q]
  BY <1>0, <1>1, <1>6 DEF OpeningTypes
<1>8. ASSUME NEW q \in Openers PROVE OpenerInv(q)'
  <2>1. CASE q = p
    BY <1>2, <1>3, <1>5, <1>6, <1>7, <2>1 DEF OpenerInv, In, Assist!ToSet, Group
  <2>2. CASE q # p
    BY <1>0, <1>7, <2>2 DEF OpenerInv, Mine, In, Assist!ToSet, Group
  <2> QED BY <2>1, <2>2
<1> QED BY <1>0, <1>7, <1>8 DEF OpeningTypes, JournalInv, Group, Assist!whole

\* The appends of a call: what a step makes of its own conversation and call.
LEMMA OwnStep ==
  ASSUME AssistInv, NEW p \in Openers, opening[p].at = "append", NEW c \in Conversation, NEW o \in Opening,
         conversations' = [conversations EXCEPT ![opening[p].id] = c], opening' = [opening EXCEPT ![p] = o],
         o.at \in {"append", "done", "failed"}, o.id = opening[p].id,
         o.at \in {"append", "done"} => Mine(p, c, o), c.by = p,
         o.at = "done" => o.adding = <<>> /\ o.linking = <<>>,
         Group(c.members), c.linked # {} => Assist!whole(c)
  PROVE  OpeningTypes' /\ (\A q \in Openers : OpenerInv(q)') /\ JournalInv'
<1> DEFINE k == opening[p].id
           n == Len(conversations)
<1>0. OpeningTypes /\ JournalInv /\ (\A q \in Openers : OpenerInv(q)) /\ conversations \in Seq(Conversation)
  BY DEF AssistInv, OpeningTypes
<1>1. k \in 1 .. n /\ conversations[k].by = p
  BY <1>0 DEF OpenerInv, Mine
<1>2. /\ conversations' \in Seq(Conversation) /\ Len(conversations') = n /\ conversations'[k] = c
      /\ \A i \in 1 .. n : i # k => conversations'[i] = conversations[i]
  BY <1>0, <1>1
<1>3. opening' \in [Openers -> Opening] /\ opening'[p] = o /\ \A q \in Openers : q # p => opening'[q] = opening[q]
  BY <1>0 DEF OpeningTypes
<1> HIDE DEF k, n
<1>4. ASSUME NEW q \in Openers PROVE OpenerInv(q)'
  <2>1. CASE q = p
    <3>1. o.at # "create"
      OBVIOUS
    <3>2. o.at \in {"append", "done"} => o.id \in 1 .. Len(conversations') /\ Mine(p, conversations'[o.id], o)
      BY <1>1, <1>2 DEF k
    <3>3. OpenerInv(q)' <=> /\ o.at = "create" => /\ Group(o.wanted.members)
                                                  /\ In(o.adding) = o.wanted.members /\ In(o.linking) = o.wanted.linked
                            /\ o.at \in {"append", "done"} => o.id \in 1 .. Len(conversations') /\ Mine(p, conversations'[o.id], o)
                            /\ o.at = "done" => o.adding = <<>> /\ o.linking = <<>>
      BY <1>3, <2>1 DEF OpenerInv, Mine, In, Assist!ToSet, Group
    <3> QED BY <3>1, <3>2, <3>3
  <2>2. CASE q # p
    <3>1. opening'[q] = opening[q] /\ OpenerInv(q)
      BY <1>0, <1>3, <2>2
    <3>2. opening[q].at \in {"append", "done"} =>
            /\ opening[q].id \in 1 .. n /\ conversations[opening[q].id].by = q
      BY <3>1 DEF OpenerInv, Mine, n
    <3>3. opening[q].at \in {"append", "done"} => conversations'[opening[q].id] = conversations[opening[q].id]
      BY <1>1, <1>2, <2>2, <3>2
    <3> QED BY <1>2, <3>1, <3>2, <3>3 DEF OpenerInv, Mine, In, Assist!ToSet, Group, n
  <2> QED BY <2>1, <2>2
<1>5. JournalInv'
  <2>1. \A i \in 1 .. n : /\ Group(conversations'[i].members)
                          /\ conversations'[i].linked # {} => Assist!whole(conversations'[i])
    <3> TAKE i \in 1 .. n
    <3>1. CASE i = k
      BY <1>2, <3>1
    <3>2. CASE i # k
      BY <1>0, <1>2, <3>2 DEF JournalInv, n
    <3> QED BY <3>1, <3>2
  <2> QED BY <1>2, <2>1 DEF JournalInv, Group, Assist!whole
<1> QED BY <1>2, <1>3, <1>4, <1>5 DEF OpeningTypes

\* A step of a call leaves the conversations as they are when it ends or fails.
LEMMA EndStep ==
  ASSUME AssistInv, NEW p \in Openers, NEW at \in {"done", "failed"}, UNCHANGED conversations,
         opening' = [opening EXCEPT ![p].at = at],
         at = "done" => opening[p].at = "append" /\ opening[p].adding = <<>> /\ opening[p].linking = <<>>
  PROVE  OpeningTypes' /\ (\A q \in Openers : OpenerInv(q)') /\ JournalInv'
<1>0. OpeningTypes /\ JournalInv /\ (\A q \in Openers : OpenerInv(q)) /\ opening[p] \in Opening
  BY DEF AssistInv, OpeningTypes
<1>1. /\ opening' \in [Openers -> Opening] /\ \A q \in Openers : q # p => opening'[q] = opening[q]
      /\ opening'[p].at = at /\ opening'[p].id = opening[p].id /\ opening'[p].adding = opening[p].adding
      /\ opening'[p].linking = opening[p].linking /\ opening'[p].wanted = opening[p].wanted
  <2> DEFINE new == [opening[p] EXCEPT !.at = at]
  <2>1. /\ new \in Opening /\ new.at = at /\ new.id = opening[p].id /\ new.adding = opening[p].adding
        /\ new.linking = opening[p].linking /\ new.wanted = opening[p].wanted
    BY <1>0 DEF Opening
  <2>2. opening' = [opening EXCEPT ![p] = new] /\ opening \in [Openers -> Opening]
    BY <1>0 DEF OpeningTypes
  <2> HIDE DEF new
  <2> QED BY <2>1, <2>2
<1>2. ASSUME NEW q \in Openers PROVE OpenerInv(q)'
  <2>1. CASE q = p
    <3>1. CASE at = "failed"
      BY <1>1, <2>1, <3>1 DEF OpenerInv
    <3>2. CASE at = "done"
      <4>1. opening[p].at = "append" /\ opening[p].adding = <<>> /\ opening[p].linking = <<>> /\ OpenerInv(p)
        BY <1>0, <3>2
      <4> QED BY <1>1, <2>1, <3>2, <4>1 DEF OpenerInv, Mine, In, Assist!ToSet, Group
    <3> QED BY <3>1, <3>2
  <2>2. CASE q # p
    BY <1>0, <1>1, <2>2 DEF OpenerInv, Mine, In, Assist!ToSet, Group
  <2> QED BY <2>1, <2>2
<1> QED BY <1>0, <1>1, <1>2 DEF OpeningTypes, JournalInv, Group, Assist!whole

\* A conversation that is created has its whole group, of whom nobody was added yet.
LEMMA AppendedStep ==
  ASSUME AssistInv, NEW p \in Openers, Assist!append_created(p)
  PROVE  OpeningTypes' /\ (\A q \in Openers : OpenerInv(q)') /\ JournalInv'
<1> DEFINE n == Len(conversations)
           mid == [opening[p] EXCEPT !.at = "append"]
           o == [mid EXCEPT !.id = n + 1]
           c == [by |-> p, members |-> opening[p].wanted.members, added |-> {}, linked |-> {}]
<1>0. /\ OpeningTypes /\ JournalInv /\ (\A q \in Openers : OpenerInv(q)) /\ opening[p] \in Opening
      /\ conversations \in Seq(Conversation) /\ opening \in [Openers -> Opening] /\ n \in Nat
  BY DEF AssistInv, OpeningTypes
<1>1. opening[p].at = "create" /\ conversations' = Append(conversations, c) /\ opening' = [opening EXCEPT ![p] = o]
  <2>1. opening' = [opening EXCEPT ![p].at = "append", ![p].id = n + 1]
    BY DEF Assist!append_created
  <2>2. opening' = [opening EXCEPT ![p] = o]
    BY <1>0, <2>1
  <2> QED BY <2>2 DEF Assist!append_created
<1>2. /\ mid \in Opening /\ mid.at = "append" /\ mid.adding = opening[p].adding /\ mid.linking = opening[p].linking
      /\ mid.wanted = opening[p].wanted
  BY <1>0 DEF Opening
<1> HIDE DEF mid
<1>3. /\ o \in Opening /\ o.at = "append" /\ o.id = n + 1 /\ o.adding = mid.adding /\ o.linking = mid.linking
      /\ o.wanted = mid.wanted
  <2>1. n + 1 \in Nat
    BY <1>0
  <2> HIDE DEF n
  <2> QED BY <1>2, <2>1 DEF Opening
<1> HIDE DEF o
<1>4. /\ Group(opening[p].wanted.members)
      /\ In(opening[p].adding) = opening[p].wanted.members /\ In(opening[p].linking) = opening[p].wanted.linked
  BY <1>0, <1>1 DEF OpenerInv
<1>5. c \in Conversation /\ c.by = p /\ c.members = opening[p].wanted.members /\ c.added = {} /\ c.linked = {}
  BY <1>0 DEF Conversation, Opening
<1> HIDE DEF c
<1>6. /\ conversations' \in Seq(Conversation) /\ Len(conversations') = n + 1 /\ conversations'[n + 1] = c
      /\ \A i \in 1 .. n : conversations'[i] = conversations[i]
  BY <1>0, <1>1, <1>5
<1>7. opening' \in [Openers -> Opening] /\ opening'[p] = o /\ \A q \in Openers : q # p => opening'[q] = opening[q]
  BY <1>0, <1>1, <1>3
<1> HIDE DEF n
<1>8. ASSUME NEW q \in Openers PROVE OpenerInv(q)'
  <2>1. CASE q = p
    <3>1. Mine(p, c, o)
      BY <1>2, <1>3, <1>4, <1>5 DEF Mine
    <3>2. o.id \in 1 .. Len(conversations') /\ Mine(p, conversations'[o.id], o)
      BY <1>0, <1>3, <1>6, <3>1
    <3> QED BY <1>3, <1>7, <2>1, <3>2 DEF OpenerInv, Mine, In, Assist!ToSet, Group
  <2>2. CASE q # p
    <3>1. opening'[q] = opening[q] /\ OpenerInv(q)
      BY <1>0, <1>7, <2>2
    <3>2. opening[q].at \in {"append", "done"} => opening[q].id \in 1 .. n
      BY <3>1 DEF OpenerInv, n
    <3>3. \A i \in 1 .. n : i \in 1 .. Len(conversations')
      BY <1>0, <1>6
    <3> QED BY <1>6, <3>1, <3>2, <3>3 DEF OpenerInv, Mine, In, Assist!ToSet, Group
  <2> QED BY <2>1, <2>2
<1>9. JournalInv'
  <2>1. \A i \in 1 .. (n + 1) : /\ Group(conversations'[i].members)
                                /\ conversations'[i].linked # {} => Assist!whole(conversations'[i])
    <3> TAKE i \in 1 .. (n + 1)
    <3>1. CASE i = n + 1
      BY <1>4, <1>5, <1>6, <3>1
    <3>2. CASE i # n + 1
      <4>1. i \in 1 .. n
        BY <1>0, <3>2
      <4> QED BY <1>0, <1>6, <4>1 DEF JournalInv, n
    <3> QED BY <3>1, <3>2
  <2> QED BY <1>6, <2>1 DEF JournalInv, Group, Assist!whole
<1> QED BY <1>6, <1>7, <1>8, <1>9 DEF OpeningTypes

\* A participant is added to the caller's own conversation, before any of its links.
LEMMA AddedStep ==
  ASSUME AssistInv, NEW p \in Openers, Assist!append_participant(p)
  PROVE  OpeningTypes' /\ (\A q \in Openers : OpenerInv(q)') /\ JournalInv'
<1> DEFINE k == opening[p].id
           was == conversations[k]
           now == [was EXCEPT !.added = @ \cup {Head(opening[p].adding)}]
           o == [opening[p] EXCEPT !.adding = Tail(@)]
<1>0. /\ opening[p] \in Opening /\ conversations \in Seq(Conversation) /\ opening \in [Openers -> Opening]
      /\ JournalInv /\ OpenerInv(p)
  BY DEF AssistInv, OpeningTypes
<1>1. /\ opening[p].at = "append" /\ opening[p].adding # <<>>
      /\ conversations' = [conversations EXCEPT ![k] = now] /\ opening' = [opening EXCEPT ![p] = o]
  BY <1>0 DEF Assist!append_participant
<1>2. k \in 1 .. Len(conversations) /\ Mine(p, was, opening[p]) /\ was \in Conversation
  <2>1. k \in 1 .. Len(conversations) /\ Mine(p, was, opening[p])
    BY <1>0, <1>1 DEF OpenerInv
  <2> QED BY <1>0, <2>1
<1>3. opening[p].adding \in Seq(Party)
  BY <1>0 DEF Opening
<1>4. /\ Head(opening[p].adding) \in Party /\ Tail(opening[p].adding) \in Seq(Party)
      /\ In(opening[p].adding) = {Head(opening[p].adding)} \cup In(Tail(opening[p].adding))
  BY <1>1, <1>3, FirstAndRest
<1>5. /\ now \in Conversation /\ now.by = was.by /\ now.members = was.members /\ now.linked = was.linked
      /\ now.added = was.added \cup {Head(opening[p].adding)}
  BY <1>2, <1>4 DEF Conversation
<1>6. /\ o \in Opening /\ o.at = "append" /\ o.id = k /\ o.adding = Tail(opening[p].adding)
      /\ o.linking = opening[p].linking /\ o.wanted = opening[p].wanted
  BY <1>0, <1>1, <1>4 DEF Opening
<1>7. was.by = p /\ was.linked = {} /\ Group(was.members)
  BY <1>0, <1>1, <1>2 DEF Mine, JournalInv
<1> HIDE DEF k, was, now, o
<1>8. Mine(p, now, o)
  BY <1>2, <1>4, <1>5, <1>6, <1>7 DEF Mine
<1> QED BY <1>1, <1>5, <1>6, <1>7, <1>8, OwnStep DEF k

\* An entity is linked once everybody is in, or the call ends.
LEMMA LinkedStep ==
  ASSUME AssistInv, NEW p \in Openers, Assist!link_entity(p)
  PROVE  OpeningTypes' /\ (\A q \in Openers : OpenerInv(q)') /\ JournalInv'
<1> DEFINE k == opening[p].id
           was == conversations[k]
           now == [was EXCEPT !.linked = @ \cup {Head(opening[p].linking)}]
           o == [opening[p] EXCEPT !.linking = Tail(@)]
<1>0. /\ opening[p] \in Opening /\ conversations \in Seq(Conversation) /\ opening \in [Openers -> Opening]
      /\ JournalInv /\ OpenerInv(p)
  BY DEF AssistInv, OpeningTypes
<1>1. opening[p].at = "append" /\ opening[p].adding = <<>> /\ opening[p].linking # <<>>
  BY DEF Assist!link_entity
<1>2. \/ conversations' = [conversations EXCEPT ![k] = now] /\ opening' = [opening EXCEPT ![p] = o]
      \/ opening' = [opening EXCEPT ![p].at = "failed"] /\ UNCHANGED conversations
  BY <1>0 DEF Assist!link_entity
<1>3. CASE opening' = [opening EXCEPT ![p].at = "failed"] /\ UNCHANGED conversations
  BY <1>3, EndStep
<1>4. CASE conversations' = [conversations EXCEPT ![k] = now] /\ opening' = [opening EXCEPT ![p] = o]
  <2>1. k \in 1 .. Len(conversations) /\ Mine(p, was, opening[p])
    BY <1>0, <1>1 DEF OpenerInv
  <2>2. was \in Conversation
    BY <1>0, <2>1
  <2>3. opening[p].linking \in Seq(Entities)
    BY <1>0 DEF Opening
  <2>4. /\ Head(opening[p].linking) \in Entities /\ Tail(opening[p].linking) \in Seq(Entities)
        /\ In(opening[p].linking) = {Head(opening[p].linking)} \cup In(Tail(opening[p].linking))
    BY <1>1, <2>3, FirstAndRest
  <2>5. /\ now \in Conversation /\ now.by = was.by /\ now.members = was.members /\ now.added = was.added
        /\ now.linked = was.linked \cup {Head(opening[p].linking)}
    BY <2>2, <2>4 DEF Conversation
  <2>6. /\ o \in Opening /\ o.at = "append" /\ o.id = k /\ o.adding = opening[p].adding
        /\ o.linking = Tail(opening[p].linking) /\ o.wanted = opening[p].wanted
    BY <1>0, <1>1, <2>4 DEF Opening
  <2>7. was.by = p /\ Group(was.members)
    BY <1>0, <2>1 DEF Mine, JournalInv
  <2>8. In(<<>>) = {}
    BY DEF In, Assist!ToSet
  <2> HIDE DEF k, was, now, o
  <2>9. Mine(p, now, o)
    BY <1>1, <2>1, <2>4, <2>5, <2>6 DEF Mine
  <2>10. now.added = now.members
    BY <1>1, <2>1, <2>5, <2>8 DEF Mine
  <2> QED BY <1>1, <1>4, <2>5, <2>6, <2>7, <2>9, <2>10, OwnStep DEF k, Assist!whole
<1> QED BY <1>2, <1>3, <1>4

\* The calls and the skills that are left alone.
LEMMA AssistSame == ASSUME AssistInv, UNCHANGED <<conversations, opening>>
                    PROVE  OpeningTypes' /\ (\A q \in Openers : OpenerInv(q)') /\ JournalInv'
BY DEF AssistInv, OpeningTypes, OpenerInv, JournalInv, Mine, In, Group, Assist!ToSet, Assist!whole

\* Every step of an assistant keeps the invariant of the calls.
LEMMA AssistNextStep ==
  ASSUME RequestAssumption, AssistInv, Assist!AssistantNext
  PROVE  OpeningTypes' /\ (\A q \in Openers : OpenerInv(q)') /\ JournalInv'
<1>1. PICK p \in Openers :
        \/ Assist!create_main_conversation(p) \/ Assist!create_group_conversation(p)
        \/ Assist!append_created(p) \/ Assist!append_participant(p) \/ Assist!link_entity(p)
        \/ Assist!returns(p) \/ Assist!append_fails(p)
  BY DEF Assist!AssistantNext
<1>2. CASE Assist!create_main_conversation(p)
  <2>1. PICK entities \in SUBSET Entities : Assist!begin(p, {Owner, Assistant}, entities, Owner)
    BY <1>2 DEF Assist!create_main_conversation
  <2>2. {Owner, Assistant} \in SUBSET Party /\ Group({Owner, Assistant}) /\ UNCHANGED conversations
    BY <1>2 DEF RequestAssumption, Party, Assist!Participants, Group, Assist!create_main_conversation
  <2>3. IsFiniteSet({Owner, Assistant})
    <3>1. IsFiniteSet({} \cup {Owner})
      BY FS_EmptySet, FS_AddElement
    <3>2. IsFiniteSet(({} \cup {Owner}) \cup {Assistant})
      BY <3>1, FS_AddElement
    <3>3. {Owner, Assistant} = ({} \cup {Owner}) \cup {Assistant}
      OBVIOUS
    <3> QED BY <3>2, <3>3
  <2> QED BY <2>1, <2>2, <2>3, BeginStep
<1>3. CASE Assist!create_group_conversation(p)
  <2>1. PICK group \in (SUBSET (Humans \cup Foreground)) \ {{}}, entities \in SUBSET Entities, actor \in Humans \cup {Assist!Nobody} :
          group \subseteq Humans /\ Assist!begin(p, group \cup {Assistant}, entities, actor)
    BY <1>3 DEF Assist!create_group_conversation
  <2>2. /\ group \cup {Assistant} \in SUBSET Party /\ UNCHANGED conversations
        /\ actor \in Humans \cup {Owner, Assist!Nobody}
    BY <1>3, <2>1 DEF Party, Assist!Participants, Assist!create_group_conversation
  <2>3. Group(group \cup {Assistant})
    <3>1. PICK human : human \in group /\ human \in Humans
      BY <2>1
    <3>2. (group \cup {Assistant}) \cap Foreground = {}
      BY <2>1 DEF RequestAssumption
    <3> QED BY <3>1, <3>2 DEF Group
  <2>4. IsFiniteSet(group \cup {Assistant})
    BY <2>1, FS_Subset, FS_AddElement DEF RequestAssumption
  <2> QED BY <2>1, <2>2, <2>3, <2>4, BeginStep
<1>4. CASE Assist!returns(p)
  BY <1>4, EndStep DEF Assist!returns
<1>5. CASE Assist!append_fails(p)
  BY <1>5, EndStep DEF Assist!append_fails
<1> QED BY <1>1, <1>2, <1>3, <1>4, <1>5, AppendedStep, AddedStep, LinkedStep

\* A skill is taken only when its manifest was found without an error.
LEMMA SkillStep == ASSUME SkillInv, Assist!register PROVE SkillInv'
<1>1. CASE skill.registered
  BY <1>1 DEF Assist!register, SkillInv
<1>2. CASE ~skill.registered
  <2>1. PICK m \in Assist!Manifests :
          skill' = IF Assist!errors(m, environment) # {} THEN skill ELSE [registered |-> TRUE, manifest |-> m]
    BY <1>2 DEF Assist!register
  <2>2. environment' = environment
    BY DEF Assist!register
  <2>3. CASE Assist!errors(m, environment) # {}
    BY <1>2, <2>1, <2>3 DEF SkillInv
  <2>4. CASE Assist!errors(m, environment) = {}
    BY <2>1, <2>2, <2>4 DEF SkillInv
  <2> QED BY <2>3, <2>4
<1> QED BY <1>1, <1>2

\* An action is given one mode by bindings of which none conflicts.
LEMMA OneMode ==
  ASSUME NEW n \in Nat, NEW b, DOMAIN b = 1 .. n, Assist!binding_conflicts(b) = {}
  PROVE  \A i, j \in 1 .. n : b[i].action = b[j].action => b[i].mode = b[j].mode
<1> DEFINE Bad == {i \in 1 .. n : \E j \in 1 .. (i - 1) : b[j].action = b[i].action /\ b[j].mode # b[i].mode}
<1>1. Bad = {}
  <2> SUFFICES ASSUME Bad # {} PROVE FALSE
    OBVIOUS
  <2>1. Bad \in SUBSET Nat
    OBVIOUS
  <2>2. PICK i \in Bad : \A y \in Bad : ~(y < i)
    BY <2>1, LeastNatural
  <2> DEFINE before == {j \in 1 .. (i - 1) : b[j].action = b[i].action}
             last == CHOOSE j \in before : \A k \in before : k <= j
  <2>3. PICK j0 \in 1 .. (i - 1) : b[j0].action = b[i].action /\ b[j0].mode # b[i].mode
    BY <2>2
  <2>4. i \in 1 .. n /\ j0 \in before
    BY <2>2, <2>3
  <2>5. \E j \in before : \A k \in before : k <= j
    <3> DEFINE gaps == {i - j : j \in before}
    <3>1. gaps \in SUBSET Nat /\ gaps # {}
      BY <2>4
    <3>2. PICK g \in gaps : \A y \in gaps : ~(y < g)
      BY <3>1, LeastNatural
    <3>3. PICK j \in before : g = i - j
      BY <3>2
    <3>4. \A k \in before : k <= j
      <4> TAKE k \in before
      <4>1. ~(i - k < i - j)
        BY <3>2, <3>3
      <4> QED BY <2>4, <4>1
    <3> QED BY <3>3, <3>4
  <2>6. last \in before /\ \A k \in before : k <= last
    BY <2>5
  <2>7. DOMAIN b = 1 .. n /\ b[last].mode = b[i].mode
    <3>1. DOMAIN b = 1 .. n
      OBVIOUS
    <3>2. i \notin Assist!binding_conflicts(b) /\ before # {}
      BY <2>4
    <3> QED BY <2>4, <3>1, <3>2 DEF Assist!binding_conflicts
  <2> HIDE DEF last
  <2>8. last \in 1 .. (i - 1) /\ b[last].action = b[i].action /\ j0 <= last
    BY <2>4, <2>6
  <2>9. j0 # last
    BY <2>3, <2>7
  <2>10. last \in 1 .. n /\ last < i /\ j0 \in 1 .. (last - 1)
    BY <2>3, <2>4, <2>8, <2>9
  <2>11. last \in Bad
    BY <2>3, <2>7, <2>8, <2>10
  <2> QED BY <2>2, <2>10, <2>11
<1>2. \A i \in 1 .. n : \A j \in 1 .. (i - 1) : b[j].action = b[i].action => b[j].mode = b[i].mode
  BY <1>1
<1> HIDE DEF Bad
<1> TAKE i, j \in 1 .. n
<1>3. i = j \/ j \in 1 .. (i - 1) \/ i \in 1 .. (j - 1)
  OBVIOUS
<1> QED BY <1>2, <1>3

\* What the invariant of the assistants says of them.
LEMMA AssistFollows == ASSUME AssistInv PROVE Assist!AssistantsSound
<1>0. OpeningTypes /\ JournalInv /\ SkillInv /\ \A p \in Openers : OpenerInv(p)
  BY DEF AssistInv
<1>1. Assist!ConversationsSound
  <2>1. DOMAIN conversations = 1 .. Len(conversations)
    BY <1>0 DEF OpeningTypes
  <2>2. In(<<>>) = {}
    BY DEF In, Assist!ToSet
  <2>3. ASSUME NEW p \in Openers, opening[p].at = "done"
        PROVE  /\ Assist!whole(conversations[opening[p].id])
               /\ conversations[opening[p].id].linked = opening[p].wanted.linked
    <3>1. Mine(p, conversations[opening[p].id], opening[p]) /\ opening[p].adding = <<>> /\ opening[p].linking = <<>>
      BY <1>0, <2>3 DEF OpenerInv
    <3> QED BY <2>2, <3>1 DEF Mine, Assist!whole
  <2>4. \A i \in DOMAIN conversations :
          /\ Group(conversations[i].members)
          /\ conversations[i].linked # {} => Assist!whole(conversations[i])
    BY <1>0, <2>1 DEF JournalInv
  <2> QED BY <2>3, <2>4 DEF Assist!ConversationsSound, Group
<1>2. Assist!SkillsSound
  <2> SUFFICES ASSUME skill.registered
               PROVE  LET m == skill.manifest IN
                      /\ \A i, j \in DOMAIN m.bindings : m.bindings[i].action = m.bindings[j].action => m.bindings[i].mode = m.bindings[j].mode
                      /\ {n \in Needs : m.needs[n] = "required"} \subseteq environment.granted
                      /\ environment.local_only => m.supports_local_only
    BY DEF Assist!SkillsSound
  <2>1. PICK m \in Assist!Manifests : skill = [registered |-> TRUE, manifest |-> m] /\ Assist!errors(m, environment) = {}
    BY <1>0 DEF SkillInv
  <2>2. skill.manifest = m
    BY <2>1
  <2>4. /\ Assist!when(Assist!binding_conflicts(m.bindings) # {}, "ActionBindingConflict") = {}
        /\ Assist!when(\E n \in Needs \ environment.granted : m.needs[n] = "required", "RequiredMissing") = {}
        /\ Assist!when(environment.local_only /\ ~m.supports_local_only, "LocalOnlyUnsupported") = {}
    BY <2>1 DEF Assist!errors
  <2>5. Assist!binding_conflicts(m.bindings) = {}
    BY <2>4 DEF Assist!when
  <2>6. \A n \in Needs \ environment.granted : m.needs[n] # "required"
    BY <2>4 DEF Assist!when
  <2>7. environment.local_only => m.supports_local_only
    BY <2>4 DEF Assist!when
  <2>8. PICK n \in 0 .. MaxBindings : m.bindings \in [1 .. n -> [action : Actions, mode : Assist!Modes]]
    BY <2>1 DEF Assist!Manifests
  <2>9. \A i, j \in DOMAIN m.bindings : m.bindings[i].action = m.bindings[j].action => m.bindings[i].mode = m.bindings[j].mode
    <3>1. n \in Nat /\ DOMAIN m.bindings = 1 .. n
      BY <2>8
    <3>2. \A i, j \in 1 .. n : m.bindings[i].action = m.bindings[j].action => m.bindings[i].mode = m.bindings[j].mode
      <4> DEFINE b == m.bindings
      <4>1. DOMAIN b = 1 .. n /\ Assist!binding_conflicts(b) = {}
        BY <2>5, <3>1
      <4> HIDE DEF b
      <4>2. \A i, j \in 1 .. n : b[i].action = b[j].action => b[i].mode = b[j].mode
        BY <3>1, <4>1, OneMode
      <4> QED BY <4>2 DEF b
    <3> QED BY <3>1, <3>2
  <2> QED BY <2>2, <2>6, <2>7, <2>9
<1> QED BY <1>1, <1>2 DEF Assist!AssistantsSound

\* AssistantsSound (the parts "openings" and "skills" of ConversationsHold): a creation that
\* returns leaves a conversation with every participant and link that was asked for; a failed
\* one mixes no programs with the assistant's humans, and links follow the last participant; a
\* registered skill gives no action two modes and needs nothing the host withholds.
THEOREM AssistantsAreSound == ASSUME RequestAssumption PROVE Assist!Spec => []Assist!AssistantsSound
<1>1. ASSUME AssistInv, [Assist!Next]_(Assist!avars) PROVE AssistInv'
  <2>1. CASE Assist!AssistantNext
    <3>1. SkillInv'
      BY <1>1, <2>1 DEF AssistInv, SkillInv, Assist!AssistantNext, Assist!skillVars
    <3> QED BY <1>1, <2>1, <3>1, AssistNextStep DEF AssistInv
  <2>2. CASE Assist!SkillNext
    <3>1. SkillInv'
      BY <1>1, <2>2, SkillStep DEF AssistInv, Assist!SkillNext
    <3> QED BY <1>1, <2>2, <3>1, AssistSame DEF AssistInv, Assist!SkillNext, Assist!conversationVars
  <2>3. CASE UNCHANGED Assist!avars
    <3>1. SkillInv'
      BY <1>1, <2>3 DEF AssistInv, SkillInv, Assist!avars
    <3> QED BY <1>1, <2>3, <3>1, AssistSame DEF AssistInv, Assist!avars
  <2> QED BY <1>1, <2>1, <2>2, <2>3 DEF Assist!Next
<1> QED BY <1>1, AssistStarts, AssistFollows, PTL DEF Assist!Spec
=============================================================================

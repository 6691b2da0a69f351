--------------------------- MODULE ClientSubstrate ---------------------------
(***************************************************************************)
(* The facade a client application drives.  A command goes through the     *)
(* host API to the conversation kernel and, when that succeeds, pushes one *)
(* event to the client: into the projections, into the queue that          *)
(* drain_events empties, and into the log that events_after pages through. *)
(* Each of the three is behind a lock of its own, so the pushes of two     *)
(* commands interleave.  The kernel's journal is one sequence of what it   *)
(* committed; an id is a position in it, and so is a time.                 *)
(***************************************************************************)
EXTENDS Naturals, Sequences, FiniteSets, SequencesExt

CONSTANTS Callers,        \* tasks of the host application
          Conversations,  \* conversations it opens
          Actions,        \* actions that wait for an approval
          MaxCommands     \* bound: commands begun

VARIABLES journal,     \* what the conversation kernel has committed
          calls,       \* per caller: the command it is in
          projections, \* ClientProjectionState: conversations, timelines, runs
          events,      \* the queue of drain_events
          log,         \* event_log
          client       \* what the application took: drained, and seen up to its cursor

uvars == <<journal, calls, projections, events, log, client>>

\* RuntimeStatusChanged is pushed by ClientSubstrate::new; no projection keeps it.
Ready == [kind |-> "RuntimeStatusChanged", conv |-> "none", id |-> 0, at |-> 0]
Idle == [op |-> "idle", at |-> "idle", conv |-> "none", id |-> 0, event |-> Ready]

Init ==
  /\ journal = <<>>
  /\ calls = [c \in Callers |-> Idle]
  /\ projections = [conversations |-> [v \in Conversations |-> 0],
                    timelines |-> [v \in Conversations |-> <<>>], runs |-> {}]
  /\ events = <<Ready>>
  /\ log = <<[id |-> 1, event |-> Ready]>>
  /\ client = [drained |-> <<>>, seen |-> <<>>]

-----------------------------------------------------------------------------
(* The kernel's side.                                                      *)
created(v) == \E i \in DOMAIN journal : journal[i].kind = "created" /\ journal[i].conv = v
status(a) ==
  LET at == {i \in DOMAIN journal : journal[i].kind \in {"approval_required", "approved", "denied"}
                                    /\ journal[i].action = a}
  IN IF at = {} THEN "none" ELSE journal[CHOOSE i \in at : \A j \in at : j <= i].kind

\* An action of an agent run comes to wait for an approval.
approval_required(v, a) ==
  /\ created(v) /\ status(a) = "none"
  /\ journal' = Append(journal, [kind |-> "approval_required", conv |-> v, action |-> a])
  /\ UNCHANGED <<calls, projections, events, log, client>>

list_pending_approvals(v) ==
  {a \in Actions : status(a) = "approval_required"
                   /\ \E i \in DOMAIN journal : journal[i].kind = "approval_required"
                                                /\ journal[i].action = a /\ journal[i].conv = v}

-----------------------------------------------------------------------------
(* The commands.                                                           *)
begun == Cardinality({i \in DOMAIN journal : journal[i].kind # "approval_required"})
           + Cardinality({c \in Callers : calls[c].at = "kernel"})

begin(c, op, v, a) ==
  /\ calls[c] = Idle
  /\ begun < MaxCommands
  /\ calls' = [calls EXCEPT ![c] = [Idle EXCEPT !.op = op, !.at = "kernel", !.conv = v, !.id = a]]
  /\ UNCHANGED <<journal, projections, events, log, client>>

create_conversation(c, v) == ~created(v) /\ begin(c, "created", v, 0)
submit_user_message(c, v) == begin(c, "message", v, 0)
start_agent_run(c, v) ==
  \E i \in DOMAIN journal : journal[i].kind = "message" /\ journal[i].conv = v /\ begin(c, "run", v, i)
\* A card of pending_approval_cards is decided on.
decide(c, v, a, op) == a \in list_pending_approvals(v) /\ begin(c, op, v, a)
approve_action(c, v, a) == decide(c, v, a, "approved")
deny_action(c, v, a) == decide(c, v, a, "denied")

\* The kernel refuses the command or its journal fails: nothing is pushed.  A
\* run whose start fails has been requested all the same.
refused(c) ==
  /\ calls[c].at \in {"kernel", "start", "load"}
  /\ calls' = [calls EXCEPT ![c] = Idle]
  /\ UNCHANGED <<journal, projections, events, log, client>>

\* The command's first event in the journal.  The message id is its position.
commits(c) ==
  LET s == calls[c]
      i == Len(journal) + 1
  IN /\ s.at = "kernel"
     /\ IF s.op = "created" THEN ~created(s.conv) ELSE created(s.conv)
     /\ s.op \in {"approved", "denied"} => status(s.id) = "approval_required"
     /\ journal' = Append(journal, CASE s.op = "run" -> [kind |-> "requested", conv |-> s.conv, id |-> i]
                                     [] s.op \in {"approved", "denied"} ->
                                          [kind |-> s.op, conv |-> s.conv, action |-> s.id]
                                     [] OTHER -> [kind |-> s.op, conv |-> s.conv, id |-> i])
     /\ calls' = [calls EXCEPT ![c] =
          CASE s.op = "run" -> [s EXCEPT !.at = "start", !.id = i]
            [] s.op = "created" -> [s EXCEPT !.at = "load", !.id = i]
            [] s.op = "message" -> [s EXCEPT !.at = "project", !.id = i,
                 !.event = [kind |-> "TimelineItemAppended", conv |-> s.conv, id |-> i, at |-> i]]
            [] OTHER -> Idle]  \* approve_action and deny_action push no event
     /\ UNCHANGED <<projections, events, log, client>>

\* StartAgentRunCommand, after RequestAgentRunCommand.
starts(c) ==
  LET s == calls[c]
  IN /\ s.at = "start"
     /\ journal' = Append(journal, [kind |-> "started", conv |-> s.conv, id |-> s.id])
     /\ calls' = [calls EXCEPT ![c] = [s EXCEPT !.at = "project",
          !.event = [kind |-> "AgentRunChanged", conv |-> s.conv, id |-> s.id, at |-> Len(journal) + 1]]]
     /\ UNCHANGED <<projections, events, log, client>>

\* load_state after create_conversation: updated_at is that of the last event
\* the conversation has by then.
loads(c) ==
  LET s == calls[c]
      at == {i \in DOMAIN journal : journal[i].conv = s.conv}
  IN /\ s.at = "load"
     /\ calls' = [calls EXCEPT ![c] = [s EXCEPT !.at = "project",
          !.event = [kind |-> "ConversationCreated", conv |-> s.conv, id |-> s.id,
                     at |-> CHOOSE i \in at : \A j \in at : j <= i]]]
     /\ UNCHANGED <<journal, projections, events, log, client>>

-----------------------------------------------------------------------------
(* push_event.                                                             *)
apply_projection(c) ==
  LET s == calls[c]
      e == s.event
  IN /\ s.at = "project"
     /\ projections' =
          CASE e.kind = "ConversationCreated" -> [projections EXCEPT !.conversations[e.conv] = e.at]
            [] e.kind = "TimelineItemAppended" ->
                 [projections EXCEPT
                    !.timelines[e.conv] = Append(@, e.id),
                    !.conversations[e.conv] = IF @ = 0 THEN 0 ELSE e.at]
            [] OTHER -> [projections EXCEPT !.runs = @ \cup {e.id}]
     /\ calls' = [calls EXCEPT ![c].at = "queue"]
     /\ UNCHANGED <<journal, events, log, client>>

push_queue(c) ==
  /\ calls[c].at = "queue"
  /\ events' = Append(events, calls[c].event)
  /\ calls' = [calls EXCEPT ![c].at = "log", ![c].id = Last(log).id + 1]
  /\ UNCHANGED <<journal, projections, log, client>>

\* Faulty variant: the id is taken before the lock of the log.
push_log_early(c) ==
  /\ calls[c].at = "log"
  /\ log' = Append(log, [id |-> calls[c].id, event |-> calls[c].event])
  /\ calls' = [calls EXCEPT ![c] = Idle]
  /\ UNCHANGED <<journal, projections, events, client>>

push_log(c) ==
  /\ calls[c].at = "log"
  /\ log' = Append(log, [id |-> Last(log).id + 1, event |-> calls[c].event])
  /\ calls' = [calls EXCEPT ![c] = Idle]
  /\ UNCHANGED <<journal, projections, events, client>>

-----------------------------------------------------------------------------
(* What the application reads.                                             *)
drain_events ==
  /\ events # <<>>
  /\ client' = [client EXCEPT !.drained = @ \o events]
  /\ events' = <<>>
  /\ UNCHANGED <<journal, calls, projections, log>>

events_after(cursor) ==
  LET after[i \in 0..Len(log)] ==
        IF i = 0 THEN <<>>
        ELSE IF log[i].id > cursor THEN Append(after[i - 1], log[i]) ELSE after[i - 1]
  IN after[Len(log)]

\* The cursor of the next page is the last id of this one.
pages ==
  LET cursor == IF client.seen = <<>> THEN 0 ELSE Last(client.seen).id
  IN /\ events_after(cursor) # <<>>
     /\ client' = [client EXCEPT !.seen = @ \o events_after(cursor)]
     /\ UNCHANGED <<journal, calls, projections, events, log>>

conversation_list_projection ==
  SetToSortSeq({v \in Conversations : projections.conversations[v] # 0},
               LAMBDA v, w : projections.conversations[v] > projections.conversations[w])

Next ==
  \/ \E v \in Conversations, a \in Actions : approval_required(v, a)
  \/ \E c \in Callers, v \in Conversations :
       \/ create_conversation(c, v) \/ submit_user_message(c, v) \/ start_agent_run(c, v)
       \/ \E a \in Actions : approve_action(c, v, a) \/ deny_action(c, v, a)
  \/ \E c \in Callers :
       \/ refused(c) \/ commits(c) \/ starts(c) \/ loads(c)
       \/ apply_projection(c) \/ push_queue(c) \/ push_log(c)
  \/ drain_events \/ pages

Spec == Init /\ [][Next]_uvars

-----------------------------------------------------------------------------
TypeOK ==
  /\ \A c \in Callers : calls[c].at \in {"idle", "kernel", "start", "load", "project", "queue", "log"}
  /\ projections.runs \subseteq DOMAIN journal
  /\ DOMAIN projections.timelines = Conversations

quiet == \A c \in Callers : calls[c].at \in {"idle", "kernel", "start", "load"}
logged == [i \in DOMAIN log |-> log[i].event]

\* However the pushes of several commands interleave: an application that
\* pages through the log sees every event exactly once and in the log's
\* order; and once no push is under way, the events it drained and those
\* still queued are those of the log, in some order, the timelines hold every
\* message of the journal once, and the runs every run that was started.
ClientSeesAll ==
  /\ LET cursor == IF client.seen = <<>> THEN 0 ELSE Last(client.seen).id
     IN client.seen \o events_after(cursor) = log
  /\ quiet =>
       /\ ToSet(client.drained \o events) = ToSet(logged)
       /\ Len(client.drained \o events) = Len(log)
       /\ \A v \in Conversations :
            LET messages == {i \in DOMAIN journal : journal[i].kind = "message" /\ journal[i].conv = v}
            IN /\ ToSet(projections.timelines[v]) = messages
               /\ Len(projections.timelines[v]) = Cardinality(messages)
       /\ projections.runs = {journal[i].id : i \in {j \in DOMAIN journal : journal[j].kind = "started"}}
=============================================================================

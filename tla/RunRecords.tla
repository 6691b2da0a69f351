------------------------------- MODULE RunRecords -------------------------------
(***************************************************************************)
(* agent-runtime: the run journal (JsonlRunJournal over MemoryRunJournal)  *)
(* and what recovery makes of it, the action store (JsonlActionStore over  *)
(* MemoryActionStore) and the retry policy.                                *)
(*                                                                         *)
(* Both stores change their map under its lock and append to the file      *)
(* afterwards, with nothing held in between; an append is two writes, the  *)
(* text and its newline.  Callers number the run events themselves.        *)
(***************************************************************************)
EXTENDS Naturals, Sequences, SequencesExt, FiniteSetsExt, JsonlFile

CONSTANTS Callers, Runs, Kinds,  \* Kinds: the RunEventKinds appended
          Ids, Outcomes,         \* action ids; outcomes as ActionRuntimeOutcome tells them apart
          MaxEvents,             \* bound of the journal's event ids
          MaxCrashes,
          InitialDelay, Multiplier, MaxDelay, MaxAttempts  \* RetryBackoffConfig

VARIABLES journal,   \* events in memory, lines in the file, whether the host runs, acknowledged events
          records,   \* records in memory, the file, acknowledged outcomes
          calls,     \* of every caller: what it has still to write
          crashes,
          retry      \* attempts made, error class and decision

zvars == <<journal, records, calls, crashes, retry>>

None == "none"
Idle == [pc |-> "idle"]
all_idle == [p \in Callers |-> Idle]
to(p, call) == calls' = [calls EXCEPT ![p] = call]

(* ---- run journal ---- *)

Terminal == {"RunCompleted", "RunFailed", "RunCancelled", "RunTimedOut"}

recommended_action(kind) ==
    CASE kind \in Terminal -> "None"
      [] kind = "ApprovalRequested" -> "RestorePendingApproval"
      [] kind \in {"ToolCallStarted", "ToolCallRequested", "ApprovalGranted"} -> "NeedsInspection"
      [] kind \in {"RunStarted", "ModelCallStarted", "AssistantOutputDelta"} -> "MarkCancelledAfterRestart"
      [] OTHER -> "Resume"

latest(events, run) ==
    LET of_run == {i \in DOMAIN events : events[i].run = run}
    IN  IF of_run = {} THEN None ELSE events[Max(of_run)].kind

\* The last event of every run in file order decides; a run without one, or an ended one, is left out.
build_recovery_report(events) == [run \in {r \in Runs : latest(events, r) \notin Terminal \cup {None}} |->
    recommended_action(latest(events, run))]

accepts_id(events, id) == events # <<>> => id > Last(events).id

\* append_event_to_memory; its caller has read the latest cursor some time before.
append_run_event(p) ==
    /\ calls[p].pc = "idle" /\ journal.open
    /\ \E run \in Runs, kind \in Kinds, id \in 1 .. MaxEvents :
         LET event == [id |-> id, run |-> run, kind |-> kind] IN
         /\ accepts_id(journal.memory, id)
         /\ journal' = [journal EXCEPT !.memory = Append(@, event)]
         /\ to(p, [pc |-> "text", event |-> event])
    /\ UNCHANGED records

write_event(p) ==
    /\ calls[p].pc = "text"
    /\ journal' = [journal EXCEPT !.lines = Append(@, calls[p].event), !.unterminated = TRUE,
                                  !.broken = @ \/ journal.unterminated]
    /\ to(p, [pc |-> "newline", event |-> calls[p].event])
    /\ UNCHANGED records

end_event(p) ==
    /\ calls[p].pc = "newline"
    /\ journal' = [journal EXCEPT !.unterminated = FALSE, !.acked = @ \cup {calls[p].event}]
    /\ to(p, Idle)
    /\ UNCHANGED records

\* The file cannot be opened or written: the event is in memory and its caller has an error.
event_fails(p) ==
    /\ calls[p].pc = "text"
    /\ to(p, Idle)
    /\ UNCHANGED <<journal, records>>

crash_journal ==
    /\ journal.open /\ crashes < MaxCrashes
    /\ \E torn \in BOOLEAN :
         /\ torn => \E p \in Callers : calls[p].pc = "text"
         /\ journal' = [journal EXCEPT !.open = FALSE, !.memory = <<>>, !.broken = @ \/ torn]
    /\ calls' = all_idle
    /\ UNCHANGED records

increasing(lines) == \A i \in 1 .. Len(lines) - 1 : lines[i].id < lines[i + 1].id

\* open replays the file through append_run_event: a line that does not parse, or an id out of order, is an error.
\* A last line without its newline parses.
open_journal ==
    /\ ~ journal.open /\ ~ journal.broken /\ increasing(journal.lines)
    /\ journal' = [journal EXCEPT !.open = TRUE, !.memory = journal.lines]
    /\ UNCHANGED <<records, calls>>

JournalNext ==
    /\ \/ /\ \/ \E p \in Callers : append_run_event(p) \/ write_event(p) \/ end_event(p) \/ event_fails(p)
             \/ open_journal
          /\ UNCHANGED crashes
       \/ crash_journal /\ crashes' = crashes + 1
    /\ UNCHANGED retry

(* ---- action store ---- *)

insert_request(p) ==
    /\ calls[p].pc = "idle" /\ records.open
    /\ \E id \in Ids :
         /\ records.memory[id] = None
         /\ records' = [records EXCEPT !.memory[id] = "Pending"]
         /\ to(p, [pc |-> "record", id |-> id, record |-> "Pending", outcome |-> "Pending"])
    /\ UNCHANGED journal

\* Faulty variant: a later outcome replaces the one recorded.
apply_outcome_again(record, outcome) == outcome

\* An outcome once recorded stays; any other is refused, the one that completes an approved action too.
apply_outcome(record, outcome) == IF record = "Pending" THEN outcome ELSE record

read_existing(p) ==
    /\ calls[p].pc = "idle" /\ records.open
    /\ \E id \in Ids, outcome \in Outcomes :
         /\ records.memory[id] # None
         /\ to(p, [pc |-> "existing", id |-> id, record |-> records.memory[id], outcome |-> outcome])
    /\ UNCHANGED <<journal, records>>

\* Callers between their change of a record in memory and the end of its write.
writing(id) == {q \in Callers : calls[q].pc \in {"record", "newline"} /\ calls[q].id = id}

\* The record is written when its outcome is not the one read before; the caller learns what was written or that
\* the same outcome was there already.
record_outcome(p) ==
    /\ calls[p].pc = "existing"
    /\ LET id == calls[p].id
           record == apply_outcome(records.memory[id], calls[p].outcome)
           done == calls[p].record = record
       IN  IF record # calls[p].outcome THEN to(p, Idle) /\ UNCHANGED records
           ELSE /\ to(p, IF done THEN Idle ELSE [calls[p] EXCEPT !.pc = "record", !.record = record])
                /\ records' = [records EXCEPT !.memory[id] = record,
                                              !.acked[id] = IF done THEN @ \cup {record} ELSE @,
                                              !.crossed = IF writing(id) # {} THEN @ \cup {id} ELSE @]
    /\ UNCHANGED journal

write_action(p) ==
    /\ calls[p].pc = "record"
    /\ LET id == calls[p].id IN
       records' = [records EXCEPT !.file = write_record(@, id, calls[p].record),
                                  !.crossed = IF writing(id) # {p} THEN @ \cup {id} ELSE @]
    /\ to(p, [calls[p] EXCEPT !.pc = "newline"])
    /\ UNCHANGED journal

end_action(p) ==
    /\ calls[p].pc = "newline"
    /\ records' = [records EXCEPT !.file = write_newline(@), !.acked[calls[p].id] = @ \cup {calls[p].outcome}]
    /\ to(p, Idle)
    /\ UNCHANGED journal

\* The record stays in memory: the same outcome recorded again is acknowledged and not written.
action_fails(p) ==
    /\ calls[p].pc = "record"
    /\ records' = [records EXCEPT !.crossed = @ \cup {calls[p].id}]
    /\ to(p, Idle)
    /\ UNCHANGED journal

crash_actions ==
    /\ records.open /\ crashes < MaxCrashes
    /\ \E torn \in BOOLEAN :
         /\ torn => \E p \in Callers : calls[p].pc = "record"
         /\ records' = [records EXCEPT !.open = FALSE, !.memory = [id \in Ids |-> None],
                                       !.file = IF torn THEN write_torn(@) ELSE @]
    /\ calls' = all_idle
    /\ UNCHANGED journal

open_actions ==
    /\ ~ records.open /\ parses(records.file)
    /\ records' = [records EXCEPT !.open = TRUE, !.memory = records.file.last]
    /\ UNCHANGED <<journal, calls>>

ActionNext ==
    /\ \/ /\ \/ \E p \in Callers : insert_request(p) \/ read_existing(p) \/ record_outcome(p)
                                   \/ write_action(p) \/ end_action(p) \/ action_fails(p)
             \/ open_actions
          /\ UNCHANGED crashes
       \/ crash_actions /\ crashes' = crashes + 1
    /\ UNCHANGED retry

(* ---- retry policy ---- *)

Classes == {"RateLimited", "TransientNetwork", "Timeout", "PermissionDenied", "Validation", "Unknown"}
is_retryable(class) == class \in {"RateLimited", "TransientNetwork", "Timeout"}

\* multiplier.saturating_pow; what saturates is over MaxDelay.
factor[exponent \in 0 .. MaxAttempts] == IF exponent = 0 THEN 1 ELSE Multiplier * factor[exponent - 1]

backoff_delay(attempts) == Min({InitialDelay * factor[attempts - 1], MaxDelay})

\* Exhausted attempts are told before the class is asked, and no attempt at all is exhausted too.
decide(class, attempts) ==
    CASE attempts >= MaxAttempts -> "Exhausted"
      [] attempts < MaxAttempts /\ ~ is_retryable(class) -> "DoNotRetry"
      [] OTHER -> IF attempts = 0 THEN "Exhausted" ELSE "Retry"

\* A host that runs something, counts its attempts and asks the policy after each failure.
classify_error ==
    /\ retry.decision = "Retry"
    /\ \E class \in Classes :
         LET n == retry.attempts + 1 IN
         retry' = [attempts |-> n, decision |-> decide(class, n),
                   slept |-> IF decide(class, n) = "Retry" THEN Append(retry.slept, backoff_delay(n)) ELSE retry.slept]
    /\ UNCHANGED <<journal, records, calls, crashes>>

Init ==
    /\ journal = [memory |-> <<>>, lines |-> <<>>, unterminated |-> FALSE, broken |-> FALSE, open |-> TRUE, acked |-> {}]
    /\ records = [memory |-> [id \in Ids |-> None], file |-> EmptyFile(Ids, None), open |-> TRUE,
                  acked |-> [id \in Ids |-> {}], crossed |-> {}]
    /\ calls = all_idle
    /\ crashes = 0
    /\ retry = [attempts |-> 0, decision |-> "Retry", slept |-> <<>>]

\* The stores and the policy do not meet: each has a specification of its own.
JournalSpec == Init /\ [][JournalNext]_zvars
ActionSpec == Init /\ [][ActionNext]_zvars
RetrySpec == Init /\ [][classify_error]_zvars

(* ---- properties ---- *)

started_unanswered(run, events) ==
    \E i \in DOMAIN events : events[i].run = run /\ events[i].kind = "ToolCallStarted" /\ events[i] \in journal.acked
        /\ \A k \in i + 1 .. Len(events) : events[k].run # run

\* What an open journal has of the acknowledged events, and what its recovery makes of the runs.
JournalSound ==
    journal.open =>
         /\ journal.acked \subseteq ToSet(journal.memory)
         /\ \A run \in DOMAIN build_recovery_report(journal.memory) :
              /\ \A e \in journal.acked : e.run = run /\ e.kind \in Terminal =>
                   \E f \in ToSet(journal.memory) : f.run = run /\ f.id > e.id
              /\ started_unanswered(run, journal.memory) =>
                   build_recovery_report(journal.memory)[run] = "NeedsInspection"

\* The outcomes that were acknowledged of an action whose writes did not cross.
ActionsSound ==
    \A id \in Ids \ records.crossed :
         LET outcomes == records.acked[id] \ {"Pending"} IN
         /\ \A o, n \in outcomes : o = n
         /\ records.open /\ records.acked[id] # {} => records.memory[id] # None
         /\ records.open => \A o \in outcomes : records.memory[id] = o

\* The attempts and the sleeps of a host that asks the policy.
RetrySound ==
    /\ retry.attempts <= MaxAttempts /\ Len(retry.slept) < MaxAttempts
    /\ \A i \in DOMAIN retry.slept : retry.slept[i] <= MaxDelay /\ (i > 1 => retry.slept[i - 1] <= retry.slept[i])

\* After a crash the journal that opens holds every acknowledged event: a run whose end was acknowledged is not
\* recovered, and one whose tool call was started and has no later event is never resumed on its own.  An action
\* has one outcome at most that was acknowledged, and with every record of it written alone and in full the
\* reopened store has that outcome.  A host that asks the retry policy stops after MaxAttempts, and its sleeps
\* never shrink and stay under the maximum.
RecordsSound == JournalSound /\ ActionsSound /\ RetrySound

================================================================================

---------------------------- MODULE ApprovalQueue ----------------------------
(***************************************************************************)
(* JsonlApprovalQueue: approvals are enqueued, listed, approved, denied    *)
(* and revoked by concurrent callers.  A call changes the map under its    *)
(* mutex and then, outside it, appends the record to the file.  That an    *)
(* approval expired is noted in the map only.                              *)
(***************************************************************************)
EXTENDS JsonlFile, Naturals

CONSTANTS Callers,    \* concurrent users of the queue
          Approvals,  \* approval ids
          Expires,    \* expires_at of each approval's request; 0 is None
          MaxTime,    \* bound: the clock's last tick
          IoErrors,   \* may append_record fail?
          Crashes     \* whether the process may restart, at any step

ASSUME ApprovalAssumption ==
  /\ MaxTime \in Nat
  /\ Expires \in [Approvals -> 0..MaxTime]
  /\ IoErrors \in BOOLEAN /\ Crashes \in BOOLEAN

Absent == "Absent"

\* The statuses approve, deny and revoke give.
Decisions == {"Approved", "Denied", "Revoked"}

ApprovalStatus == {"Pending", "Expired"} \cup Decisions

is_terminal(s) == s \in Decisions \cup {"Expired"}

VARIABLES
  records,  \* the map: status of each approval, or Absent
  file,     \* the JSONL file
  opened,   \* the queue could be opened
  call,     \* per caller: the write its call does next, its key and its line
  clock,    \* Utc::now
  wins,     \* history: decide calls that returned Ok since the queue was opened
  outcome,  \* history: what the last of them decided, per approval
  refused,  \* history: approvals somebody has seen expire
  raced     \* history: approvals with two calls whose lines were not yet written

history == <<wins, outcome, refused>>
vars == <<records, file, opened, call, clock, wins, outcome, refused, raced>>

Idle == [step |-> "idle", key |-> Absent, line |-> Absent]

Init ==
  /\ records = [a \in Approvals |-> Absent]
  /\ file = EmptyFile(Approvals, Absent)
  /\ opened = TRUE
  /\ call = [c \in Callers |-> Idle]
  /\ clock = 0
  /\ wins = [a \in Approvals |-> 0]
  /\ outcome = [a \in Approvals |-> Absent]
  /\ refused = {}
  /\ raced = {}

idle(c) == opened /\ call[c] = Idle

is_expired(a) == Expires[a] # 0 /\ Expires[a] <= clock

\* Caller c continues with the two writes of append_record.
then_append(c, a, s) ==
  /\ call' = [call EXCEPT ![c] = [step |-> "record", key |-> a, line |-> s]]
  /\ raced' = raced \cup {b \in {a} : \E d \in Callers : call[d].step = "record" /\ call[d].key = b}

-----------------------------------------------------------------------------
(* The calls.  One that is rejected with NotFound, AlreadyExists or        *)
(* AlreadyDecided changes nothing.                                         *)

Enqueue(c, a) ==
  /\ idle(c)
  /\ records[a] = Absent
  /\ records' = [records EXCEPT ![a] = "Pending"]
  /\ then_append(c, a, "Pending")
  /\ UNCHANGED <<file, opened, clock, history>>

decidable(a) == records[a] # Absent /\ ~is_terminal(records[a])

\* Faulty variant: only pending looks at the expiry.
DecideLate(c, a, s) ==
  /\ idle(c)
  /\ decidable(a)
  /\ records' = [records EXCEPT ![a] = s]
  /\ then_append(c, a, s)
  /\ UNCHANGED <<file, opened, clock, history>>

\* Faulty variant: repeating a decision is not an error.
DecideAgain(c, a, s) ==
  /\ idle(c)
  /\ decidable(a) \/ records[a] = s
  /\ IF is_expired(a) /\ decidable(a)
       THEN /\ records' = [records EXCEPT ![a] = "Expired"]
            /\ refused' = refused \cup {a}
            /\ UNCHANGED <<call, raced>>
       ELSE /\ records' = [records EXCEPT ![a] = s]
            /\ then_append(c, a, s)
            /\ UNCHANGED refused
  /\ UNCHANGED <<file, opened, clock, wins, outcome>>

\* approve, deny, revoke.
Decide(c, a, s) ==
  /\ idle(c)
  /\ decidable(a)
  /\ IF is_expired(a)
       THEN /\ records' = [records EXCEPT ![a] = "Expired"]
            /\ refused' = refused \cup {a}
            /\ UNCHANGED <<call, raced>>
       ELSE /\ records' = [records EXCEPT ![a] = s]
            /\ then_append(c, a, s)
            /\ UNCHANGED refused
  /\ UNCHANGED <<file, opened, clock, wins, outcome>>

\* pending: expire_pending_records, then the list.
expiring == {a \in Approvals : records[a] = "Pending" /\ is_expired(a)}

ListPending(c) ==
  /\ idle(c)
  /\ records' = [a \in Approvals |-> IF a \in expiring THEN "Expired" ELSE records[a]]
  /\ refused' = refused \cup expiring
  /\ UNCHANGED <<file, opened, call, clock, wins, outcome, raced>>

-----------------------------------------------------------------------------
(* append_record, and the return from the call.                            *)

\* Faulty variant: the call returns without having written its line.
WriteRecordLost(c) ==
  /\ call[c].step = "record"
  /\ call' = [call EXCEPT ![c].step = "newline"]
  /\ UNCHANGED <<records, file, opened, clock, history, raced>>

WriteRecord(c) ==
  /\ call[c].step = "record"
  /\ file' = write_record(file, call[c].key, call[c].line)
  /\ call' = [call EXCEPT ![c].step = "newline"]
  /\ UNCHANGED <<records, opened, clock, history, raced>>

WriteNewline(c) ==
  LET a == call[c].key IN
  /\ call[c].step = "newline"
  /\ file' = write_newline(file)
  /\ call' = [call EXCEPT ![c] = Idle]
  /\ IF call[c].line \in Decisions
       THEN /\ wins' = [wins EXCEPT ![a] = @ + 1]
            /\ outcome' = [outcome EXCEPT ![a] = call[c].line]
       ELSE UNCHANGED <<wins, outcome>>
  /\ UNCHANGED <<records, opened, clock, refused, raced>>

\* What a write of caller c leaves in the file when it does not get through.
cut_short(c) == {file} \cup {write_torn(file) : s \in {call[c].step} \cap {"record"}}

\* The call returns the error; the map keeps the change.
WriteFails(c) ==
  /\ IoErrors
  /\ call[c].step \in {"record", "newline"}
  /\ file' \in cut_short(c)
  /\ call' = [call EXCEPT ![c] = Idle]
  /\ UNCHANGED <<records, opened, clock, history, raced>>

-----------------------------------------------------------------------------
Tick ==
  /\ clock < MaxTime
  /\ clock' = clock + 1
  /\ UNCHANGED <<records, file, opened, call, history, raced>>

\* The process ends and the queue is opened again.
Restart ==
  /\ opened
  /\ Crashes
  /\ \E c \in Callers : file' \in cut_short(c)
  /\ opened' = parses(file')
  /\ records' = IF opened' THEN file'.last ELSE [a \in Approvals |-> Absent]
  /\ call' = [c \in Callers |-> Idle]
  /\ wins' = [a \in Approvals |-> 0]
  /\ UNCHANGED <<clock, outcome, refused, raced>>

CallerStep(c) ==
  \/ \E a \in Approvals : Enqueue(c, a) \/ \E s \in Decisions : Decide(c, a, s)
  \/ ListPending(c)
  \/ WriteRecord(c) \/ WriteNewline(c) \/ WriteFails(c)

Next == (\E c \in Callers : CallerStep(c)) \/ Tick \/ Restart

Spec == Init /\ [][Next]_vars

-----------------------------------------------------------------------------
Statuses == ApprovalStatus \cup {Absent}

TypeOK ==
  /\ records \in [Approvals -> Statuses]
  /\ file \in FileType(Approvals, Statuses)
  /\ opened \in BOOLEAN
  /\ call \in [Callers -> [ step : {"idle", "record", "newline"},
                            key : Approvals \cup {Absent}, line : Statuses ]]
  /\ clock \in 0..MaxTime
  /\ wins \in [Approvals -> Nat]
  /\ outcome \in [Approvals -> Decisions \cup {Absent}]
  /\ refused \subseteq Approvals /\ raced \subseteq Approvals

\* Of all the concurrent approve, deny and revoke calls for an approval at most
\* one returns Ok as long as the process lives, failing writes included (the
\* test concurrent_approval_decisions_allow_only_one_terminal_transition).
OneDecision == \A a \in Approvals : wins[a] <= 1

\* A decision that was acknowledged is what the queue says, after any failed
\* write, crash or restart that leaves a file it can open, although calls for
\* other approvals write into the same file.  It needs that no two calls wrote
\* this approval at the same time: the line of an earlier change may land last.
DecisionDurable ==
  opened => \A a \in Approvals \ raced : outcome[a] # Absent => records[a] = outcome[a]

\* Once anybody has seen an approval expire nobody decides it any more, although
\* the file still says Pending and a restart brings the pending record back.
ExpiredStaysClosed ==
  [][\A a \in refused : wins'[a] <= wins[a]]_vars
=============================================================================

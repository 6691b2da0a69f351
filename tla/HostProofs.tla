------------------------------ MODULE HostProofs ------------------------------
(***************************************************************************)
(* Proofs about components of the host that meet only through the caller,  *)
(* each for any sets of callers, ids and settings and any bounds.          *)
(* ApprovalQueue: its types, that one decision wins and is in the file,    *)
(* that an expired approval stays closed.  Assets: the index and its file. *)
(* BrowserPages: the active page is tracked.  BrowserExecutor: a browser   *)
(* on offer is polled and an artifact that is named was kept.  Timers:     *)
(* jobs, reminders and the notification store.  Config: the resolution of  *)
(* profiles and the migration of the file.  HostStorage: the lock of the   *)
(* storage root, its migration, the backup, the objects and the engine.    *)
(* BrowserPolicy: its decisions are guarded.                               *)
(***************************************************************************)
EXTENDS ApprovalQueue, Sequences, FiniteSetTheorems, WellFoundedInduction, TLAPS

CONSTANTS Assets, MaxUpserts, MaxCrashes                                \* of Assets, with Callers
CONSTANTS PageIds, SessionIds, MaxPages                                 \* of BrowserPages
CONSTANTS Calls, Fields, HasStore, Polls, MaxClock                      \* of BrowserExecutor
CONSTANTS Jobs, Reminders, MaxTicks, MaxArms                            \* of Timers, with Callers
CONSTANTS Profiles, Plain                                               \* of Config, with Callers
CONSTANTS Files, Artifacts, Supported, Registered                       \* of HostStorage, with Callers,
CONSTANTS Ttl, MaxWrites, MaxLog                                        \* MaxTicks and these

VARIABLES index, lines, upserts, readable, count, crashes, disturbed    \* of Assets
VARIABLES pages, active, plan, lease                                    \* of BrowserPages
VARIABLES browser, handler, owned, calls, artifacts, millis             \* of BrowserExecutor
VARIABLES time, jobs, polls, notified, reminders, actions, store, saves \* of Timers
VARIABLES document, load, original, toml, backup, migrations            \* of Config
VARIABLES lock, root, exported, objects, engine                         \* of HostStorage
VARIABLES asked                                                         \* of BrowserPolicy

\* The components, each with variables of its own.
Index == INSTANCE Assets WITH file <- lines, opened <- readable
Pages == INSTANCE BrowserPages
Executor == INSTANCE BrowserExecutor
Times == INSTANCE Timers WITH clock <- time, MaxTime <- MaxTicks
Loads == INSTANCE Config WITH file <- toml
Disk == INSTANCE HostStorage WITH backup <- exported, MaxTime <- MaxTicks
Guards == INSTANCE BrowserPolicy WITH MaxTime <- MaxTicks

\* The modules count the elements of a set alike.
LEMMA SameCount == \A S : Loads!Cardinality(S) = Cardinality(S)
BY DEF Cardinality, Loads!Cardinality

\* Caller c has decided a in the map and has not returned yet.
deciding(c, a) == call[c].step # "idle" /\ call[c].key = a /\ call[c].line \in Decisions

\* A call that writes has a key.
KeyInv == \A c \in Callers : call[c].step # "idle" => call[c].key \in Approvals

\* The map is never behind a decision under way: a restart, which may take
\* decisions back, ends all calls.
FlightInv ==
  \A c \in Callers, a \in Approvals : deciding(c, a) => records[a] \in Decisions

\* What was seen to expire is past its time, and no decision is under way.
RefusedInv ==
  \A a \in refused : is_expired(a) /\ \A c \in Callers : ~deciding(c, a)

IInv == TypeOK /\ KeyInv /\ FlightInv /\ RefusedInv

\* The bookkeeping behind OneDecision: wins are counted from the last restart on.
DecisionInv ==
  \A a \in Approvals :
    /\ wins[a] <= 1
    /\ wins[a] = 1 => records[a] \in Decisions
    /\ \A c \in Callers : deciding(c, a) => wins[a] = 0
    /\ \A c, d \in Callers : deciding(c, a) /\ deciding(d, a) => c = d

\* The bookkeeping behind DecisionDurable: what a decision puts into the map it
\* puts into the file, if no other line of that approval is on its way.
DurableInv ==
  /\ opened => \A c \in Callers, a \in Approvals : deciding(c, a) => records[a] = call[c].line
  /\ \A a \in Approvals \ raced :
       /\ \A c, d \in Callers : deciding(c, a) /\ call[d].step = "record" /\ call[d].key = a => c = d
       /\ \A c \in Callers : deciding(c, a) /\ call[c].step = "newline" => file.last[a] = call[c].line
       /\ outcome[a] # Absent =>
            /\ outcome[a] \in Decisions
            /\ file.last[a] = outcome[a]
            /\ opened => records[a] = outcome[a]
            /\ \A d \in Callers : ~(call[d].step = "record" /\ call[d].key = a)

\* No call is under way in a queue that could not be opened.
ClosedInv == ~opened => \A c \in Callers : call[c] = Idle

-----------------------------------------------------------------------------
\* The initial state satisfies every part.
LEMMA InitInv == Init => IInv /\ DecisionInv
BY ApprovalAssumption DEF Init, IInv, TypeOK, KeyInv, FlightInv, RefusedInv, DecisionInv,
   deciding, Idle, EmptyFile, FileType, Statuses, Absent

\* The file operators stay within FileType.
LEMMA FileTypes ==
  ASSUME NEW f \in FileType(Approvals, Statuses), NEW a \in Approvals, NEW s \in Statuses
  PROVE  /\ write_record(f, a, s) \in FileType(Approvals, Statuses)
         /\ write_newline(f) \in FileType(Approvals, Statuses)
         /\ write_torn(f) \in FileType(Approvals, Statuses)
BY DEF FileType, write_record, write_newline, write_torn

\* Every step of every caller, the clock and restarts preserve TypeOK and KeyInv.
LEMMA TypeNext == TypeOK /\ KeyInv /\ [Next]_vars => TypeOK' /\ KeyInv'
<1> SUFFICES ASSUME TypeOK, KeyInv, [Next]_vars PROVE TypeOK' /\ KeyInv'
  OBVIOUS
<1> USE ApprovalAssumption DEF TypeOK, KeyInv, Statuses, ApprovalStatus, Decisions, history
<1>1. CASE UNCHANGED vars
  BY <1>1 DEF vars
<1>2. ASSUME NEW c \in Callers, NEW a \in Approvals, Enqueue(c, a)
      PROVE  TypeOK' /\ KeyInv'
  BY <1>2 DEF Enqueue, then_append
<1>3. ASSUME NEW c \in Callers, NEW a \in Approvals, NEW s \in Decisions, Decide(c, a, s)
      PROVE  TypeOK' /\ KeyInv'
  BY <1>3 DEF Decide, then_append
<1>4. ASSUME NEW c \in Callers, ListPending(c)
      PROVE  TypeOK' /\ KeyInv'
  BY <1>4 DEF ListPending, expiring
<1>5. ASSUME NEW c \in Callers, WriteRecord(c)
      PROVE  TypeOK' /\ KeyInv'
  <2>1. file' \in FileType(Approvals, Statuses)
    BY <1>5, FileTypes DEF WriteRecord
  <2> QED BY <1>5, <2>1 DEF WriteRecord
<1>6. ASSUME NEW c \in Callers, WriteNewline(c)
      PROVE  TypeOK' /\ KeyInv'
  <2>1. call[c].key \in Approvals /\ call[c].line \in Statuses
    BY <1>6 DEF WriteNewline
  <2>2. file' \in FileType(Approvals, Statuses)
    BY <1>6, <2>1, FileTypes DEF WriteNewline
  <2>3. wins' \in [Approvals -> Nat] /\ outcome' \in [Approvals -> Decisions \cup {Absent}]
    BY <1>6, <2>1 DEF WriteNewline
  <2>4. Idle \in [ step : {"idle", "record", "newline"},
                   key : Approvals \cup {Absent}, line : Statuses ]
    BY DEF Idle, Absent
  <2>5. call' = [call EXCEPT ![c] = Idle] /\ UNCHANGED <<records, opened, clock, refused, raced>>
    BY <1>6 DEF WriteNewline
  <2>6. KeyInv'
    BY <2>5 DEF Idle
  <2> QED BY <2>2, <2>3, <2>4, <2>5, <2>6
<1>7. ASSUME NEW c \in Callers, WriteFails(c)
      PROVE  TypeOK' /\ KeyInv'
  <2>1. call[c].key \in Approvals /\ call[c].line \in Statuses
    BY <1>7 DEF WriteFails
  <2>2. file' \in FileType(Approvals, Statuses)
    BY <1>7, <2>1, FileTypes DEF WriteFails, cut_short
  <2> QED BY <1>7, <2>2 DEF WriteFails, Idle, Absent
<1>8. CASE Tick
  BY <1>8 DEF Tick
<1>9. CASE Restart
  <2>1. file' \in FileType(Approvals, Statuses)
    BY <1>9 DEF Restart, cut_short, FileType, write_torn
  <2>2. records' \in [Approvals -> Statuses] /\ opened' \in BOOLEAN
    BY <1>9, <2>1 DEF Restart, FileType, parses, Absent
  <2>3. /\ call' = [c \in Callers |-> Idle] /\ wins' = [a \in Approvals |-> 0]
        /\ UNCHANGED <<clock, outcome, refused, raced>>
    BY <1>9 DEF Restart
  <2>4. Idle \in [ step : {"idle", "record", "newline"},
                   key : Approvals \cup {Absent}, line : Statuses ]
    BY DEF Idle, Absent
  <2>5. KeyInv'
    BY <2>3 DEF Idle
  <2>6. TypeOK'
    BY <2>1, <2>2, <2>3, <2>4
  <2> QED BY <2>5, <2>6
<1> HIDE DEF TypeOK, KeyInv, Decisions
<1> QED BY <1>1, <1>2, <1>3, <1>4, <1>5, <1>6, <1>7, <1>8, <1>9 DEF Next, CallerStep

\* A decision changes the map before its call has anything to write, and only a
\* pending approval expires.
LEMMA FlightNext == TypeOK /\ KeyInv /\ FlightInv /\ [Next]_vars => FlightInv'
<1> SUFFICES ASSUME TypeOK, KeyInv, FlightInv, [Next]_vars,
                    NEW d \in Callers, NEW b \in Approvals, deciding(d, b)'
             PROVE  records'[b] \in Decisions
  BY DEF FlightInv
<1> USE DEF TypeOK, KeyInv, FlightInv, Statuses, ApprovalStatus, Decisions, deciding
<1>1. CASE UNCHANGED vars
  BY <1>1 DEF vars
<1>2. ASSUME NEW c \in Callers, NEW a \in Approvals, Enqueue(c, a)
      PROVE  records'[b] \in Decisions
  BY <1>2 DEF Enqueue, then_append, Absent
<1>3. ASSUME NEW c \in Callers, NEW a \in Approvals, NEW s \in Decisions, Decide(c, a, s)
      PROVE  records'[b] \in Decisions
  BY <1>3 DEF Decide, then_append, decidable, is_terminal
<1>4. ASSUME NEW c \in Callers, ListPending(c)
      PROVE  records'[b] \in Decisions
  BY <1>4 DEF ListPending, expiring
<1>5. ASSUME NEW c \in Callers, WriteRecord(c) \/ WriteNewline(c) \/ WriteFails(c)
      PROVE  records'[b] \in Decisions
  BY <1>5 DEF WriteRecord, WriteNewline, WriteFails, Idle
<1>6. CASE Tick
  BY <1>6 DEF Tick
<1>7. CASE Restart
  BY <1>7 DEF Restart, Idle
<1> QED BY <1>1, <1>2, <1>3, <1>4, <1>5, <1>6, <1>7 DEF Next, CallerStep

\* An approval is seen to expire only past its time and while the map has it
\* Pending, so with no decision under way; after that none can begin.
LEMMA RefusedNext == IInv /\ [Next]_vars => RefusedInv'
<1> SUFFICES ASSUME IInv, [Next]_vars, NEW b \in refused'
             PROVE  is_expired(b)' /\ \A d \in Callers : ~deciding(d, b)'
  BY DEF RefusedInv
<1>0. b \in Approvals
  BY TypeNext DEF IInv, TypeOK
<1> USE <1>0, ApprovalAssumption
    DEF IInv, TypeOK, KeyInv, FlightInv, RefusedInv, Statuses, ApprovalStatus, Decisions,
        deciding, is_expired
<1>1. CASE UNCHANGED vars
  BY <1>1 DEF vars
<1>2. ASSUME NEW c \in Callers, NEW a \in Approvals, Enqueue(c, a)
      PROVE  is_expired(b)' /\ \A d \in Callers : ~deciding(d, b)'
  BY <1>2 DEF Enqueue, then_append, history
<1>3. ASSUME NEW c \in Callers, NEW a \in Approvals, NEW s \in Decisions, Decide(c, a, s)
      PROVE  is_expired(b)' /\ \A d \in Callers : ~deciding(d, b)'
  BY <1>3 DEF Decide, then_append, decidable, is_terminal
<1>4. ASSUME NEW c \in Callers, ListPending(c)
      PROVE  is_expired(b)' /\ \A d \in Callers : ~deciding(d, b)'
  BY <1>4 DEF ListPending, expiring
<1>5. ASSUME NEW c \in Callers, WriteRecord(c) \/ WriteNewline(c) \/ WriteFails(c)
      PROVE  is_expired(b)' /\ \A d \in Callers : ~deciding(d, b)'
  BY <1>5 DEF WriteRecord, WriteNewline, WriteFails, Idle, history
<1>6. CASE Tick
  BY <1>6 DEF Tick, history
<1>7. CASE Restart
  BY <1>7 DEF Restart, Idle, history
<1> QED BY <1>1, <1>2, <1>3, <1>4, <1>5, <1>6, <1>7 DEF Next, CallerStep

\* The first decision makes the map terminal, so no second one begins, and it is
\* counted once; a restart, which may take it back, ends all calls.
LEMMA DecisionNext == IInv /\ DecisionInv /\ [Next]_vars => DecisionInv'
<1> SUFFICES ASSUME IInv, DecisionInv, [Next]_vars PROVE DecisionInv'
  OBVIOUS
<1> USE DEF IInv, TypeOK, KeyInv, FlightInv, DecisionInv, Statuses, ApprovalStatus, Decisions,
            deciding, history
<1>1. CASE UNCHANGED vars
  BY <1>1 DEF vars
<1>2. ASSUME NEW c \in Callers, NEW a \in Approvals, Enqueue(c, a)
      PROVE  DecisionInv'
  BY <1>2 DEF Enqueue, then_append, Absent
<1>3. ASSUME NEW c \in Callers, NEW a \in Approvals, NEW s \in Decisions, Decide(c, a, s)
      PROVE  DecisionInv'
  <2>1. \A d \in Callers : ~deciding(d, a)
    BY <1>3 DEF Decide, decidable, is_terminal
  <2>2. wins[a] = 0 /\ wins' = wins
    <3>1. records[a] \notin Decisions
      BY <1>3 DEF Decide, decidable, is_terminal
    <3>2. wins[a] # 1 /\ wins[a] <= 1 /\ wins[a] \in Nat
      BY <3>1
    <3>3. wins[a] = 0
      BY <3>2
    <3>4. wins' = wins
      BY <1>3 DEF Decide
    <3> QED BY <3>3, <3>4
  <2>3. CASE is_expired(a)
    BY <1>3, <2>1, <2>2, <2>3 DEF Decide
  <2>4. CASE ~is_expired(a)
    <3>1. /\ records' = [records EXCEPT ![a] = s]
          /\ call' = [call EXCEPT ![c] = [step |-> "record", key |-> a, line |-> s]]
      BY <1>3, <2>4 DEF Decide, then_append
    <3>2. \A d \in Callers : deciding(d, a)' => d = c
      BY <2>1, <3>1
    <3>3. \A d \in Callers, b \in Approvals \ {a} : deciding(d, b)' => deciding(d, b)
      BY <3>1
    <3> QED BY <2>2, <3>1, <3>2, <3>3
  <2> QED BY <2>3, <2>4
<1>4. ASSUME NEW c \in Callers, ListPending(c)
      PROVE  DecisionInv'
  BY <1>4 DEF ListPending, expiring
<1>5. ASSUME NEW c \in Callers, WriteRecord(c)
      PROVE  DecisionInv'
  BY <1>5 DEF WriteRecord
<1>6. ASSUME NEW c \in Callers, WriteNewline(c)
      PROVE  DecisionInv'
  <2> SUFFICES ASSUME NEW b \in Approvals
               PROVE  /\ wins'[b] <= 1
                      /\ wins'[b] = 1 => records'[b] \in Decisions
                      /\ \A d \in Callers : deciding(d, b)' => wins'[b] = 0
                      /\ \A d, e \in Callers : deciding(d, b)' /\ deciding(e, b)' => d = e
    OBVIOUS
  <2>1. /\ call'[c].step = "idle" /\ \A d \in Callers \ {c} : call'[d] = call[d]
        /\ records' = records
    BY <1>6 DEF WriteNewline, Idle
  <2>2. CASE deciding(c, b)
    <3>1. wins[b] = 0 /\ wins'[b] = 1 /\ records[b] \in Decisions
      BY <1>6, <2>2 DEF WriteNewline
    <3>2. \A d \in Callers : ~deciding(d, b)'
      BY <2>1, <2>2
    <3> QED BY <2>1, <3>1, <3>2
  <2>3. CASE ~deciding(c, b)
    <3>1. wins'[b] = wins[b]
      BY <1>6, <2>3 DEF WriteNewline
    <3>2. \A d \in Callers : deciding(d, b)' => deciding(d, b)
      BY <2>1
    <3> QED BY <2>1, <3>1, <3>2
  <2> QED BY <2>2, <2>3
<1>7. ASSUME NEW c \in Callers, WriteFails(c)
      PROVE  DecisionInv'
  BY <1>7 DEF WriteFails, Idle
<1>8. CASE Tick
  BY <1>8 DEF Tick
<1>9. CASE Restart
  BY <1>9 DEF Restart, Idle
<1> HIDE DEF IInv, DecisionInv, Decisions
<1> QED BY <1>1, <1>2, <1>3, <1>4, <1>5, <1>6, <1>7, <1>8, <1>9 DEF Next, CallerStep

\* Failed writes leave the last record of each approval as it was.
LEMMA CutShort ==
  ASSUME TypeOK, NEW c \in Callers, NEW f \in cut_short(c)
  PROVE  f.last = file.last
BY DEF cut_short, write_torn, TypeOK, FileType

\* A decision is in the map before its line is on its way, and the map accepts
\* nothing else about that approval: so no line overtakes it, and a restart
\* finds it in the file.  The file may keep the decision whose write failed or
\* lose it; nobody was told.
LEMMA DurableNext == IInv /\ ClosedInv /\ DurableInv /\ [Next]_vars => ClosedInv' /\ DurableInv'
<1> SUFFICES ASSUME IInv, ClosedInv, DurableInv, [Next]_vars PROVE ClosedInv' /\ DurableInv'
  OBVIOUS
<1>0. /\ TypeOK /\ KeyInv /\ FlightInv
      /\ \A a \in Approvals : file.last[a] \in Statuses
      /\ \A s \in Decisions : s # Absent /\ s # "Pending" /\ s # "Expired" /\ is_terminal(s)
  BY DEF IInv, TypeOK, FileType, Decisions, Absent, is_terminal
<1> USE DEF deciding, history
<1>1. CASE UNCHANGED vars
  BY <1>1 DEF vars, ClosedInv, DurableInv
<1>2. ASSUME NEW c \in Callers, NEW a \in Approvals, Enqueue(c, a)
      PROVE  ClosedInv' /\ DurableInv'
  <2>1. /\ opened /\ opened' /\ records[a] = Absent /\ records' = [records EXCEPT ![a] = "Pending"]
        /\ call' = [call EXCEPT ![c] = [step |-> "record", key |-> a, line |-> "Pending"]]
        /\ raced \subseteq raced' /\ UNCHANGED <<file, outcome>>
    BY <1>2 DEF Enqueue, then_append, idle
  <2>2. \A d \in Callers : ~deciding(d, a)
    BY <1>0, <2>1 DEF FlightInv
  <2>3. \A d \in Callers, b \in Approvals : deciding(d, b)' => deciding(d, b) /\ d # c /\ b # a
    BY <1>0, <2>1, <2>2 DEF TypeOK
  <2>4. a \notin raced => outcome[a] = Absent
    BY <1>0, <2>1 DEF DurableInv
  <2> QED BY <1>0, <2>1, <2>3, <2>4 DEF ClosedInv, DurableInv, TypeOK
<1>3. ASSUME NEW c \in Callers, NEW a \in Approvals, NEW s \in Decisions, Decide(c, a, s)
      PROVE  ClosedInv' /\ DurableInv'
  <2>1. /\ opened /\ opened' /\ records[a] # Absent /\ ~is_terminal(records[a])
        /\ UNCHANGED <<file, outcome>>
    BY <1>3 DEF Decide, idle, decidable
  <2>2. \A d \in Callers : ~deciding(d, a)
    BY <1>0, <2>1 DEF FlightInv
  <2>3. a \notin raced => outcome[a] = Absent
    BY <1>0, <2>1 DEF DurableInv
  <2>4. CASE is_expired(a)
    <3>1. records' = [records EXCEPT ![a] = "Expired"] /\ call' = call /\ raced' = raced
      BY <1>3, <2>4 DEF Decide
    <3> QED BY <1>0, <2>1, <2>2, <2>3, <3>1 DEF ClosedInv, DurableInv, TypeOK
  <2>5. CASE ~is_expired(a)
    <3>1. /\ records' = [records EXCEPT ![a] = s]
          /\ call' = [call EXCEPT ![c] = [step |-> "record", key |-> a, line |-> s]]
          /\ raced' = raced \cup {b \in {a} : \E d \in Callers : call[d].step = "record" /\ call[d].key = b}
          /\ call[c].step = "idle"
      BY <1>3, <2>5 DEF Decide, then_append, idle, Idle
    <3>2. \A d \in Callers, b \in Approvals : deciding(d, b)' /\ ~(d = c /\ b = a) => deciding(d, b) /\ d # c /\ b # a
      BY <1>0, <2>2, <3>1 DEF TypeOK
    <3>3. a \notin raced' => \A d \in Callers : ~(call[d].step = "record" /\ call[d].key = a)
      BY <3>1
    <3>4. ASSUME NEW b \in Approvals \ raced'
          PROVE  /\ \A d, e \in Callers : deciding(d, b)' /\ call'[e].step = "record" /\ call'[e].key = b => d = e
                 /\ \A d \in Callers : deciding(d, b)' /\ call'[d].step = "newline" => file'.last[b] = call'[d].line
                 /\ outcome'[b] # Absent =>
                      /\ outcome'[b] \in Decisions
                      /\ file'.last[b] = outcome'[b]
                      /\ opened' => records'[b] = outcome'[b]
                      /\ \A d \in Callers : ~(call'[d].step = "record" /\ call'[d].key = b)
      <4>0. b \notin raced
        BY <3>1, <3>4
      <4>1. CASE b = a
        BY <1>0, <2>1, <2>2, <2>3, <3>1, <3>3, <4>0, <4>1 DEF TypeOK
      <4>2. CASE b # a
        <5>1. records'[b] = records[b] /\ \A d \in Callers : call'[d].step # "idle" /\ call'[d].key = b
                => call'[d] = call[d]
          BY <1>0, <3>1, <4>2 DEF TypeOK
        <5> QED BY <1>0, <2>1, <3>1, <3>2, <4>0, <4>2, <5>1 DEF DurableInv
      <4> QED BY <4>1, <4>2
    <3>5. \A d \in Callers, b \in Approvals : deciding(d, b)' => records'[b] = call'[d].line
      <4> SUFFICES ASSUME NEW d \in Callers, NEW b \in Approvals, deciding(d, b)'
                   PROVE  records'[b] = call'[d].line
        OBVIOUS
      <4>1. CASE d = c /\ b = a
        BY <1>0, <3>1, <4>1 DEF TypeOK
      <4>2. CASE ~(d = c /\ b = a)
        BY <1>0, <2>1, <3>1, <3>2, <4>2 DEF DurableInv, TypeOK
      <4> QED BY <4>1, <4>2
    <3> QED BY <2>1, <3>4, <3>5 DEF ClosedInv, DurableInv
  <2> QED BY <2>4, <2>5
<1>4. ASSUME NEW c \in Callers, ListPending(c)
      PROVE  ClosedInv' /\ DurableInv'
  <2>1. /\ opened /\ opened'
        /\ \A a \in Approvals : records'[a] # records[a] => records[a] = "Pending"
        /\ UNCHANGED <<file, call, outcome, raced>>
    BY <1>4 DEF ListPending, expiring, idle
  <2> QED BY <1>0, <2>1 DEF ClosedInv, DurableInv, FlightInv
<1>5. ASSUME NEW c \in Callers, WriteRecord(c)
      PROVE  ClosedInv' /\ DurableInv'
  <2>1. /\ call[c].step = "record" /\ call[c].key \in Approvals /\ opened
        /\ call' = [call EXCEPT ![c].step = "newline"]
        /\ file'.last = [file.last EXCEPT ![call[c].key] = call[c].line]
        /\ UNCHANGED <<records, opened, outcome, raced>>
    BY <1>0, <1>5 DEF WriteRecord, KeyInv, ClosedInv, Idle, write_record
  <2>2. file.last \in [Approvals -> Statuses]
    BY <1>0 DEF TypeOK, FileType
  <2>3. \A d \in Callers : /\ call'[d].key = call[d].key /\ call'[d].line = call[d].line
                           /\ call'[d].step = "record" => call[d].step = "record" /\ d # c
                           /\ call'[d].step # "idle" => call[d].step # "idle"
                           /\ call'[d].step = "newline" => call[d].step = "newline" \/ d = c
    BY <1>0, <2>1 DEF TypeOK
  <2>4. ASSUME NEW b \in Approvals \ raced
        PROVE  /\ \A d, e \in Callers : deciding(d, b)' /\ call'[e].step = "record" /\ call'[e].key = b => d = e
               /\ \A d \in Callers : deciding(d, b)' /\ call'[d].step = "newline" => file'.last[b] = call'[d].line
               /\ outcome[b] # Absent =>
                    /\ outcome[b] \in Decisions
                    /\ file'.last[b] = outcome[b]
                    /\ opened => records[b] = outcome[b]
                    /\ \A d \in Callers : ~(call'[d].step = "record" /\ call'[d].key = b)
    <3>1. \A d, e \in Callers : deciding(d, b)' /\ call'[e].step = "record" /\ call'[e].key = b => d = e
      BY <2>3, <2>4 DEF DurableInv
    <3>2. ASSUME NEW d \in Callers, deciding(d, b)', call'[d].step = "newline"
          PROVE  file'.last[b] = call'[d].line
      <4>1. deciding(d, b)
        BY <2>3, <3>2
      <4>2. CASE call[c].key = b
        <5>1. d = c
          BY <2>1, <2>4, <4>1, <4>2 DEF DurableInv
        <5> QED BY <2>1, <2>2, <2>3, <4>2, <5>1
      <4>3. CASE call[c].key # b
        <5>1. call[d].step = "newline"
          BY <2>3, <3>2, <4>1, <4>3
        <5>2. file.last[b] = call[d].line
          BY <2>4, <4>1, <5>1 DEF DurableInv
        <5> QED BY <2>1, <2>2, <2>3, <4>3, <5>2
      <4> QED BY <4>2, <4>3
    <3>3. ASSUME outcome[b] # Absent
          PROVE  /\ outcome[b] \in Decisions
                 /\ file'.last[b] = outcome[b]
                 /\ opened => records[b] = outcome[b]
                 /\ \A d \in Callers : ~(call'[d].step = "record" /\ call'[d].key = b)
      <4>1. call[c].key # b
        BY <2>1, <2>4, <3>3 DEF DurableInv
      <4>2. file'.last[b] = file.last[b]
        BY <2>1, <2>2, <4>1
      <4> QED BY <2>3, <2>4, <3>3, <4>2 DEF DurableInv
    <3> QED BY <3>1, <3>2, <3>3
  <2>5. ClosedInv'
    BY <2>1 DEF ClosedInv
  <2>6. \A d \in Callers, b \in Approvals : deciding(d, b)' => records'[b] = call'[d].line
    BY <2>1, <2>3 DEF DurableInv
  <2> QED BY <2>1, <2>4, <2>5, <2>6 DEF DurableInv
<1>6. ASSUME NEW c \in Callers, WriteNewline(c)
      PROVE  ClosedInv' /\ DurableInv'
  <2>1. /\ call[c].step = "newline" /\ call[c].key \in Approvals /\ opened
        /\ call' = [call EXCEPT ![c] = Idle]
        /\ file'.last = file.last
        /\ UNCHANGED <<records, opened, raced>>
        /\ outcome' = IF call[c].line \in Decisions THEN [outcome EXCEPT ![call[c].key] = call[c].line] ELSE outcome
    BY <1>0, <1>6 DEF WriteNewline, KeyInv, ClosedInv, Idle, write_newline, TypeOK, FileType
  <2>2. \A d \in Callers : call'[d].step # "idle" => d # c /\ call'[d] = call[d]
    BY <1>0, <2>1 DEF TypeOK, Idle
  <2>3. ASSUME NEW b \in Approvals \ raced, outcome'[b] # Absent
        PROVE  /\ outcome'[b] \in Decisions
               /\ file.last[b] = outcome'[b]
               /\ records[b] = outcome'[b]
               /\ \A d \in Callers : ~(call'[d].step = "record" /\ call'[d].key = b)
    <3>1. CASE call[c].key = b /\ call[c].line \in Decisions
      <4>1. deciding(c, b) /\ outcome'[b] = call[c].line
        BY <1>0, <2>1, <3>1 DEF TypeOK
      <4>2. file.last[b] = call[c].line /\ records[b] = call[c].line
        BY <2>1, <2>3, <4>1 DEF DurableInv
      <4>3. \A d \in Callers : call[d].step = "record" /\ call[d].key = b => d = c
        BY <2>3, <4>1 DEF DurableInv
      <4> QED BY <2>2, <3>1, <4>1, <4>2, <4>3
    <3>2. CASE ~(call[c].key = b /\ call[c].line \in Decisions)
      <4>1. outcome'[b] = outcome[b]
        BY <1>0, <2>1, <3>2 DEF TypeOK
      <4> QED BY <2>1, <2>2, <2>3, <4>1 DEF DurableInv
    <3> QED BY <3>1, <3>2
  <2> QED BY <2>1, <2>2, <2>3 DEF ClosedInv, DurableInv
<1>7. ASSUME NEW c \in Callers, WriteFails(c)
      PROVE  ClosedInv' /\ DurableInv'
  <2>1. /\ opened /\ call' = [call EXCEPT ![c] = Idle] /\ file'.last = file.last
        /\ UNCHANGED <<records, opened, outcome, raced>>
    BY <1>0, <1>7, CutShort DEF WriteFails, ClosedInv, Idle
  <2>2. \A d \in Callers : call'[d].step # "idle" => d # c /\ call'[d] = call[d]
    BY <1>0, <2>1 DEF TypeOK, Idle
  <2> QED BY <2>1, <2>2 DEF ClosedInv, DurableInv
<1>8. CASE Tick
  BY <1>8 DEF Tick, ClosedInv, DurableInv
<1>9. CASE Restart
  <2>1. /\ call' = [c \in Callers |-> Idle] /\ UNCHANGED <<outcome, raced>>
        /\ opened' => records' = file'.last
        /\ file'.last = file.last
    BY <1>0, <1>9, CutShort DEF Restart
  <2> QED BY <1>0, <2>1 DEF ClosedInv, DurableInv, Idle
<1> QED BY <1>1, <1>2, <1>3, <1>4, <1>5, <1>6, <1>7, <1>8, <1>9 DEF Next, CallerStep

-----------------------------------------------------------------------------
\* The inductive invariant holds, with crashes and failing writes.
THEOREM Invariant == Spec => []IInv
<1>1. Init => IInv
  BY InitInv
<1>2. IInv /\ [Next]_vars => IInv'
  BY TypeNext, FlightNext, RefusedNext DEF IInv
<1> QED BY <1>1, <1>2, PTL DEF Spec

\* The variables of the approval queue keep their types.
THEOREM TypeCorrect == Spec => []TypeOK
<1>1. IInv => TypeOK
  BY DEF IInv
<1> QED BY <1>1, Invariant, PTL

\* An approval somebody has seen expire is not decided afterwards, whatever
\* crashes, restarts and failing writes come between: expiry is not in the
\* file, but it is found again because the clock does not go back.
THEOREM ExpiryFinal == Spec => ExpiredStaysClosed
<1>1. IInv /\ [Next]_vars => [\A a \in refused : wins'[a] <= wins[a]]_vars
  <2> SUFFICES ASSUME IInv, [Next]_vars, NEW a \in refused
               PROVE  wins'[a] <= wins[a]
    OBVIOUS
  <2>0. a \in Approvals
    BY DEF IInv, TypeOK
  <2>1. ASSUME NEW c \in Callers, WriteNewline(c)
        PROVE  wins'[a] <= wins[a]
    <3>1. wins'[a] = wins[a]
      BY <2>0, <2>1 DEF IInv, TypeOK, KeyInv, RefusedInv, WriteNewline, deciding
    <3> QED BY <2>0, <3>1 DEF IInv, TypeOK
  <2>2. CASE UNCHANGED wins
    BY <2>0, <2>2 DEF IInv, TypeOK
  <2>3. CASE Restart
    BY <2>0, <2>3 DEF IInv, TypeOK, Restart
  <2>4. \/ UNCHANGED wins \/ Restart
        \/ \E c \in Callers : WriteNewline(c)
    BY DEF Next, vars, CallerStep, Enqueue, Decide, ListPending, WriteRecord, WriteFails, Tick,
           history
  <2> QED BY <2>1, <2>2, <2>3, <2>4
<1> QED BY <1>1, Invariant, PTL DEF Spec, ExpiredStaysClosed

\* While the process lives, any number of concurrent decisions about an
\* approval have one winner, from whatever file it started.
THEOREM SingleDecision == Spec => []OneDecision
<1>1. Init => DecisionInv
  BY InitInv
<1>2. IInv /\ DecisionInv /\ [Next]_vars => DecisionInv'
  BY DecisionNext
<1>3. DecisionInv => OneDecision
  BY DEF DecisionInv, OneDecision
<1> QED BY <1>1, <1>2, <1>3, Invariant, PTL DEF Spec

\* An acknowledged decision is what the queue says after any failed write, crash
\* and restart, unless two calls were writing that approval at the same time.
THEOREM DecisionsDurable == Spec => []DecisionDurable
<1>1. Init => ClosedInv /\ DurableInv
  BY DEF Init, ClosedInv, DurableInv, deciding, Idle
<1>2. IInv /\ ClosedInv /\ DurableInv /\ [Next]_vars => ClosedInv' /\ DurableInv'
  BY DurableNext
<1>3. DurableInv => DecisionDurable
  BY DEF DurableInv, DecisionDurable
<1> QED BY <1>1, <1>2, <1>3, Invariant, PTL DEF Spec

-----------------------------------------------------------------------------
(* Assets.                                                                 *)
\* The variables are of the types of the code, and a caller that is not idle has an asset.
AssetTypes ==
  /\ index \in [Assets -> Nat]
  /\ lines \in Index!FileType(Assets, Nat)
  /\ upserts \in [Callers -> [at : {"idle", "line", "newline", "insert"}, asset : Assets \cup {"none"}, version : Nat]]
  /\ \A p \in Callers : upserts[p].at # "idle" => upserts[p].asset \in Assets /\ upserts[p].version > 0
  /\ readable \in {"open", "down", "refused"} /\ count \in Nat /\ disturbed \in BOOLEAN

\* What is written was written before it is in the index.
WrittenFirst ==
  /\ readable = "open" => \A a \in Assets : index[a] > 0 => lines.last[a] > 0
  /\ \A p \in Callers : upserts[p].at \in {"newline", "insert"} => lines.last[upserts[p].asset] > 0

\* Without an overlap, a failure or a cut the file and the index differ by the one upsert under way.
Undisturbed ==
  ~disturbed =>
    /\ readable # "refused" /\ ~lines.broken
    /\ \A p, q \in Callers : upserts[p].at # "idle" /\ upserts[q].at # "idle" => p = q
    /\ lines.unterminated => \E p \in Callers : upserts[p].at = "newline"
    /\ \A p \in Callers : upserts[p].at = "insert" => lines.last[upserts[p].asset] = upserts[p].version
    /\ \A p \in Callers : upserts[p].at = "newline" => lines.last[upserts[p].asset] = upserts[p].version
    /\ \A a \in Assets : index[a] = lines.last[a] \/ \E p \in Callers : upserts[p].at # "idle" /\ upserts[p].asset = a

\* The invariant of the asset store.
AssetInv == AssetTypes /\ WrittenFirst /\ Undisturbed

\* A new store has no asset in the index or the file.
LEMMA AssetsStart == Index!Init => AssetInv
<1> SUFFICES ASSUME Index!Init PROVE AssetInv
  OBVIOUS
<1>1. /\ index = [a \in Assets |-> 0] /\ upserts = [p \in Callers |-> Index!Idle]
      /\ lines = [last |-> [a \in Assets |-> 0], unterminated |-> FALSE, broken |-> FALSE]
      /\ readable = "open" /\ count = 0 /\ disturbed = FALSE
  BY DEF Index!Init, Index!EmptyFile
<1>2. lines \in Index!FileType(Assets, Nat) /\ lines.last = [a \in Assets |-> 0] /\ ~lines.broken /\ ~lines.unterminated
  BY <1>1 DEF Index!FileType
<1>3. \A p \in Callers : upserts[p] = Index!Idle
  BY <1>1
<1>4. AssetTypes
  BY <1>1, <1>2, <1>3 DEF AssetTypes, Index!Idle
<1> QED BY <1>1, <1>2, <1>3, <1>4 DEF AssetInv, WrittenFirst, Undisturbed, Index!Idle

\* Opening an upsert.
LEMMA AssetsUpsert == ASSUME AssetInv, NEW p \in Callers, Index!upsert(p) PROVE AssetInv'
<1> USE DEF AssetInv
<1>1. PICK a \in Assets : upserts' = [upserts EXCEPT ![p] = [at |-> "line", asset |-> a, version |-> count + 1]]
  BY DEF Index!upsert
<1>2. /\ upserts[p].at = "idle" /\ count' = count + 1 /\ UNCHANGED <<index, lines, readable, crashes>>
      /\ disturbed' = (disturbed \/ \E q \in Callers \ {p} : ~Index!idle(q))
  BY DEF Index!upsert, Index!idle, Index!Idle
<1>3. \A q \in Callers : upserts'[q] = IF q = p THEN [at |-> "line", asset |-> a, version |-> count + 1] ELSE upserts[q]
  BY <1>1 DEF AssetTypes
<1>4. AssetTypes'
  BY <1>1, <1>2, <1>3 DEF AssetTypes
<1>5. WrittenFirst'
  BY <1>2, <1>3 DEF WrittenFirst
<1>6. ASSUME ~disturbed' PROVE \A q \in Callers \ {p} : upserts'[q].at = "idle"
  <2>1. \A q \in Callers \ {p} : Index!idle(q)
    BY <1>2, <1>6, Zenon
  <2> QED BY <1>3, <2>1 DEF Index!idle, Index!Idle
<1>7. ASSUME ~disturbed' PROVE ~disturbed
  BY <1>2, <1>7
<1>8. ASSUME ~disturbed' PROVE ~lines.unterminated
  BY <1>2, <1>3, <1>6, <1>7, <1>8 DEF Undisturbed
<1>9. Undisturbed'
  BY <1>2, <1>3, <1>6, <1>7, <1>8 DEF Undisturbed
<1> QED BY <1>4, <1>5, <1>9

\* Writing the line: an upsert that is alone begins one and knows its version.
LEMMA AssetsLine == ASSUME AssetInv, NEW p \in Callers, Index!append_line(p) PROVE AssetInv'
<1> USE DEF AssetInv
<1> DEFINE b == upserts[p].asset
           v == upserts[p].version
<1>1. b \in Assets /\ v \in Nat /\ v > 0 /\ upserts[p].at = "line"
  BY DEF Index!append_line, AssetTypes
<1>2. /\ lines.last \in [Assets -> Nat] /\ lines.unterminated \in BOOLEAN /\ lines.broken \in BOOLEAN
  BY DEF AssetTypes, Index!FileType
<1>3. /\ lines' = Index!write_record(lines, b, v) /\ UNCHANGED <<index, readable, count, disturbed>>
      /\ upserts' = [upserts EXCEPT ![p].at = "newline"]
  BY DEF Index!append_line
<1>4. /\ lines'.last = [lines.last EXCEPT ![b] = v] /\ lines'.unterminated = TRUE
      /\ lines'.broken = (lines.broken \/ lines.unterminated) /\ lines' \in Index!FileType(Assets, Nat)
  BY <1>1, <1>2, <1>3 DEF Index!write_record, Index!FileType
<1>5. /\ \A q \in Callers : q # p => upserts'[q] = upserts[q]
      /\ upserts'[p].at = "newline" /\ upserts'[p].asset = b /\ upserts'[p].version = v
  BY <1>3 DEF AssetTypes
<1>6. /\ lines'.last[b] = v
      /\ \A a \in Assets : a # b => lines'.last[a] = lines.last[a]
  BY <1>1, <1>2, <1>4
<1>7. AssetTypes'
  BY <1>1, <1>3, <1>4, <1>5 DEF AssetTypes
<1> HIDE DEF b, v
<1>8. WrittenFirst'
  BY <1>1, <1>3, <1>5, <1>6, <1>7 DEF WrittenFirst, AssetTypes
<1>9. ASSUME ~disturbed' PROVE Undisturbed'
  <2>1. ~disturbed /\ \A q \in Callers : q # p => upserts[q].at = "idle"
    BY <1>1, <1>3, <1>9 DEF Undisturbed
  <2>2. ~lines.unterminated /\ ~lines.broken /\ readable # "refused"
    BY <1>1, <2>1 DEF Undisturbed
  <2>3. \A a \in Assets : index'[a] = lines'.last[a] \/ \E q \in Callers : upserts'[q].at # "idle"
          /\ upserts'[q].asset = a
    BY <1>3, <1>5, <1>6, <2>1 DEF Undisturbed
  <2>4. /\ readable' # "refused" /\ ~lines'.broken
        /\ \E q \in Callers : upserts'[q].at = "newline"
    BY <1>3, <1>4, <1>5, <2>2
  <2>5. \A q, r \in Callers : upserts'[q].at # "idle" /\ upserts'[r].at # "idle" => q = r
    BY <1>5, <2>1
  <2>6. \A q \in Callers : upserts'[q].at \in {"insert", "newline"} => q = p
    BY <1>5, <2>1
  <2>7. lines'.last[upserts'[p].asset] = upserts'[p].version
    BY <1>5, <1>6
  <2> QED BY <2>3, <2>4, <2>5, <2>6, <2>7 DEF Undisturbed
<1> QED BY <1>7, <1>8, <1>9 DEF Undisturbed

\* Ending the line.
LEMMA AssetsNewline == ASSUME AssetInv, NEW p \in Callers, Index!append_newline(p) PROVE AssetInv'
<1> USE DEF AssetInv
<1>1. /\ lines' = [lines EXCEPT !.unterminated = FALSE] /\ UNCHANGED <<index, readable, count, disturbed>>
      /\ upserts' = [upserts EXCEPT ![p].at = "insert"] /\ upserts[p].at = "newline"
  BY DEF Index!append_newline, Index!write_newline
<1>2. /\ lines'.last = lines.last /\ lines'.unterminated = FALSE /\ lines'.broken = lines.broken
      /\ lines' \in Index!FileType(Assets, Nat)
  BY <1>1 DEF AssetTypes, Index!FileType
<1>3. /\ \A q \in Callers : q # p => upserts'[q] = upserts[q]
      /\ upserts'[p].at = "insert" /\ upserts'[p].asset = upserts[p].asset /\ upserts'[p].version = upserts[p].version
  BY <1>1 DEF AssetTypes
<1>4. AssetTypes'
  BY <1>1, <1>2, <1>3 DEF AssetTypes
<1>5. WrittenFirst'
  BY <1>1, <1>2, <1>3 DEF WrittenFirst
<1>6. Undisturbed'
  BY <1>1, <1>2, <1>3 DEF Undisturbed
<1> QED BY <1>4, <1>5, <1>6

\* Putting the version into the index.
LEMMA AssetsInsert == ASSUME AssetInv, NEW p \in Callers, Index!insert(p) PROVE AssetInv'
<1> USE DEF AssetInv
<1> DEFINE b == upserts[p].asset
           v == upserts[p].version
<1>1. b \in Assets /\ v \in Nat /\ upserts[p].at = "insert"
  BY DEF Index!insert, AssetTypes
<1>2. /\ index' = [index EXCEPT ![b] = v] /\ UNCHANGED <<lines, readable, count, disturbed>>
      /\ upserts' = [upserts EXCEPT ![p] = Index!Idle]
  BY DEF Index!insert
<1>3. \A q \in Callers : upserts'[q] = IF q = p THEN Index!Idle ELSE upserts[q]
  BY <1>2 DEF AssetTypes
<1>4. \A a \in Assets : index'[a] = IF a = b THEN v ELSE index[a]
  BY <1>1, <1>2 DEF AssetTypes
<1>5. lines.last[b] > 0 /\ (~disturbed => lines.last[b] = v)
  BY <1>1 DEF WrittenFirst, Undisturbed
<1>6. Index!Idle \in [at : {"idle", "line", "newline", "insert"}, asset : Assets \cup {"none"}, version : Nat]
        /\ Index!Idle.at = "idle"
  BY DEF Index!Idle
<1> HIDE DEF b, v
<1>7. AssetTypes'
  BY <1>1, <1>2, <1>3, <1>6 DEF AssetTypes
<1>8. WrittenFirst'
  BY <1>2, <1>3, <1>4, <1>5, <1>6 DEF WrittenFirst
<1>9. \A a \in Assets : ~disturbed => index'[a] = lines.last[a] \/ \E q \in Callers : upserts'[q].at # "idle"
        /\ upserts'[q].asset = a
  BY <1>3, <1>4, <1>5 DEF Undisturbed, b
<1>10. ~disturbed => (lines.unterminated => \E q \in Callers : upserts'[q].at = "newline")
  BY <1>1, <1>3 DEF Undisturbed
<1>11. Undisturbed'
  BY <1>2, <1>3, <1>6, <1>9, <1>10 DEF Undisturbed
<1> QED BY <1>7, <1>8, <1>11

\* A write that fails leaves the file as it was or torn; the versions in it stay.
LEMMA AssetsCut ==
  ASSUME AssetTypes, NEW p \in Callers, NEW f \in Index!cut(p)
  PROVE  f \in Index!FileType(Assets, Nat) /\ f.last = lines.last
<1>1. lines \in [last : [Assets -> Nat], unterminated : BOOLEAN, broken : BOOLEAN]
  BY DEF AssetTypes, Index!FileType
<1> QED BY <1>1 DEF Index!cut, Index!write_torn, Index!FileType

\* An append that fails is reported and noted as a disturbance.
LEMMA AssetsFails == ASSUME AssetInv, NEW p \in Callers, Index!append_fails(p) PROVE AssetInv'
<1> USE DEF AssetInv
<1>1. /\ upserts' = [upserts EXCEPT ![p] = Index!Idle] /\ disturbed' = TRUE /\ UNCHANGED <<index, readable, count>>
      /\ lines' \in Index!FileType(Assets, Nat) /\ lines'.last = lines.last
  BY AssetsCut DEF Index!append_fails
<1>2. \A q \in Callers : upserts'[q] = IF q = p THEN Index!Idle ELSE upserts[q]
  BY <1>1 DEF AssetTypes
<1>3. Index!Idle \in [at : {"idle", "line", "newline", "insert"}, asset : Assets \cup {"none"}, version : Nat]
        /\ Index!Idle.at = "idle"
  BY DEF Index!Idle
<1>4. AssetTypes'
  BY <1>1, <1>2, <1>3 DEF AssetTypes
<1>5. WrittenFirst' /\ Undisturbed'
  BY <1>1, <1>2, <1>3 DEF WrittenFirst, Undisturbed
<1> QED BY <1>4, <1>5

\* The end of the host loses the index and may cut the line that is being written.
LEMMA AssetsCrash == ASSUME AssetInv, Index!crash PROVE AssetInv'
<1> USE DEF AssetInv
<1>1. /\ upserts' = [p \in Callers |-> Index!Idle] /\ disturbed' = (disturbed \/ \E p \in Callers : ~Index!idle(p))
      /\ readable' = "down" /\ UNCHANGED <<index, count>>
      /\ \E p \in Callers : lines' \in Index!cut(p)
  BY DEF Index!crash
<1>2. PICK p \in Callers : lines' \in Index!cut(p)
  BY <1>1
<1>3. lines' \in Index!FileType(Assets, Nat) /\ lines'.last = lines.last
  BY <1>2, AssetsCut
<1>4. \A q \in Callers : upserts'[q] = Index!Idle
  BY <1>1
<1>5. Index!Idle \in [at : {"idle", "line", "newline", "insert"}, asset : Assets \cup {"none"}, version : Nat]
        /\ Index!Idle.at = "idle"
  BY DEF Index!Idle
<1>6. AssetTypes'
  BY <1>1, <1>3, <1>4, <1>5 DEF AssetTypes
<1>7. WrittenFirst'
  BY <1>1, <1>4, <1>5 DEF WrittenFirst
<1>8. ASSUME ~disturbed' PROVE Undisturbed'
  <2>1. ~disturbed /\ \A q \in Callers : upserts[q].at = "idle"
    <3>1. ~disturbed /\ \A q \in Callers : Index!idle(q)
      BY <1>1, <1>8, Zenon
    <3> QED BY <3>1 DEF Index!idle, Index!Idle
  <2>2. lines' = lines
    BY <1>2, <2>1 DEF Index!cut
  <2> QED BY <1>1, <1>4, <1>5, <2>1, <2>2 DEF Undisturbed
<1> QED BY <1>6, <1>7, <1>8 DEF Undisturbed

\* Opening fills the index from the file.
LEMMA AssetsOpen == ASSUME AssetInv, Index!open PROVE AssetInv'
<1> USE DEF AssetInv
<1>1. /\ index' = IF Index!parses(lines) THEN lines.last ELSE [a \in Assets |-> 0]
      /\ readable' = IF Index!parses(lines) THEN "open" ELSE "refused"
      /\ UNCHANGED <<lines, upserts, count, disturbed>>
  BY DEF Index!open
<1>2. lines.last \in [Assets -> Nat]
  BY DEF AssetTypes, Index!FileType
<1>3. AssetTypes'
  BY <1>1, <1>2 DEF AssetTypes
<1>4. CASE Index!parses(lines)
  <2>1. index' = lines.last /\ readable' = "open" /\ UNCHANGED <<lines, upserts, disturbed>>
    BY <1>1, <1>4
  <2> QED BY <1>3, <2>1 DEF WrittenFirst, Undisturbed
<1>5. CASE ~Index!parses(lines)
  <2>1. readable' = "refused" /\ UNCHANGED <<lines, upserts, disturbed>> /\ lines.broken
    BY <1>1, <1>5 DEF Index!parses
  <2> QED BY <1>3, <2>1 DEF WrittenFirst, Undisturbed
<1> QED BY <1>4, <1>5

\* Every step of the store keeps the invariant.
LEMMA AssetsStep == AssetInv /\ [Index!Next]_(Index!qvars) => AssetInv'
<1> SUFFICES ASSUME AssetInv, [Index!Next]_(Index!qvars) PROVE AssetInv'
  OBVIOUS
<1>1. CASE \E p \in Callers : Index!upsert(p) \/ Index!append_line(p) \/ Index!append_newline(p) \/ Index!insert(p)
        \/ Index!append_fails(p)
  BY <1>1, AssetsUpsert, AssetsLine, AssetsNewline, AssetsInsert, AssetsFails
<1>2. CASE Index!crash \/ Index!open
  BY <1>2, AssetsCrash, AssetsOpen
<1>3. CASE UNCHANGED Index!qvars
  BY <1>3 DEF Index!qvars, AssetInv, AssetTypes, WrittenFirst, Undisturbed
<1> QED BY <1>1, <1>2, <1>3 DEF Index!Next

\* The invariant has what the property states.
LEMMA AssetsMeaning == AssetInv => Index!AssetsSound
<1> SUFFICES ASSUME AssetInv PROVE Index!AssetsSound
  OBVIOUS
<1>1. Index!NeverAhead
  BY DEF AssetInv, WrittenFirst, Index!NeverAhead
<1>2. ~disturbed => /\ readable # "refused" /\ Index!parses(lines)
                    /\ \A a \in Assets : index[a] = lines.last[a] \/ \E p \in Callers : upserts[p].asset = a
  BY DEF AssetInv, Undisturbed, Index!parses
<1> QED BY <1>1, <1>2 DEF Index!AssetsSound

\* However upserts of the asset store overlap, fail or are cut short by the end of the host: what the index
\* holds was written before.  Upserts that follow one another leave a file that opens and holds what the
\* index held (FsAssetStore::upsert, append_metadata and open); for any callers and assets.
THEOREM AssetFileSound == Index!Spec => []Index!AssetsSound
<1>1. Index!Spec => []AssetInv
  BY AssetsStart, AssetsStep, PTL DEF Index!Spec
<1> QED BY <1>1, AssetsMeaning, PTL

-----------------------------------------------------------------------------
(* BrowserPages.                                                           *)
\* A session holds pages, and the active page is one of them.
PagesInv == pages \in Seq(Pages!BrowserPageInfo) /\ active \in PageIds \cup {Pages!NoPage} /\ Pages!ActiveTracked

\* The position of a page of the session is one of the list and holds that page.
LEMMA PageOf == ASSUME NEW p \in Pages!page_ids PROVE Pages!page(p) \in DOMAIN pages /\ pages[Pages!page(p)].id = p
BY DEF Pages!page_ids, Pages!page

\* set_active_page keeps the ids and leaves no other page Active.
LEMMA MadeActive ==
  ASSUME NEW s \in Seq(Pages!BrowserPageInfo), NEW p \in PageIds
  PROVE  /\ Pages!make_active(s, p) \in Seq(Pages!BrowserPageInfo) /\ DOMAIN Pages!make_active(s, p) = DOMAIN s
         /\ \A i \in DOMAIN s : /\ Pages!make_active(s, p)[i].id = s[i].id
                                /\ Pages!make_active(s, p)[i].status = "Active" => s[i].id = p
<1> DEFINE m == Pages!make_active(s, p)
<1>1. DOMAIN m = DOMAIN s /\ DOMAIN s = 1..Len(s)
  BY DEF Pages!make_active
<1>2. ASSUME NEW i \in DOMAIN s
      PROVE  m[i] \in Pages!BrowserPageInfo /\ m[i].id = s[i].id /\ (m[i].status = "Active" => s[i].id = p)
  <2>1. s[i] \in [id : PageIds, status : Pages!BrowserPageStatus, health : Pages!BrowserPageHealthStatus]
    <3>1. s[i] \in Pages!BrowserPageInfo
      BY <1>2
    <3> QED BY <3>1 DEF Pages!BrowserPageInfo
  <2>2. m[i] = IF s[i].id = p THEN [s[i] EXCEPT !.status = "Active"]
               ELSE IF s[i].status = "Active" THEN [s[i] EXCEPT !.status = "Background"] ELSE s[i]
    BY <1>2 DEF Pages!make_active
  <2>3. CASE s[i].id = p
    BY <2>1, <2>2, <2>3 DEF Pages!BrowserPageInfo, Pages!BrowserPageStatus
  <2>4. CASE s[i].id # p
    BY <2>1, <2>2, <2>4 DEF Pages!BrowserPageInfo, Pages!BrowserPageStatus
  <2> QED BY <2>3, <2>4
<1>3. m = [i \in 1..Len(s) |-> m[i]] /\ Len(s) \in Nat
  BY <1>1 DEF Pages!make_active
<1>4. m \in Seq(Pages!BrowserPageInfo)
  BY <1>1, <1>2, <1>3
<1> QED BY <1>1, <1>2, <1>4

\* A health report makes no page Active.
LEMMA WithHealth ==
  ASSUME NEW info \in Pages!BrowserPageInfo, NEW h \in Pages!BrowserPageHealthStatus
  PROVE  /\ Pages!with_health(info, h) \in Pages!BrowserPageInfo /\ Pages!with_health(info, h).id = info.id
         /\ Pages!with_health(info, h).status \in {info.status, "Crashed", "Closed"}
<1>1. info \in [id : PageIds, status : Pages!BrowserPageStatus, health : Pages!BrowserPageHealthStatus]
  BY DEF Pages!BrowserPageInfo
<1> DEFINE w == IF h \in {"Crashed", "Closed"} THEN h ELSE info.status
<1>2. Pages!with_health(info, h) = [info EXCEPT !.health = h, !.status = w]
  BY <1>1 DEF Pages!with_health
<1>3. w \in {info.status, "Crashed", "Closed"}
  OBVIOUS
<1> HIDE DEF w
<1>4. Pages!with_health(info, h) = [id |-> info.id, health |-> h, status |-> w]
  BY <1>1, <1>2
<1> QED BY <1>1, <1>3, <1>4 DEF Pages!BrowserPageInfo, Pages!BrowserPageStatus, Pages!BrowserPageHealthStatus

\* Pages whose ids stay and whose statuses stay or become Crashed or Closed keep the invariant.
LEMMA OnlyWorse ==
  ASSUME PagesInv, NEW s \in Seq(Pages!BrowserPageInfo), DOMAIN s = DOMAIN pages,
         \A i \in DOMAIN pages : s[i].id = pages[i].id /\ s[i].status \in {pages[i].status, "Crashed", "Closed"},
         pages' = s, active' = active
  PROVE  PagesInv'
<1>1. Pages!page_ids' = Pages!page_ids
  BY DEF Pages!page_ids
<1> QED BY <1>1 DEF PagesInv, Pages!ActiveTracked

\* A crash report marks one page and leaves the active page id alone.
LEMMA PagesCrashed ==
  ASSUME PagesInv, NEW p \in Pages!page_ids \cup {Pages!NoPage}, pages' = Pages!crashed(p), active' = active
  PROVE  PagesInv'
<1>1. CASE p # Pages!NoPage
  <2> DEFINE s == [pages EXCEPT ![Pages!page(p)] = Pages!with_health(@, "Crashed")]
  <2>1. pages' = s /\ Pages!page(p) \in DOMAIN pages
    BY <1>1, PageOf DEF Pages!crashed
  <2>2. \A i \in DOMAIN pages : s[i] = IF i = Pages!page(p) THEN Pages!with_health(pages[i], "Crashed") ELSE pages[i]
    BY <2>1 DEF PagesInv
  <2>3. \A i \in DOMAIN pages : pages[i] \in Pages!BrowserPageInfo
    BY DEF PagesInv
  <2>4. "Crashed" \in Pages!BrowserPageHealthStatus
    BY DEF Pages!BrowserPageHealthStatus
  <2>5. \A i \in DOMAIN pages : /\ s[i] \in Pages!BrowserPageInfo /\ s[i].id = pages[i].id
                                /\ s[i].status \in {pages[i].status, "Crashed", "Closed"}
    BY <2>2, <2>3, <2>4, WithHealth
  <2>6. DOMAIN s = DOMAIN pages /\ DOMAIN pages = 1..Len(pages) /\ Len(pages) \in Nat
    BY DEF PagesInv
  <2>7. s \in Seq(Pages!BrowserPageInfo)
    <3>1. s = [i \in 1..Len(pages) |-> s[i]]
      BY <2>6
    <3> HIDE DEF s
    <3> QED BY <2>5, <2>6, <3>1
  <2> HIDE DEF s
  <2> QED BY <2>1, <2>5, <2>6, <2>7, OnlyWorse
<1>2. CASE p = Pages!NoPage
  <2> DEFINE s == [i \in DOMAIN pages |-> IF Pages!is_open(pages[i]) THEN Pages!with_health(pages[i], "Crashed")
    ELSE pages[i]]
  <2>1. pages' = s
    BY <1>2 DEF Pages!crashed
  <2>3. \A i \in DOMAIN pages : pages[i] \in Pages!BrowserPageInfo
    BY DEF PagesInv
  <2>4. "Crashed" \in Pages!BrowserPageHealthStatus
    BY DEF Pages!BrowserPageHealthStatus
  <2>5. \A i \in DOMAIN pages : /\ s[i] \in Pages!BrowserPageInfo /\ s[i].id = pages[i].id
                                /\ s[i].status \in {pages[i].status, "Crashed", "Closed"}
    BY <2>3, <2>4, WithHealth
  <2>6. DOMAIN s = DOMAIN pages /\ DOMAIN pages = 1..Len(pages) /\ Len(pages) \in Nat
    BY DEF PagesInv
  <2>7. s \in Seq(Pages!BrowserPageInfo)
    <3>1. s = [i \in 1..Len(pages) |-> s[i]]
      BY <2>6
    <3> HIDE DEF s
    <3> QED BY <2>5, <2>6, <3>1
  <2> HIDE DEF s
  <2> QED BY <2>1, <2>5, <2>6, <2>7, OnlyWorse
<1> QED BY <1>1, <1>2

\* Pages on which set_active_page was done keep it.
LEMMA PagesActive ==
  ASSUME NEW s \in Seq(Pages!BrowserPageInfo), NEW p \in PageIds, NEW i \in DOMAIN s, s[i].id = p,
         Pages!NoPage \notin PageIds, pages' = Pages!make_active(s, p), active' = p
  PROVE  PagesInv'
<1> DEFINE m == Pages!make_active(s, p)
<1>1. m \in Seq(Pages!BrowserPageInfo) /\ DOMAIN m = DOMAIN s
  BY MadeActive
<1>2. \A j \in DOMAIN m : m[j].id = s[j].id /\ (m[j].status = "Active" => s[j].id = p)
  BY <1>1, MadeActive
<1> HIDE DEF m
<1>3. pages' = m /\ active' = p
  BY DEF m
<1>4. p \in Pages!page_ids'
  BY <1>1, <1>2, <1>3 DEF Pages!page_ids
<1> QED BY <1>1, <1>2, <1>3, <1>4 DEF PagesInv, Pages!ActiveTracked

\* A page that is opened becomes the active one.
LEMMA PagesOpen == ASSUME PagesInv, Pages!NoPage \notin PageIds, NEW p \in PageIds, Pages!open_page(p) PROVE PagesInv'
<1> DEFINE new == [id |-> p, status |-> "Background", health |-> "Healthy"]
           s == Append(pages, new)
           n == Len(pages) + 1
<1>1. new \in Pages!BrowserPageInfo /\ new.id = p /\ new.status # "Active"
  BY DEF Pages!BrowserPageInfo, Pages!BrowserPageStatus, Pages!BrowserPageHealthStatus
<1>2. pages \in Seq(Pages!BrowserPageInfo) /\ Len(pages) \in Nat
  BY DEF PagesInv
<1>3. IF active = Pages!NoPage THEN pages' = Pages!make_active(s, p) /\ active' = p ELSE pages' = s /\ active' = active
  BY DEF Pages!open_page
<1> HIDE DEF new
<1>4. s \in Seq(Pages!BrowserPageInfo) /\ n \in DOMAIN s /\ s[n] = new /\ DOMAIN s = DOMAIN pages \cup {n}
  BY <1>1, <1>2
<1>5. \A i \in DOMAIN pages : s[i] = pages[i]
  BY <1>1, <1>2
<1> HIDE DEF s, n
<1>6. CASE active = Pages!NoPage
  BY <1>1, <1>3, <1>4, <1>6, PagesActive
<1>7. CASE active # Pages!NoPage
  <2>1. pages' = s /\ active' = active
    BY <1>3, <1>7
  <2>2. Pages!page_ids \subseteq Pages!page_ids'
    BY <2>1, <1>4, <1>5 DEF Pages!page_ids
  <2>3. \A i \in DOMAIN s : s[i].status = "Active" => s[i].id = active
    BY <1>1, <1>4, <1>5 DEF PagesInv, Pages!ActiveTracked
  <2> QED BY <2>1, <2>2, <2>3, <1>4, <1>7 DEF PagesInv, Pages!ActiveTracked
<1> QED BY <1>6, <1>7

\* Closing the active page makes the first usable page the active one, or none.
LEMMA PagesClose ==
  ASSUME PagesInv, Pages!NoPage \notin PageIds, NEW p \in PageIds, Pages!close_page(p)
  PROVE  PagesInv'
<1> DEFINE s == [pages EXCEPT ![Pages!page(p)].status = "Closed", ![Pages!page(p)].health = "Closed"]
           rest == {i \in DOMAIN s : Pages!is_open(s[i])}
<1>1. Pages!page(p) \in DOMAIN pages /\ pages[Pages!page(p)].id = p
  BY PageOf DEF Pages!close_page
<1>2. \A i \in DOMAIN pages : pages[i] \in [id : PageIds, status : Pages!BrowserPageStatus,
          health : Pages!BrowserPageHealthStatus]
  <2>1. \A i \in DOMAIN pages : pages[i] \in Pages!BrowserPageInfo
    BY DEF PagesInv
  <2> QED BY <2>1 DEF Pages!BrowserPageInfo
<1>3. pages \in Seq(Pages!BrowserPageInfo)
  BY DEF PagesInv
<1>4. DOMAIN s = DOMAIN pages /\ DOMAIN pages = 1..Len(pages) /\ Len(pages) \in Nat
  BY <1>3
<1>5. \A i \in DOMAIN pages :
        s[i] = IF i = Pages!page(p) THEN [id |-> pages[i].id, status |-> "Closed", health |-> "Closed"] ELSE pages[i]
  <2> DEFINE t == [pages EXCEPT ![Pages!page(p)].status = "Closed"]
             u == [id |-> p, status |-> "Closed", health |-> pages[Pages!page(p)].health]
  <2>1. u = [pages[Pages!page(p)] EXCEPT !.status = "Closed"]
    BY <1>1, <1>2
  <2>2. DOMAIN t = DOMAIN pages /\ \A i \in DOMAIN pages : t[i] = IF i = Pages!page(p) THEN u ELSE pages[i]
    BY <1>1, <2>1
  <2>3. s = [t EXCEPT ![Pages!page(p)].health = "Closed"]
    OBVIOUS
  <2> HIDE DEF t, s
  <2>4. [u EXCEPT !.health = "Closed"] = [id |-> p, status |-> "Closed", health |-> "Closed"]
    OBVIOUS
  <2> HIDE DEF u
  <2>5. s = [t EXCEPT ![Pages!page(p)] = [u EXCEPT !.health = "Closed"]]
    BY <1>1, <2>2, <2>3
  <2> QED BY <1>1, <2>2, <2>4, <2>5
<1>6. \A i \in DOMAIN pages : /\ s[i] \in Pages!BrowserPageInfo /\ s[i].id = pages[i].id
                              /\ s[i].status \in {pages[i].status, "Crashed", "Closed"}
  BY <1>2, <1>5 DEF Pages!BrowserPageInfo, Pages!BrowserPageStatus, Pages!BrowserPageHealthStatus
<1>7. s \in Seq(Pages!BrowserPageInfo)
  <2>1. s = [i \in 1..Len(pages) |-> s[i]]
    BY <1>4
  <2> HIDE DEF s
  <2> QED BY <1>4, <1>6, <2>1
<1>8. \/ active # p /\ pages' = s /\ active' = active
      \/ active = p /\ rest = {} /\ pages' = s /\ active' = Pages!NoPage
      \/ active = p /\ \E i \in rest : pages' = Pages!make_active(s, s[i].id) /\ active' = s[i].id
  BY DEF Pages!close_page
<1>9. \A i \in DOMAIN s : i \in rest <=> s[i].status # "Closed"
  BY DEF Pages!is_open
<1>10. rest \subseteq DOMAIN s
  OBVIOUS
<1> HIDE DEF s, rest
<1>11. CASE pages' = s /\ active' = active
  BY <1>4, <1>6, <1>7, <1>11, OnlyWorse
<1>12. CASE rest = {} /\ pages' = s /\ active' = Pages!NoPage
  <2>1. \A i \in DOMAIN pages' : pages'[i].status = "Closed"
    BY <1>9, <1>12
  <2> QED BY <2>1, <1>7, <1>12 DEF PagesInv, Pages!ActiveTracked
<1>13. CASE \E i \in rest : pages' = Pages!make_active(s, s[i].id) /\ active' = s[i].id
  <2>1. PICK i \in rest : pages' = Pages!make_active(s, s[i].id) /\ active' = s[i].id
    BY <1>13
  <2>2. i \in DOMAIN s /\ s[i].id \in PageIds
    BY <1>2, <1>4, <1>6, <1>10
  <2> QED BY <1>7, <2>1, <2>2, PagesActive
<1> QED BY <1>8, <1>11, <1>12, <1>13

\* A health report changes no page id and makes no page Active.
LEMMA PagesHealth ==
  ASSUME PagesInv, NEW p \in PageIds, NEW h \in Pages!BrowserPageHealthStatus, Pages!update_page_health(p, h)
  PROVE  PagesInv'
<1> DEFINE s == [pages EXCEPT ![Pages!page(p)] = Pages!with_health(@, h)]
<1>1. pages' = s /\ Pages!page(p) \in DOMAIN pages /\ active' = active
  BY PageOf DEF Pages!update_page_health
<1>2. \A i \in DOMAIN pages : s[i] = IF i = Pages!page(p) THEN Pages!with_health(pages[i], h) ELSE pages[i]
  BY <1>1 DEF PagesInv
<1>3. \A i \in DOMAIN pages : pages[i] \in Pages!BrowserPageInfo
  BY DEF PagesInv
<1>4. \A i \in DOMAIN pages : /\ s[i] \in Pages!BrowserPageInfo /\ s[i].id = pages[i].id
                              /\ s[i].status \in {pages[i].status, "Crashed", "Closed"}
  BY <1>2, <1>3, WithHealth
<1>5. DOMAIN s = DOMAIN pages /\ DOMAIN pages = 1..Len(pages) /\ Len(pages) \in Nat
  BY DEF PagesInv
<1>6. s \in Seq(Pages!BrowserPageInfo)
  <2>1. s = [i \in 1..Len(pages) |-> s[i]]
    BY <1>5
  <2> HIDE DEF s
  <2> QED BY <1>4, <1>5, <2>1
<1> HIDE DEF s
<1> QED BY <1>1, <1>4, <1>5, <1>6, OnlyWorse

\* Every step of the session keeps the invariant.
LEMMA PagesStep == ASSUME Pages!NoPage \notin PageIds PROVE PagesInv /\ [Pages!Next]_(Pages!pvars) => PagesInv'
<1> SUFFICES ASSUME PagesInv, [Pages!Next]_(Pages!pvars) PROVE PagesInv'
  OBVIOUS
<1>1. ASSUME NEW p \in PageIds, Pages!open_page(p) \/ Pages!close_page(p) \/ Pages!switch_page(p) PROVE PagesInv'
  <2>1. CASE Pages!switch_page(p)
    <3>1. pages \in Seq(Pages!BrowserPageInfo) /\ Pages!page(p) \in DOMAIN pages /\ pages[Pages!page(p)].id = p
      BY <2>1, PageOf DEF Pages!switch_page, PagesInv
    <3> QED BY <2>1, <3>1, PagesActive DEF Pages!switch_page
  <2> QED BY <1>1, <2>1, PagesOpen, PagesClose
<1>2. ASSUME NEW p \in PageIds, NEW h \in Pages!BrowserPageHealthStatus, Pages!update_page_health(p, h)
      PROVE  PagesInv'
  BY <1>2, PagesHealth
<1>3. ASSUME NEW p \in PageIds \cup {Pages!NoPage}, Pages!record_crash(p) PROVE PagesInv'
  BY <1>3, PagesCrashed DEF Pages!record_crash
<1>4. ASSUME NEW p \in PageIds \cup {Pages!NoPage}, NEW strategy \in Pages!BrowserRecoveryStrategy,
          Pages!recover_from_crash(p, strategy)
      PROVE PagesInv'
  BY <1>4, PagesCrashed DEF Pages!recover_from_crash
<1>5. ASSUME NEW t \in SessionIds, Pages!pause_for_takeover(t) \/ Pages!resume(t) PROVE PagesInv'
  BY <1>5 DEF Pages!pause_for_takeover, Pages!resume, PagesInv, Pages!ActiveTracked, Pages!page_ids
<1>6. CASE UNCHANGED Pages!pvars
  BY <1>6 DEF Pages!pvars, PagesInv, Pages!ActiveTracked, Pages!page_ids
<1> QED BY <1>1, <1>2, <1>3, <1>4, <1>5, <1>6 DEF Pages!Next

\* Only the active page is Active, it is a page of the session, and while a page is usable there is one, after
\* any sequence of openings, closings, switches, crash reports and recoveries (BrowserPageLifecycleManager);
\* for any page ids and any limit of open pages.
THEOREM ActivePageTracked == ASSUME Pages!NoPage \notin PageIds PROVE Pages!Spec => []Pages!ActiveTracked
<1>1. Pages!Init => PagesInv
  BY DEF Pages!Init, PagesInv, Pages!ActiveTracked, Pages!page_ids
<1>2. PagesInv => Pages!ActiveTracked
  BY DEF PagesInv
<1> QED BY <1>1, <1>2, PagesStep, PTL DEF Pages!Spec

-----------------------------------------------------------------------------
(* BrowserExecutor.                                                        *)
\* What a call returns.
Results == {"none", "Completed", "NotSupported", "ExecutionFailed", "InvalidInput", "ApprovalRequired", "Denied"}
\* A call of the executor.
Call == [kind : Executor!KNOWN_BROWSER_ACTIONS \cup {"none"}, opt : BOOLEAN, at : Nat, polls : Nat, result : Results,
    id : Nat, acted : Nat]

\* A call has its fields, an artifact it names is in the store, and the browser is polled.
ExecutorInv == calls \in [Calls -> Call] /\ millis \in Nat /\ Executor!ArtifactKept /\ Executor!BrowserDriven

\* A step of one call that leaves the artifact it names alone.
OneCall(c, made) ==
  calls' = [calls EXCEPT ![c] = made] /\ made \in Call /\ made.id = calls[c].id
    /\ UNCHANGED <<browser, handler, artifacts, millis>>

\* Such a step keeps the invariant.
LEMMA CallKept == ASSUME ExecutorInv, NEW c \in Calls, NEW made, OneCall(c, made) PROVE ExecutorInv'
BY DEF ExecutorInv, OneCall, Executor!ArtifactKept, Executor!BrowserDriven

\* What returns and advanced make of a call.
LEMMA Returned ==
  ASSUME ExecutorInv, NEW c \in Calls, NEW r \in Results, Executor!returns(c, r),
         UNCHANGED <<browser, handler, artifacts, millis>>
  PROVE  ExecutorInv'
<1> DEFINE made == [calls[c] EXCEPT !.result = r]
<1>1. calls' = [calls EXCEPT ![c] = made] /\ calls[c] \in Call
  BY DEF Executor!returns, ExecutorInv
<1>2. made \in Call /\ made.id = calls[c].id
  BY <1>1 DEF Call
<1> HIDE DEF made
<1> QED BY <1>1, <1>2, CallKept DEF OneCall

\* A call that goes on to the next step of its plan is a call and names the same artifact.
LEMMA Advanced ==
  ASSUME NEW c \in Calls, NEW made \in Call
  PROVE  Executor!advanced(c, made) \in Call /\ Executor!advanced(c, made).id = made.id
<1>1. CASE made.at = Len(Executor!plan_of(c))
  <2>1. Executor!advanced(c, made) = [made EXCEPT !.result = "Completed"]
    BY <1>1 DEF Executor!advanced
  <2> QED BY <2>1 DEF Call, Results
<1>2. CASE made.at # Len(Executor!plan_of(c))
  <2>1. Executor!advanced(c, made) = [made EXCEPT !.at = made.at + 1]
    BY <1>2 DEF Executor!advanced
  <2>2. made.at + 1 \in Nat
    BY DEF Call
  <2> QED BY <2>1, <2>2 DEF Call
<1> QED BY <1>1, <1>2

\* Going on keeps the invariant.
LEMMA StepAdvances ==
  ASSUME ExecutorInv, NEW c \in Calls, calls' = [calls EXCEPT ![c] = Executor!advanced(c, @)],
         UNCHANGED <<browser, handler, artifacts, millis>>
  PROVE  ExecutorInv'
<1>1. calls[c] \in Call
  BY DEF ExecutorInv
<1>2. calls' = [calls EXCEPT ![c] = Executor!advanced(c, calls[c])]
  BY DEF ExecutorInv
<1> QED BY <1>1, <1>2, Advanced, CallKept DEF OneCall

\* A call that begins names no artifact, whether it is rejected, waits for approval or runs.
LEMMA ExecutorBegins ==
  ASSUME ExecutorInv, NEW c \in Calls, NEW kind \in Executor!KNOWN_BROWSER_ACTIONS \cup {"other"},
         NEW opt \in BOOLEAN, Executor!execute(c, kind, opt)
  PROVE  ExecutorInv'
<1>1. calls[c] \in Call /\ UNCHANGED <<browser, handler, artifacts, millis>>
  BY DEF ExecutorInv, Executor!execute
<1>2. CASE Executor!returns(c, "NotSupported") \/ Executor!returns(c, "ExecutionFailed")
  BY <1>1, <1>2, Returned DEF Results
<1>3. CASE kind \in Executor!KNOWN_BROWSER_ACTIONS
        /\ calls' = [calls EXCEPT ![c].kind = kind, ![c].opt = opt, ![c].at = 1]
  <2> DEFINE made == [kind |-> kind, opt |-> opt, at |-> 1, polls |-> calls[c].polls, result |-> calls[c].result,
                      id |-> calls[c].id, acted |-> calls[c].acted]
             t1 == [calls EXCEPT ![c].kind = kind]
             t2 == [t1 EXCEPT ![c].opt = opt]
             t3 == [t2 EXCEPT ![c].at = 1]
             Part == [kind : Executor!KNOWN_BROWSER_ACTIONS \cup {"none"}, opt : BOOLEAN, at : Nat, polls : Nat,
                 result : Results, id : Nat, acted : Nat]
  <2>1. calls \in [Calls -> Part] /\ calls[c] \in Part
    BY <1>1 DEF ExecutorInv, Call
  <2>2. calls' = t3
    BY <1>3
  <2>3. t1 \in [Calls -> Part] /\ t1[c] = [calls[c] EXCEPT !.kind = kind] /\ \A d \in Calls : d # c => t1[d] = calls[d]
    BY <1>3, <2>1
  <2> HIDE DEF t1
  <2>4. t2 \in [Calls -> Part] /\ t2[c] = [t1[c] EXCEPT !.opt = opt] /\ \A d \in Calls : d # c => t2[d] = calls[d]
    <3>1. t1[c] \in Part
      BY <2>3
    <3>2. [t1[c] EXCEPT !.opt = opt] \in Part
      BY <3>1
    <3> HIDE DEF Part
    <3> QED BY <2>3, <3>2
  <2> HIDE DEF t2
  <2>5. t3 \in [Calls -> Part] /\ t3[c] = [t2[c] EXCEPT !.at = 1] /\ \A d \in Calls : d # c => t3[d] = calls[d]
    <3>1. t2[c] \in Part
      BY <2>4
    <3>2. [t2[c] EXCEPT !.at = 1] \in Part
      BY <3>1
    <3> HIDE DEF Part
    <3> QED BY <2>4, <3>2
  <2> HIDE DEF t3
  <2>6. t3[c].id = calls[c].id
    BY <2>1, <2>3, <2>4, <2>5
  <2>7. calls' = [calls EXCEPT ![c] = t3[c]]
    BY <2>1, <2>2, <2>5
  <2>8. t3[c] \in Call
    BY <2>5 DEF Call
  <2> QED BY <1>1, <2>6, <2>7, <2>8, CallKept DEF OneCall
<1> QED BY <1>2, <1>3 DEF Executor!execute

\* A step on the page changes its call only.
LEMMA ExecutorUses == ASSUME ExecutorInv, NEW c \in Calls, Executor!use_page(c) PROVE ExecutorInv'
<1>1. calls[c] \in Call /\ UNCHANGED <<browser, handler, artifacts, millis>> /\ calls \in [Calls -> Call]
  BY DEF ExecutorInv, Executor!use_page
<1>2. CASE Executor!returns(c, "ExecutionFailed")
  BY <1>1, <1>2, Returned DEF Results
<1>3. CASE calls' = [calls EXCEPT ![c] = Executor!advanced(c, IF Executor!current(c) \in {"act", "submit"}
        THEN [calls[c] EXCEPT !.acted = @ + 1] ELSE @)]
  <2> DEFINE more == [calls[c] EXCEPT !.acted = calls[c].acted + 1]
             made == IF Executor!current(c) \in {"act", "submit"} THEN more ELSE calls[c]
  <2>1. more \in Call /\ more.id = calls[c].id
    BY <1>1 DEF Call
  <2>2. made \in Call /\ made.id = calls[c].id
    BY <1>1, <2>1
  <2>3. calls' = [calls EXCEPT ![c] = Executor!advanced(c, made)]
    <3>1. CASE Executor!current(c) \in {"act", "submit"}
      BY <1>1, <1>3, <3>1
    <3>2. CASE Executor!current(c) \notin {"act", "submit"}
      BY <1>1, <1>3, <3>2
    <3> QED BY <3>1, <3>2
  <2> HIDE DEF made
  <2> QED BY <1>1, <2>2, <2>3, Advanced, CallKept DEF OneCall
<1> QED BY <1>2, <1>3 DEF Executor!use_page

\* A poll changes its call only.
LEMMA ExecutorPolls == ASSUME ExecutorInv, NEW c \in Calls, Executor!poll(c) PROVE ExecutorInv'
<1>1. calls[c] \in Call /\ UNCHANGED <<browser, handler, artifacts, millis>> /\ calls \in [Calls -> Call]
  BY DEF ExecutorInv, Executor!poll
<1>2. CASE Executor!returns(c, "ExecutionFailed")
  BY <1>1, <1>2, Returned DEF Results
<1>3. CASE calls' = [calls EXCEPT ![c] = Executor!advanced(c, @)]
  BY <1>1, <1>3, StepAdvances
<1>4. CASE calls' = [calls EXCEPT ![c].polls = @ + 1]
  <2> DEFINE made == [calls[c] EXCEPT !.polls = calls[c].polls + 1]
  <2>1. made \in Call /\ made.id = calls[c].id
    BY <1>1 DEF Call
  <2>2. calls' = [calls EXCEPT ![c] = made]
    BY <1>1, <1>4
  <2> HIDE DEF made
  <2> QED BY <1>1, <2>1, <2>2, CallKept DEF OneCall
<1> QED BY <1>2, <1>3, <1>4 DEF Executor!poll

\* A call names an artifact only once the store has taken it.
LEMMA ExecutorPuts == ASSUME ExecutorInv, NEW c \in Calls, Executor!put(c) PROVE ExecutorInv'
<1>1. calls[c] \in Call /\ UNCHANGED <<browser, handler, millis>> /\ calls \in [Calls -> Call] /\ millis \in Nat
  BY DEF ExecutorInv, Executor!put
<1>2. CASE UNCHANGED artifacts /\ Executor!returns(c, "ExecutionFailed")
  BY <1>1, <1>2, Returned DEF Results
<1>3. CASE UNCHANGED artifacts /\ calls' = [calls EXCEPT ![c] = Executor!advanced(c, @)]
  BY <1>1, <1>3, StepAdvances
<1>4. CASE /\ artifacts' = IF HasStore THEN artifacts \cup {millis} ELSE artifacts
           /\ calls' = [calls EXCEPT ![c] = Executor!advanced(c, [@ EXCEPT !.id = IF Executor!current(c) = "put"
                THEN millis ELSE 0])]
  <2> DEFINE named == IF Executor!current(c) = "put" THEN millis ELSE 0
             made == [calls[c] EXCEPT !.id = named]
             next == Executor!advanced(c, made)
  <2>1. named \in {millis, 0} /\ named \in Nat
    BY <1>1
  <2>2. calls' = [calls EXCEPT ![c] = next]
    BY <1>1, <1>4
  <2> HIDE DEF named
  <2>3. made \in Call /\ made.id = named
    BY <1>1, <2>1 DEF Call
  <2> HIDE DEF made
  <2>4. next \in Call /\ next.id = named
    BY <2>3, Advanced
  <2> HIDE DEF next
  <2>5. calls' \in [Calls -> Call] /\ calls'[c] = next /\ \A d \in Calls : d # c => calls'[d] = calls[d]
    BY <1>1, <2>2, <2>4
  <2>6. Executor!ArtifactKept'
    BY <1>1, <1>4, <2>1, <2>4, <2>5 DEF ExecutorInv, Executor!ArtifactKept
  <2>7. Executor!BrowserDriven'
    BY <1>1 DEF ExecutorInv, Executor!BrowserDriven
  <2> QED BY <1>1, <2>5, <2>6, <2>7 DEF ExecutorInv
<1> QED BY <1>2, <1>3, <1>4 DEF Executor!put

\* Checking the input and deciding about the approval change their call only.
LEMMA ExecutorDecides ==
  ASSUME ExecutorInv, NEW c \in Calls, Executor!check_input(c) \/ Executor!decide(c)
  PROVE  ExecutorInv'
<1>1. UNCHANGED <<browser, handler, artifacts, millis>>
  BY DEF Executor!check_input, Executor!decide
<1>2. CASE calls' = [calls EXCEPT ![c] = Executor!advanced(c, @)]
  BY <1>1, <1>2, StepAdvances
<1>3. CASE \E r \in Results : Executor!returns(c, r)
  BY <1>1, <1>3, Returned
<1>4. CASE Executor!check_input(c)
  <2>1. "InvalidInput" \in Results
    BY DEF Results
  <2> QED BY <1>2, <1>3, <1>4, <2>1 DEF Executor!check_input
<1>5. CASE Executor!decide(c)
  BY <1>3, <1>5 DEF Executor!decide, Results
<1> QED BY <1>4, <1>5

\* Every step of calls, manager and browser keeps the invariant.
LEMMA ExecutorStep == ExecutorInv /\ [Executor!Next]_(Executor!evars) => ExecutorInv'
<1> SUFFICES ASSUME ExecutorInv, [Executor!Next]_(Executor!evars) PROVE ExecutorInv'
  OBVIOUS
<1>1. CASE Executor!launch \/ Executor!shutdown \/ Executor!new_executor \/ Executor!tick
  <2>1. calls' = calls /\ artifacts' = artifacts /\ millis' \in {millis, millis + 1}
    BY <1>1 DEF Executor!launch, Executor!shutdown, Executor!new_executor, Executor!tick
  <2>2. Executor!BrowserDriven'
    BY <1>1 DEF Executor!launch, Executor!shutdown, Executor!new_executor, Executor!tick, ExecutorInv,
       Executor!BrowserDriven
  <2>3. Executor!ArtifactKept' /\ calls' \in [Calls -> Call] /\ millis' \in Nat
    BY <2>1 DEF ExecutorInv, Executor!ArtifactKept
  <2> QED BY <2>2, <2>3 DEF ExecutorInv
<1>2. ASSUME NEW c \in Calls,
             Executor!check_input(c) \/ Executor!use_page(c) \/ Executor!poll(c) \/ Executor!put(c) \/ Executor!decide(c)
      PROVE  ExecutorInv'
  BY <1>2, ExecutorUses, ExecutorPolls, ExecutorPuts, ExecutorDecides
<1>3. CASE UNCHANGED Executor!evars
  BY <1>3 DEF Executor!evars, ExecutorInv, Executor!ArtifactKept, Executor!BrowserDriven
<1> QED BY <1>1, <1>2, <1>3, ExecutorBegins DEF Executor!Next

\* Before the first call there is no artifact and no browser on offer without its task.
LEMMA ExecutorStart == Executor!Init => ExecutorInv
<1> SUFFICES ASSUME Executor!Init PROVE ExecutorInv
  OBVIOUS
<1>1. Executor!Fresh \in Call /\ Executor!Fresh.id = 0
  BY DEF Executor!Fresh, Call, Results
<1>2. calls = [c \in Calls |-> Executor!Fresh] /\ millis = 1 /\ browser = FALSE
  BY DEF Executor!Init
<1> QED BY <1>1, <1>2 DEF ExecutorInv, Executor!ArtifactKept, Executor!BrowserDriven

\* A result that names an artifact was returned after the artifact store kept it, and a browser that the manager
\* offers is polled, however calls interleave with launches, failures and shutdowns (BrowserActionExecutor,
\* BrowserManager); for any calls, fields, polls and clock.
THEOREM ArtifactsKept == Executor!Spec => [](Executor!ArtifactKept /\ Executor!BrowserDriven)
<1>1. ExecutorInv => Executor!ArtifactKept /\ Executor!BrowserDriven
  BY DEF ExecutorInv
<1> QED BY <1>1, ExecutorStart, ExecutorStep, PTL DEF Executor!Spec

-----------------------------------------------------------------------------
(* Timers.                                                                 *)
\* A job of a poll is one scheduling of it.
Refs == [id : Jobs, arm : 1 .. MaxArms]
\* What is stored of a job: nothing yet, or the status of its record.
JobStatus == {"Absent", "Pending", "Fired", "Cancelled"}

\* The variables of the scheduler are of the types of the code.
JobTypes ==
  /\ time \in Nat
  /\ jobs \in [Jobs -> [status : JobStatus, due : Nat, arm : 0 .. MaxArms]]
  /\ \A j \in Jobs : jobs[j].arm = 0 => jobs[j] = Times!Absent
  /\ polls \in [Callers -> [listed : SUBSET Refs, due : SUBSET Refs, emitting : SUBSET Refs]]
  /\ \A p \in Callers, job \in Refs : job \in polls[p].listed => jobs[job.id].arm > 0
  /\ notified = [store |-> notified.store, emitted |-> notified.emitted, failed |-> notified.failed,
                 dropped |-> notified.dropped, cancelled |-> notified.cancelled, overlapped |-> notified.overlapped]
  /\ notified.emitted \in [Jobs -> [1 .. MaxArms -> Nat]]

\* A listed job is still what it was when it was listed, and one poller has it.
ListedOk(j) ==
  \A p \in Callers, job \in Refs : job.id = j /\ job \in polls[p].listed =>
    /\ job.arm = jobs[j].arm /\ jobs[j].status = "Pending" /\ jobs[j].due <= time
    /\ \A q \in Callers, other \in Refs : other.id = j /\ other \in polls[q].listed => q = p

\* A marked job was not emitted nor cancelled in that scheduling, is not pending in it, and one poller has it.
DueOk(j) ==
  \A p \in Callers, job \in Refs : job.id = j /\ job \in polls[p].due =>
    /\ job.arm <= jobs[j].arm
    /\ notified.emitted[j][job.arm] = 0 /\ <<j, job.arm>> \notin notified.cancelled
    /\ job.arm = jobs[j].arm => jobs[j].status # "Pending" /\ jobs[j].due <= time
    /\ \A q \in Callers : job \in polls[q].due => q = p

\* What is emitted, per scheduling: none yet while it is pending, and none of those to come.
CountOk(j) ==
  /\ \A arm \in 1 .. MaxArms :
       /\ notified.emitted[j][arm] <= 1
       /\ <<j, arm>> \in notified.cancelled => notified.emitted[j][arm] = 0
       /\ arm > jobs[j].arm \/ (arm = jobs[j].arm /\ jobs[j].status = "Pending") =>
            notified.emitted[j][arm] = 0 /\ <<j, arm>> \notin notified.cancelled
  /\ jobs[j].arm > 0 /\ notified.emitted[j][jobs[j].arm] > 0 => jobs[j].due <= time

\* A fired job was emitted, refused or dropped, or a poller still has it to emit.
FiredOk(j) ==
  jobs[j].status = "Fired" =>
    \/ notified.emitted[j][jobs[j].arm] = 1
    \/ <<j, jobs[j].arm>> \in notified.failed \cup notified.dropped
    \/ \E p \in Callers : [id |-> j, arm |-> jobs[j].arm] \in polls[p].due

\* What holds of a job that nobody touched between a listing and its update.
JobOk(j) == ListedOk(j) /\ DueOk(j) /\ CountOk(j) /\ FiredOk(j)
\* The invariant of the scheduler.
JobsInv == JobTypes /\ \A j \in Jobs \ notified.overlapped : JobOk(j)

\* A job whose scheduling, references and counts stay keeps its part.
LEMMA JobUntouched ==
  ASSUME JobTypes, JobTypes', NEW j \in Jobs, JobOk(j), jobs'[j] = jobs[j], time' >= time,
         \A p \in Callers, job \in Refs : job.id = j /\ job \in polls'[p].listed => job \in polls[p].listed,
         \A p \in Callers, job \in Refs : job.id = j /\ job \in polls'[p].due => job \in polls[p].due,
         \A p \in Callers, job \in Refs :
           job.id = j /\ job \in polls[p].due => job \in polls'[p].due \/ <<j, job.arm>> \in notified'.dropped,
         notified'.emitted[j] = notified.emitted[j],
         \A arm \in 1 .. MaxArms : <<j, arm>> \in notified'.cancelled => <<j, arm>> \in notified.cancelled,
         \A arm \in 1 .. MaxArms : <<j, arm>> \in notified.failed => <<j, arm>> \in notified'.failed,
         \A arm \in 1 .. MaxArms : <<j, arm>> \in notified.dropped => <<j, arm>> \in notified'.dropped
  PROVE  JobOk(j)'
<1>1. jobs[j] \in [status : JobStatus, due : Nat, arm : 0 .. MaxArms] /\ time \in Nat /\ time' \in Nat
  BY DEF JobTypes
<1>2. ListedOk(j)'
  <2> SUFFICES ASSUME NEW p \in Callers, NEW job \in Refs, job.id = j, job \in polls'[p].listed
               PROVE  /\ job.arm = jobs'[j].arm /\ jobs'[j].status = "Pending" /\ jobs'[j].due <= time'
                      /\ \A q \in Callers, other \in Refs : other.id = j /\ other \in polls'[q].listed => q = p
    BY DEF ListedOk
  <2>1. job \in polls[p].listed
    OBVIOUS
  <2>2. /\ job.arm = jobs[j].arm /\ jobs[j].status = "Pending" /\ jobs[j].due <= time
        /\ \A q \in Callers, other \in Refs : other.id = j /\ other \in polls[q].listed => q = p
    BY <2>1 DEF JobOk, ListedOk
  <2>3. jobs'[j].due <= time'
    BY <1>1, <2>2
  <2>4. \A q \in Callers, other \in Refs : other.id = j /\ other \in polls'[q].listed => q = p
    BY <2>2
  <2> QED BY <2>2, <2>3, <2>4
<1>3. DueOk(j)'
  <2> SUFFICES ASSUME NEW p \in Callers, NEW job \in Refs, job.id = j, job \in polls'[p].due
               PROVE  /\ job.arm <= jobs'[j].arm
                      /\ notified'.emitted[j][job.arm] = 0 /\ <<j, job.arm>> \notin notified'.cancelled
                      /\ job.arm = jobs'[j].arm => jobs'[j].status # "Pending" /\ jobs'[j].due <= time'
                      /\ \A q \in Callers : job \in polls'[q].due => q = p
    BY DEF DueOk
  <2>1. job \in polls[p].due
    OBVIOUS
  <2>2. /\ job.arm <= jobs[j].arm
        /\ notified.emitted[j][job.arm] = 0 /\ <<j, job.arm>> \notin notified.cancelled
        /\ job.arm = jobs[j].arm => jobs[j].status # "Pending" /\ jobs[j].due <= time
        /\ \A q \in Callers : job \in polls[q].due => q = p
    BY <2>1 DEF JobOk, DueOk
  <2>3. job.arm = jobs'[j].arm => jobs'[j].due <= time'
    BY <1>1, <2>2
  <2>4. \A q \in Callers : job \in polls'[q].due => q = p
    BY <2>2
  <2>5. job.arm \in 1 .. MaxArms
    BY DEF Refs
  <2>6. notified'.emitted[j][job.arm] = 0 /\ <<j, job.arm>> \notin notified'.cancelled
    BY <2>2, <2>5
  <2> QED BY <2>2, <2>3, <2>4, <2>6
<1>4. CountOk(j)'
  BY <1>1 DEF JobOk, CountOk
<1>5. FiredOk(j)'
  <2> SUFFICES ASSUME jobs[j].status = "Fired"
               PROVE  \/ notified'.emitted[j][jobs[j].arm] = 1
                      \/ <<j, jobs[j].arm>> \in notified'.failed \cup notified'.dropped
                      \/ \E p \in Callers : [id |-> j, arm |-> jobs[j].arm] \in polls'[p].due
    BY DEF FiredOk
  <2>1. jobs[j].arm \in 1 .. MaxArms
    <3>1. jobs[j] # Times!Absent
      BY DEF Times!Absent
    <3> QED BY <1>1, <3>1 DEF JobTypes
  <2>2. [id |-> j, arm |-> jobs[j].arm] \in Refs
    BY <2>1 DEF Refs
  <2> QED BY <2>1, <2>2 DEF JobOk, FiredOk
<1> QED BY <1>2, <1>3, <1>4, <1>5 DEF JobOk

\* No job is scheduled at first.
LEMMA JobsStart == ASSUME MaxArms \in Nat PROVE Times!Init => JobsInv
<1> SUFFICES ASSUME Times!Init PROVE JobsInv
  OBVIOUS
<1>1. /\ time = 0 /\ jobs = [j \in Jobs |-> Times!Absent] /\ polls = [p \in Callers |-> Times!NoPoll]
      /\ notified = [store |-> <<>>, emitted |-> [j \in Jobs |-> [a \in 1 .. MaxArms |-> 0]],
                     failed |-> {}, dropped |-> {}, cancelled |-> {}, overlapped |-> {}]
  BY DEF Times!Init
<1>2. Times!Absent \in [status : JobStatus, due : Nat, arm : 0 .. MaxArms] /\ Times!Absent.arm = 0
        /\ Times!Absent.status = "Absent"
  BY DEF Times!Absent, JobStatus
<1>3. Times!NoPoll \in [listed : SUBSET Refs, due : SUBSET Refs, emitting : SUBSET Refs] /\ Times!NoPoll.listed = {}
        /\ Times!NoPoll.due = {}
  BY DEF Times!NoPoll
<1>4. /\ \A j \in Jobs : jobs[j] = Times!Absent
      /\ \A p \in Callers : polls[p].listed = {} /\ polls[p].due = {}
      /\ \A j \in Jobs, a \in 1 .. MaxArms : notified.emitted[j][a] = 0
      /\ notified.emitted \in [Jobs -> [1 .. MaxArms -> Nat]]
      /\ notified.cancelled = {}
  BY <1>1, <1>3
<1>5. JobTypes
  BY <1>1, <1>2, <1>3, <1>4 DEF JobTypes
<1> QED BY <1>2, <1>4, <1>5 DEF JobsInv, JobOk, ListedOk, DueOk, CountOk, FiredOk

\* Scheduling arms a job once more.
LEMMA JobsSchedule ==
  ASSUME JobsInv, MaxArms \in Nat, MaxTicks \in Nat, NEW j \in Jobs, Times!schedule(j)
  PROVE  JobsInv'
<1> DEFINE hit == {j : p \in {p \in Callers : \E job \in polls[p].listed : job.id = j}}
<1>1. PICK due \in time .. MaxTicks :
         jobs' = [jobs EXCEPT ![j] = [status |-> "Pending", due |-> due, arm |-> jobs[j].arm + 1]]
  BY DEF Times!schedule, JobsInv, JobTypes
<1>2. jobs[j].arm < MaxArms /\ UNCHANGED <<time, polls>>
      /\ notified' = [notified EXCEPT !.overlapped = notified.overlapped \cup hit]
  BY DEF Times!schedule
<1>3. \A p \in Callers : (\E job \in polls[p].listed : job.id = j) => j \in hit
  OBVIOUS
<1> HIDE DEF hit
<1>4. /\ notified'.overlapped = notified.overlapped \cup hit
      /\ notified'.emitted = notified.emitted /\ notified'.failed = notified.failed
      /\ notified'.cancelled = notified.cancelled
      /\ notified' = [store |-> notified'.store, emitted |-> notified'.emitted, failed |-> notified'.failed,
                      dropped |-> notified'.dropped, cancelled |-> notified'.cancelled, overlapped |-> notified'.overlapped]
  BY <1>2 DEF JobsInv, JobTypes
<1>5. due \in Nat /\ jobs[j].arm + 1 \in 1 .. MaxArms /\ time \in Nat /\ jobs[j].arm \in Nat
  BY <1>1, <1>2 DEF JobsInv, JobTypes
<1>6. \A k \in Jobs : jobs'[k] = IF k = j THEN [status |-> "Pending", due |-> due, arm |-> jobs[j].arm + 1] ELSE jobs[k]
  BY <1>1 DEF JobsInv, JobTypes
<1>7. JobTypes'
  <2>1. jobs' \in [Jobs -> [status : JobStatus, due : Nat, arm : 0 .. MaxArms]]
    <3>1. [status |-> "Pending", due |-> due, arm |-> jobs[j].arm + 1] \in [status : JobStatus, due : Nat,
              arm : 0 .. MaxArms]
      BY <1>5 DEF JobStatus
    <3> QED BY <1>1, <3>1 DEF JobsInv, JobTypes
  <2>2. \A q \in Callers, job \in Refs : job \in polls'[q].listed => jobs'[job.id].arm > 0
    <3>1. \A job \in Refs : job.id \in Jobs
      BY DEF Refs
    <3>2. \A q \in Callers, job \in Refs : job \in polls[q].listed => jobs[job.id].arm > 0
      BY DEF JobsInv, JobTypes
    <3> QED BY <1>2, <1>5, <1>6, <3>1, <3>2
  <2>3. \A k \in Jobs : jobs'[k].arm = 0 => jobs'[k] = Times!Absent
    <3>1. \A k \in Jobs : jobs[k].arm = 0 => jobs[k] = Times!Absent
      BY DEF JobsInv, JobTypes
    <3> QED BY <1>5, <1>6, <3>1
  <2> QED BY <1>2, <1>4, <1>5, <1>6, <2>1, <2>2, <2>3 DEF JobsInv, JobTypes
<1>8. ASSUME NEW k \in Jobs \ notified'.overlapped PROVE JobOk(k)'
  <2>0. k \notin notified.overlapped /\ k \notin hit /\ JobOk(k)
    BY <1>4, <1>8 DEF JobsInv
  <2>1. CASE k # j
    BY <1>2, <1>4, <1>5, <1>6, <1>7, <2>0, <2>1, JobUntouched DEF JobsInv
  <2>2. CASE k = j
    <3>1. \A p \in Callers, job \in Refs : job \in polls'[p].listed => job.id # j
      BY <1>2, <1>3, <2>0, <2>2
    <3>2. jobs'[j].status = "Pending" /\ jobs'[j].arm = jobs[j].arm + 1
      BY <1>6
    <3>3. \A p \in Callers, job \in Refs : job.id = j /\ job \in polls'[p].due => job.arm <= jobs[j].arm
            /\ job.arm \in Nat
      <4>1. \A job \in Refs : job.arm \in Nat
        BY DEF Refs
      <4> QED BY <1>2, <2>0, <2>2, <4>1 DEF JobOk, DueOk
    <3>4. DueOk(j)'
      <4>1. \A p \in Callers, job \in Refs : job.id = j /\ job \in polls'[p].due =>
               job.arm < jobs'[j].arm /\ job.arm # jobs'[j].arm
        BY <1>5, <3>2, <3>3
      <4> QED BY <1>2, <1>4, <2>0, <2>2, <4>1, <3>2, <3>3, <1>5 DEF JobOk, DueOk, Refs
    <3>5. CountOk(j)'
      <4>1. \A arm \in 1 .. MaxArms : arm >= jobs'[j].arm => arm > jobs[j].arm
        BY <1>5, <3>2
      <4>2. \A arm \in 1 .. MaxArms : arm >= jobs'[j].arm => notified'.emitted[j][arm] = 0
              /\ <<j, arm>> \notin notified'.cancelled
        BY <1>4, <2>0, <2>2, <4>1 DEF JobOk, CountOk
      <4>3. notified'.emitted[j][jobs'[j].arm] = 0
        <5>1. jobs'[j].arm \in 1 .. MaxArms /\ jobs'[j].arm >= jobs'[j].arm
          BY <1>5, <3>2
        <5> QED BY <4>2, <5>1
      <4> QED BY <1>4, <1>5, <2>0, <2>2, <3>2, <4>2, <4>3 DEF JobOk, CountOk
    <3> QED BY <2>2, <3>1, <3>2, <3>4, <3>5 DEF JobOk, ListedOk, FiredOk
  <2> QED BY <2>1, <2>2
<1> QED BY <1>7, <1>8 DEF JobsInv

\* Cancelling a job that waits notes its arm as cancelled.
LEMMA JobsCancel == ASSUME JobsInv, MaxArms \in Nat, NEW j \in Jobs, Times!cancel(j) PROVE JobsInv'
<1> DEFINE hit == {j : p \in {p \in Callers : \E job \in polls[p].listed : job.id = j}}
           gone == IF jobs[j].status = "Pending" THEN notified.cancelled \cup {<<j, jobs[j].arm>>} ELSE notified.cancelled
           both == notified.overlapped \cup hit
<1>1. /\ jobs[j] # Times!Absent /\ UNCHANGED <<time, polls>>
      /\ notified' = [notified EXCEPT !.cancelled = gone, !.overlapped = both]
  BY DEF Times!cancel
<1>2. \A p \in Callers : (\E job \in polls[p].listed : job.id = j) => j \in both
  OBVIOUS
<1>3. /\ \A k, a : <<k, a>> \in gone => <<k, a>> \in notified.cancelled
           \/ (k = j /\ a = jobs[j].arm /\ jobs[j].status = "Pending")
  OBVIOUS
<1>4. notified.overlapped \subseteq both
  OBVIOUS
<1> HIDE DEF hit, gone, both
<1>5. /\ notified'.overlapped = both /\ notified'.cancelled = gone
      /\ notified'.emitted = notified.emitted /\ notified'.failed = notified.failed
      /\ notified' = [store |-> notified'.store, emitted |-> notified'.emitted, failed |-> notified'.failed,
                      dropped |-> notified'.dropped, cancelled |-> notified'.cancelled, overlapped |-> notified'.overlapped]
  BY <1>1 DEF JobsInv, JobTypes
<1>6. /\ jobs' \in [Jobs -> [status : JobStatus, due : Nat, arm : 0 .. MaxArms]]
      /\ \A k \in Jobs : k # j => jobs'[k] = jobs[k]
      /\ jobs'[j].status = "Cancelled" /\ jobs'[j].arm = jobs[j].arm /\ jobs'[j].due = jobs[j].due
  BY DEF Times!cancel, JobsInv, JobTypes, JobStatus
<1>7. jobs[j].arm \in 1 .. MaxArms
  BY <1>1 DEF JobsInv, JobTypes
<1>8. JobTypes'
  <2>1. \A k \in Jobs : jobs'[k].arm = 0 => jobs'[k] = Times!Absent
    <3>1. \A k \in Jobs : jobs[k].arm = 0 => jobs[k] = Times!Absent
      BY DEF JobsInv, JobTypes
    <3>2. jobs'[j].arm # 0
      BY <1>6, <1>7
    <3> QED BY <1>6, <3>1, <3>2
  <2>2. \A q \in Callers, job \in Refs : job \in polls'[q].listed => jobs'[job.id].arm > 0
    <3>1. \A job \in Refs : job.id \in Jobs
      BY DEF Refs
    <3>2. \A q \in Callers, job \in Refs : job \in polls[q].listed => jobs[job.id].arm > 0
      BY DEF JobsInv, JobTypes
    <3> QED BY <1>1, <1>6, <3>1, <3>2
  <2> QED BY <1>1, <1>5, <1>6, <2>1, <2>2 DEF JobsInv, JobTypes
<1>9. ASSUME NEW k \in Jobs \ notified'.overlapped PROVE JobOk(k)'
  <2>0. k \notin both /\ k \notin notified.overlapped /\ JobOk(k)
    BY <1>4, <1>5, <1>9 DEF JobsInv
  <2>1. CASE k # j
    <3>1. \A arm \in 1 .. MaxArms : <<k, arm>> \in notified'.cancelled => <<k, arm>> \in notified.cancelled
      BY <1>3, <1>5, <2>1
    <3> QED BY <1>1, <1>5, <1>6, <1>8, <2>0, <2>1, <3>1, JobUntouched DEF JobsInv, JobTypes
  <2>2. CASE k = j
    <3>1. \A p \in Callers, job \in Refs : job \in polls'[p].listed => job.id # j
      BY <1>1, <1>2, <2>0, <2>2
    <3>2. DueOk(j)'
      <4> SUFFICES ASSUME NEW p \in Callers, NEW job \in Refs, job.id = j, job \in polls'[p].due
                   PROVE  /\ job.arm <= jobs'[j].arm
                          /\ notified'.emitted[j][job.arm] = 0 /\ <<j, job.arm>> \notin notified'.cancelled
                          /\ job.arm = jobs'[j].arm => jobs'[j].status # "Pending" /\ jobs'[j].due <= time'
                          /\ \A q \in Callers : job \in polls'[q].due => q = p
        BY DEF DueOk
      <4>1. /\ job.arm <= jobs[j].arm
            /\ notified.emitted[j][job.arm] = 0 /\ <<j, job.arm>> \notin notified.cancelled
            /\ job.arm = jobs[j].arm => jobs[j].status # "Pending" /\ jobs[j].due <= time
            /\ \A q \in Callers : job \in polls[q].due => q = p
        BY <1>1, <2>0, <2>2 DEF JobOk, DueOk
      <4>2. <<j, job.arm>> \notin notified'.cancelled
        BY <1>3, <1>5, <4>1
      <4> QED BY <1>1, <1>5, <1>6, <4>1, <4>2
    <3>3. CountOk(j)'
      <4>1. \A arm \in 1 .. MaxArms : <<j, arm>> \in notified'.cancelled => notified'.emitted[j][arm] = 0
        BY <1>3, <1>5, <1>7, <2>0, <2>2 DEF JobOk, CountOk
      <4>2. \A arm \in 1 .. MaxArms : arm > jobs[j].arm => notified'.emitted[j][arm] = 0
              /\ <<j, arm>> \notin notified'.cancelled
        BY <1>3, <1>5, <1>7, <2>0, <2>2 DEF JobOk, CountOk
      <4> QED BY <1>1, <1>5, <1>6, <1>7, <2>0, <2>2, <4>1, <4>2 DEF JobOk, CountOk
    <3> QED BY <2>2, <3>1, <3>2, <3>3, <1>6 DEF JobOk, ListedOk, FiredOk
  <2> QED BY <2>1, <2>2
<1> QED BY <1>8, <1>9 DEF JobsInv

\* A poll lists the jobs that are due.
LEMMA JobsList == ASSUME JobsInv, MaxArms \in Nat, NEW p \in Callers, Times!list(p) PROVE JobsInv'
<1> DEFINE due == {j \in Jobs : Times!is_due(jobs[j])}
           new == {[id |-> j, arm |-> jobs[j].arm] : j \in due}
           both == notified.overlapped \cup {j \in due : \E q \in Callers : \E job \in polls[q].listed : job.id = j}
<1>1. /\ polls[p] = Times!NoPoll /\ UNCHANGED <<time, jobs>>
      /\ polls' = [polls EXCEPT ![p].listed = new]
      /\ notified' = [notified EXCEPT !.overlapped = both]
  BY DEF Times!list
<1>2. polls[p].listed = {} /\ polls[p].due = {} /\ polls[p].emitting = {}
  BY <1>1 DEF Times!NoPoll
<1>3. \A j \in due : j \in Jobs /\ jobs[j].status = "Pending" /\ jobs[j].due <= time /\ jobs[j].arm \in 1 .. MaxArms
  <2>1. \A j \in due : j \in Jobs /\ jobs[j].status = "Pending" /\ jobs[j].due <= time
    BY DEF Times!is_due
  <2>2. \A j \in due : jobs[j] # Times!Absent
    BY <2>1 DEF Times!Absent
  <2> QED BY <2>1, <2>2 DEF JobsInv, JobTypes
<1>4. new \subseteq Refs
  BY <1>3 DEF Refs
<1>5. \A job \in Refs : job \in new => job.id \in due /\ job.arm = jobs[job.id].arm
  OBVIOUS
<1>6. \A j \in due, q \in Callers, job \in Refs : job.id = j /\ job \in polls[q].listed => j \in both
  OBVIOUS
<1>7. notified.overlapped \subseteq both
  OBVIOUS
<1> HIDE DEF due, new, both
<1>8. /\ notified'.overlapped = both /\ notified'.cancelled = notified.cancelled
      /\ notified'.emitted = notified.emitted /\ notified'.failed = notified.failed
      /\ notified' = [store |-> notified'.store, emitted |-> notified'.emitted, failed |-> notified'.failed,
                      dropped |-> notified'.dropped, cancelled |-> notified'.cancelled, overlapped |-> notified'.overlapped]
  BY <1>1 DEF JobsInv, JobTypes
<1>9. /\ polls' \in [Callers -> [listed : SUBSET Refs, due : SUBSET Refs, emitting : SUBSET Refs]]
      /\ polls'[p].listed = new /\ polls'[p].due = polls[p].due
      /\ \A q \in Callers : q # p => polls'[q] = polls[q]
  BY <1>1, <1>4 DEF JobsInv, JobTypes
<1>10. JobTypes'
  <2>1. \A q \in Callers, job \in Refs : job \in polls'[q].listed => jobs'[job.id].arm > 0
    <3>1. \A job \in Refs : job \in new => jobs[job.id].arm > 0
      BY <1>3, <1>5
    <3>2. \A q \in Callers, job \in Refs : job \in polls[q].listed => jobs[job.id].arm > 0
      BY DEF JobsInv, JobTypes
    <3> QED BY <1>1, <1>9, <3>1, <3>2
  <2> QED BY <1>1, <1>8, <1>9, <2>1 DEF JobsInv, JobTypes
<1>11. ASSUME NEW k \in Jobs \ notified'.overlapped PROVE JobOk(k)'
  <2>0. k \notin both /\ k \notin notified.overlapped /\ JobOk(k)
    BY <1>7, <1>8, <1>11 DEF JobsInv
  <2>1. CASE k \notin due
    <3>1. \A q \in Callers, job \in Refs : job.id = k /\ job \in polls'[q].listed => job \in polls[q].listed
      BY <1>5, <1>9, <2>1
    <3>2. \A q \in Callers : polls'[q].due = polls[q].due
      BY <1>9
    <3>3. time' >= time
      BY <1>1 DEF JobsInv, JobTypes
    <3> QED BY <1>1, <1>8, <1>10, <2>0, <3>1, <3>2, <3>3, JobUntouched DEF JobsInv
  <2>2. CASE k \in due
    <3>1. \A q \in Callers, job \in Refs : job.id = k /\ job \in polls'[q].listed => q = p /\ job \in new
      BY <1>6, <1>9, <2>0, <2>2
    <3>2. ListedOk(k)'
      BY <1>1, <1>3, <1>5, <2>2, <3>1 DEF ListedOk
    <3>3. \A q \in Callers : polls'[q].due = polls[q].due
      BY <1>9
    <3> QED BY <1>1, <1>8, <2>0, <3>2, <3>3 DEF JobOk, DueOk, CountOk, FiredOk
  <2> QED BY <2>1, <2>2
<1> QED BY <1>10, <1>11 DEF JobsInv

\* A poll marks the jobs it still finds due as fired and will notify of them.
LEMMA JobsFire == ASSUME JobsInv, MaxArms \in Nat, NEW p \in Callers, Times!mark_fired(p) PROVE JobsInv'
<1>1. PICK job \in polls[p].listed :
         /\ jobs' = [jobs EXCEPT ![job.id].status = "Fired"]
         /\ polls' = [polls EXCEPT ![p].listed = @ \ {job}, ![p].due = @ \cup {job}]
  BY DEF Times!mark_fired
<1> DEFINE j == job.id
<1>2. job \in Refs /\ j \in Jobs /\ job.arm \in 1 .. MaxArms /\ UNCHANGED <<time, notified>>
  BY <1>1 DEF Times!mark_fired, JobsInv, JobTypes, Refs
<1>3. /\ jobs' \in [Jobs -> [status : JobStatus, due : Nat, arm : 0 .. MaxArms]]
      /\ \A k \in Jobs : k # j => jobs'[k] = jobs[k]
      /\ jobs'[j].status = "Fired" /\ jobs'[j].arm = jobs[j].arm /\ jobs'[j].due = jobs[j].due
  <2> DEFINE Job == [status : JobStatus, due : Nat, arm : 0 .. MaxArms]
             new == [jobs[j] EXCEPT !.status = "Fired"]
  <2>1. jobs \in [Jobs -> Job] /\ "Fired" \in JobStatus
    BY DEF JobsInv, JobTypes, JobStatus
  <2>2. jobs' = [jobs EXCEPT ![j] = new] /\ j \in Jobs
    BY <1>1, <1>2
  <2> HIDE DEF j
  <2>3. new \in Job /\ new.status = "Fired" /\ new.arm = jobs[j].arm /\ new.due = jobs[j].due
    <3>1. jobs[j] \in Job
      BY <2>1, <2>2
    <3> QED BY <2>1, <3>1
  <2> HIDE DEF Job, new
  <2>4. jobs' \in [Jobs -> Job] /\ jobs'[j] = new /\ \A k \in Jobs : k # j => jobs'[k] = jobs[k]
    BY <2>1, <2>2, <2>3
  <2> QED BY <2>3, <2>4 DEF Job
<1>4. /\ polls' \in [Callers -> [listed : SUBSET Refs, due : SUBSET Refs, emitting : SUBSET Refs]]
      /\ polls'[p].listed = polls[p].listed \ {job} /\ polls'[p].due = polls[p].due \cup {job}
      /\ \A q \in Callers : q # p => polls'[q] = polls[q]
  <2> DEFINE t == [polls EXCEPT ![p].listed = polls[p].listed \ {job}]
             u == [t EXCEPT ![p].due = t[p].due \cup {job}]
  <2>1. polls' = u
    BY <1>1 DEF JobsInv, JobTypes
  <2>2. /\ t \in [Callers -> [listed : SUBSET Refs, due : SUBSET Refs, emitting : SUBSET Refs]]
        /\ t[p].listed = polls[p].listed \ {job} /\ t[p].due = polls[p].due
        /\ \A q \in Callers : q # p => t[q] = polls[q]
    BY DEF JobsInv, JobTypes
  <2> HIDE DEF t
  <2>3. /\ u \in [Callers -> [listed : SUBSET Refs, due : SUBSET Refs, emitting : SUBSET Refs]]
        /\ u[p].listed = t[p].listed /\ u[p].due = t[p].due \cup {job}
        /\ \A q \in Callers : q # p => u[q] = t[q]
    BY <1>2, <2>2
  <2> QED BY <2>1, <2>2, <2>3
<1> HIDE DEF j
<1>5. \A k \in Jobs : jobs[k].arm = 0 => jobs[k] = Times!Absent
  BY DEF JobsInv, JobTypes
<1>6. jobs[j].arm > 0
  BY <1>1, <1>2 DEF JobsInv, JobTypes, j
<1>7. JobTypes'
  <2>1. \A k \in Jobs : jobs'[k].arm = jobs[k].arm
    BY <1>3
  <2>2. \A k \in Jobs : jobs'[k].arm = 0 => jobs'[k] = Times!Absent
    BY <1>3, <1>5, <1>6
  <2>3. \A q \in Callers : polls'[q].listed \subseteq polls[q].listed
    BY <1>4
  <2>4. \A q \in Callers, other \in Refs : other \in polls'[q].listed => jobs'[other.id].arm > 0
    <3>1. \A other \in Refs : other.id \in Jobs
      BY DEF Refs
    <3> QED BY <2>1, <2>3, <3>1 DEF JobsInv, JobTypes
  <2> QED BY <1>2, <1>3, <1>4, <2>2, <2>4 DEF JobsInv, JobTypes
<1>8. time' >= time
  BY <1>2 DEF JobsInv, JobTypes
<1>9. ASSUME NEW k \in Jobs \ notified'.overlapped PROVE JobOk(k)'
  <2>0. k \notin notified.overlapped /\ JobOk(k)
    BY <1>2, <1>9 DEF JobsInv
  <2>1. CASE k # j
    <3>1. /\ \A q \in Callers, other \in Refs : other.id = k /\ other \in polls'[q].listed => other \in polls[q].listed
          /\ \A q \in Callers, other \in Refs : other.id = k => (other \in polls'[q].due <=> other \in polls[q].due)
      BY <1>4, <2>1 DEF j
    <3> QED BY <1>2, <1>3, <1>7, <1>8, <2>0, <2>1, <3>1, JobUntouched DEF JobsInv
  <2>2. CASE k = j
    <3>1. /\ job.arm = jobs[j].arm /\ jobs[j].status = "Pending" /\ jobs[j].due <= time
          /\ \A q \in Callers, other \in Refs : other.id = j /\ other \in polls[q].listed => q = p
      BY <1>1, <1>2, <2>0, <2>2 DEF JobOk, ListedOk, j
    <3>2. \A q \in Callers, other \in Refs : other.id = j /\ other \in polls'[q].listed => other = job
      <4>1. \A other \in Refs : other = [id |-> other.id, arm |-> other.arm]
        BY DEF Refs
      <4> SUFFICES ASSUME NEW q \in Callers, NEW other \in Refs, other.id = j, other \in polls'[q].listed
        PROVE other = job
        OBVIOUS
      <4>2. other \in polls[q].listed
        BY <1>4
      <4>3. other.arm = jobs[j].arm
        BY <4>2, <2>0, <2>2 DEF JobOk, ListedOk
      <4> QED BY <4>1, <4>3, <3>1, <1>2 DEF j
    <3>3. \A q \in Callers, other \in Refs : other.id = j => other \notin polls'[q].listed
      BY <1>4, <3>1, <3>2
    <3>4. notified.emitted[j][job.arm] = 0 /\ <<j, job.arm>> \notin notified.cancelled
      BY <1>2, <2>0, <2>2, <3>1 DEF JobOk, CountOk
    <3>5. DueOk(j)'
      <4> SUFFICES ASSUME NEW q \in Callers, NEW other \in Refs, other.id = j, other \in polls'[q].due
                   PROVE  /\ other.arm <= jobs'[j].arm
                          /\ notified'.emitted[j][other.arm] = 0 /\ <<j, other.arm>> \notin notified'.cancelled
                          /\ other.arm = jobs'[j].arm => jobs'[j].status # "Pending" /\ jobs'[j].due <= time'
                          /\ \A r \in Callers : other \in polls'[r].due => r = q
        BY DEF DueOk
      <4>1. jobs[j].arm \in Nat
        BY <1>2 DEF JobsInv, JobTypes, j
      <4>2. CASE other = job
        <5>1. \A r \in Callers : job \notin polls[r].due
          BY <1>2, <2>0, <2>2, <3>1 DEF JobOk, DueOk, j
        <5>2. q = p /\ \A r \in Callers : other \in polls'[r].due => r = q
          BY <1>4, <4>2, <5>1
        <5>3. other.arm = jobs'[j].arm /\ jobs'[j].arm = jobs[j].arm /\ jobs'[j].status # "Pending"
                /\ jobs'[j].due <= time'
          BY <1>2, <1>3, <3>1, <4>2
        <5> QED BY <1>2, <3>1, <3>4, <4>1, <4>2, <5>2, <5>3
      <4>3. CASE other # job
        <5>1. other \in polls[q].due /\ \A r \in Callers : other \in polls'[r].due => other \in polls[r].due
          BY <1>4, <4>3
        <5> QED BY <1>2, <1>3, <2>0, <2>2, <3>1, <5>1 DEF JobOk, DueOk
      <4> QED BY <4>2, <4>3
    <3>6. CountOk(j)'
      BY <1>2, <1>3, <2>0, <2>2 DEF JobOk, CountOk
    <3>7. FiredOk(j)'
      <4>1. [id |-> j, arm |-> jobs'[j].arm] = job
        BY <1>2, <1>3, <3>1 DEF Refs, j
      <4> QED BY <1>4, <4>1 DEF FiredOk
    <3> QED BY <2>2, <3>3, <3>5, <3>6, <3>7 DEF JobOk, ListedOk
  <2> QED BY <2>1, <2>2
<1> QED BY <1>7, <1>9 DEF JobsInv

\* A notification is emitted, or the sink refuses it.
LEMMA JobsEmit == ASSUME JobsInv, MaxArms \in Nat, NEW p \in Callers, Times!emit(p) PROVE JobsInv'
<1>1. PICK job \in polls[p].due, sent \in BOOLEAN :
         /\ polls' = [polls EXCEPT ![p].due = @ \ {job}, ![p].emitting = {job}]
         /\ notified' = [notified EXCEPT !.emitted[job.id][job.arm] = IF sent THEN @ + 1 ELSE @,
                                         !.failed = IF sent THEN @ ELSE @ \cup {<<job.id, job.arm>>}]
  BY DEF Times!emit
<1> DEFINE j == job.id
           a == job.arm
           turned == IF sent THEN notified.failed ELSE notified.failed \cup {<<j, a>>}
           n == IF sent THEN notified.emitted[j][a] + 1 ELSE notified.emitted[j][a]
           counts == [notified.emitted EXCEPT ![j][a] = n]
<1>2. job \in Refs /\ j \in Jobs /\ a \in 1 .. MaxArms /\ UNCHANGED <<time, jobs>> /\ job = [id |-> j, arm |-> a]
  BY <1>1 DEF Times!emit, JobsInv, JobTypes, Refs
<1>3. n \in Nat /\ (sent => n = notified.emitted[j][a] + 1) /\ (~sent => n = notified.emitted[j][a])
  BY <1>2 DEF JobsInv, JobTypes
<1>4. /\ \A x : x \in notified.failed => x \in turned
      /\ ~sent => <<j, a>> \in turned
  OBVIOUS
<1>5. notified' = [notified EXCEPT !.emitted = counts, !.failed = turned]
  BY <1>1, <1>2 DEF JobsInv, JobTypes
<1>6. /\ polls' \in [Callers -> [listed : SUBSET Refs, due : SUBSET Refs, emitting : SUBSET Refs]]
      /\ \A q \in Callers : polls'[q].listed = polls[q].listed
      /\ polls'[p].due = polls[p].due \ {job}
      /\ \A q \in Callers : q # p => polls'[q] = polls[q]
  <2> DEFINE t == [polls EXCEPT ![p].due = polls[p].due \ {job}]
             u == [t EXCEPT ![p].emitting = {job}]
  <2>1. polls' = u
    BY <1>1 DEF JobsInv, JobTypes
  <2>2. /\ t \in [Callers -> [listed : SUBSET Refs, due : SUBSET Refs, emitting : SUBSET Refs]]
        /\ t[p].due = polls[p].due \ {job} /\ t[p].listed = polls[p].listed
        /\ \A q \in Callers : q # p => t[q] = polls[q]
    BY DEF JobsInv, JobTypes
  <2> HIDE DEF t
  <2>3. /\ u \in [Callers -> [listed : SUBSET Refs, due : SUBSET Refs, emitting : SUBSET Refs]]
        /\ u[p].listed = t[p].listed /\ u[p].due = t[p].due
        /\ \A q \in Callers : q # p => u[q] = t[q]
    BY <1>2, <2>2
  <2> QED BY <2>1, <2>2, <2>3
<1> HIDE DEF n, turned
<1>7. /\ counts \in [Jobs -> [1 .. MaxArms -> Nat]] /\ counts[j][a] = n
      /\ \A k \in Jobs : k # j => counts[k] = notified.emitted[k]
      /\ \A b \in 1 .. MaxArms : b # a => counts[j][b] = notified.emitted[j][b]
  BY <1>2, <1>3 DEF JobsInv, JobTypes
<1> HIDE DEF counts, j, a
<1>8. /\ notified'.emitted = counts /\ notified'.failed = turned /\ notified'.dropped = notified.dropped
      /\ notified'.overlapped = notified.overlapped /\ notified'.cancelled = notified.cancelled
      /\ notified' = [store |-> notified'.store, emitted |-> notified'.emitted, failed |-> notified'.failed,
                      dropped |-> notified'.dropped, cancelled |-> notified'.cancelled, overlapped |-> notified'.overlapped]
  BY <1>5 DEF JobsInv, JobTypes
<1>9. JobTypes' /\ time' >= time
  BY <1>2, <1>6, <1>7, <1>8 DEF JobsInv, JobTypes
<1>10. ASSUME NEW k \in Jobs \ notified'.overlapped PROVE JobOk(k)'
  <2>0. k \notin notified.overlapped /\ JobOk(k)
    BY <1>8, <1>10 DEF JobsInv
  <2>1. CASE k # j
    <3>1. \A q \in Callers, other \in Refs : other.id = k => (other \in polls'[q].due <=> other \in polls[q].due)
      BY <1>6, <2>1 DEF j
    <3> QED BY <1>2, <1>4, <1>6, <1>7, <1>8, <1>9, <2>0, <2>1, <3>1, JobUntouched DEF JobsInv
  <2>2. CASE k = j
    <3>1. /\ a <= jobs[j].arm /\ notified.emitted[j][a] = 0 /\ <<j, a>> \notin notified.cancelled
          /\ a = jobs[j].arm => jobs[j].status # "Pending" /\ jobs[j].due <= time
          /\ \A q \in Callers : job \in polls[q].due => q = p
      BY <1>1, <1>2, <2>0, <2>2 DEF JobOk, DueOk, j, a
    <3>2. n \in {0, 1} /\ (sent => n = 1) /\ jobs[j].arm \in Nat
      BY <1>2, <1>3, <3>1 DEF JobsInv, JobTypes
    <3>3. \A q \in Callers, other \in Refs : other.id = j /\ other \in polls'[q].due => other \in polls[q].due
            /\ other.arm # a
      <4> SUFFICES ASSUME NEW q \in Callers, NEW other \in Refs, other.id = j, other \in polls'[q].due
                   PROVE  other \in polls[q].due /\ other # job
        BY <1>2 DEF Refs
      <4> QED BY <1>6, <3>1
    <3>4. ListedOk(j)'
      BY <1>2, <1>6, <2>0, <2>2 DEF JobOk, ListedOk
    <3>5. DueOk(j)'
      <4> SUFFICES ASSUME NEW q \in Callers, NEW other \in Refs, other.id = j, other \in polls'[q].due
                   PROVE  /\ other.arm <= jobs'[j].arm
                          /\ notified'.emitted[j][other.arm] = 0 /\ <<j, other.arm>> \notin notified'.cancelled
                          /\ other.arm = jobs'[j].arm => jobs'[j].status # "Pending" /\ jobs'[j].due <= time'
                          /\ \A r \in Callers : other \in polls'[r].due => r = q
        BY DEF DueOk
      <4>1. other \in polls[q].due /\ other.arm # a /\ other.arm \in 1 .. MaxArms
        BY <3>3 DEF Refs
      <4>2. /\ other.arm <= jobs[j].arm
            /\ notified.emitted[j][other.arm] = 0 /\ <<j, other.arm>> \notin notified.cancelled
            /\ other.arm = jobs[j].arm => jobs[j].status # "Pending" /\ jobs[j].due <= time
            /\ \A r \in Callers : other \in polls[r].due => r = q
        BY <4>1, <2>0, <2>2 DEF JobOk, DueOk
      <4> QED BY <1>2, <1>7, <1>8, <3>3, <4>1, <4>2
    <3>6. CountOk(j)'
      <4>1. /\ \A arm \in 1 .. MaxArms :
                 /\ notified.emitted[j][arm] <= 1
                 /\ <<j, arm>> \in notified.cancelled => notified.emitted[j][arm] = 0
                 /\ arm > jobs[j].arm \/ (arm = jobs[j].arm /\ jobs[j].status = "Pending") =>
                      notified.emitted[j][arm] = 0 /\ <<j, arm>> \notin notified.cancelled
            /\ jobs[j].arm > 0 /\ notified.emitted[j][jobs[j].arm] > 0 => jobs[j].due <= time
        BY <2>0, <2>2 DEF JobOk, CountOk
      <4>2. ASSUME NEW arm \in 1 .. MaxArms
            PROVE  /\ counts[j][arm] <= 1
                   /\ <<j, arm>> \in notified.cancelled => counts[j][arm] = 0
                   /\ arm > jobs[j].arm \/ (arm = jobs[j].arm /\ jobs[j].status = "Pending") =>
                        counts[j][arm] = 0 /\ <<j, arm>> \notin notified.cancelled
        <5>1. CASE arm = a
          BY <5>1, <1>7, <3>1, <3>2
        <5>2. CASE arm # a
          BY <5>2, <1>7, <4>1
        <5> QED BY <5>1, <5>2
      <4>3. ASSUME jobs[j].arm > 0, counts[j][jobs[j].arm] > 0 PROVE jobs[j].due <= time
        <5>1. jobs[j].arm \in 1 .. MaxArms
          BY <1>2, <4>3 DEF JobsInv, JobTypes
        <5> QED BY <1>7, <3>1, <4>1, <4>3, <5>1
      <4> QED BY <1>2, <1>8, <4>2, <4>3 DEF CountOk
    <3>7. FiredOk(j)'
      <4> SUFFICES ASSUME jobs[j].status = "Fired"
                   PROVE  \/ counts[j][jobs[j].arm] = 1
                          \/ <<j, jobs[j].arm>> \in turned \cup notified.dropped
                          \/ \E q \in Callers : [id |-> j, arm |-> jobs[j].arm] \in polls'[q].due
        BY <1>2, <1>8 DEF FiredOk
      <4>1. CASE jobs[j].arm = a
        BY <4>1, <1>3, <1>4, <1>7, <3>1, <3>2
      <4>2. CASE jobs[j].arm # a
        <5>1. jobs[j].arm \in 1 .. MaxArms
          <6>1. jobs[j].arm >= 1
            BY <1>2, <3>1, <3>2
          <6> QED BY <1>2, <6>1 DEF JobsInv, JobTypes
        <5>2. [id |-> j, arm |-> jobs[j].arm] # job
          BY <4>2, <1>2
        <5> QED BY <4>2, <5>1, <5>2, <1>4, <1>6, <1>7, <2>0, <2>2 DEF JobOk, FiredOk
      <4> QED BY <4>1, <4>2
    <3> QED BY <2>2, <3>4, <3>5, <3>6, <3>7 DEF JobOk
  <2> QED BY <2>1, <2>2
<1> QED BY <1>9, <1>10 DEF JobsInv

\* A call is dropped: what it had to emit is dropped with it.
LEMMA JobsDrop == ASSUME JobsInv, MaxArms \in Nat, NEW p \in Callers, Times!drop_poll(p) PROVE JobsInv'
<1> DEFINE more == notified.dropped \cup {<<job.id, job.arm>> : job \in polls[p].due}
<1>1. /\ polls' = [polls EXCEPT ![p] = Times!NoPoll]
      /\ notified' = [notified EXCEPT !.dropped = more] /\ UNCHANGED <<time, jobs>>
  BY DEF Times!drop_poll, JobsInv, JobTypes
<1>2. /\ notified.dropped \subseteq more
      /\ \A job \in Refs : job \in polls[p].due => <<job.id, job.arm>> \in more
  OBVIOUS
<1> HIDE DEF more
<1>3. /\ notified'.emitted = notified.emitted /\ notified'.failed = notified.failed
      /\ notified'.dropped = more /\ notified'.overlapped = notified.overlapped
      /\ notified'.cancelled = notified.cancelled
      /\ notified' = [store |-> notified'.store, emitted |-> notified'.emitted, failed |-> notified'.failed,
                      dropped |-> notified'.dropped, cancelled |-> notified'.cancelled,
                      overlapped |-> notified'.overlapped]
  BY <1>1 DEF JobsInv, JobTypes
<1>4. /\ polls' \in [Callers -> [listed : SUBSET Refs, due : SUBSET Refs, emitting : SUBSET Refs]]
      /\ polls'[p].listed = {} /\ polls'[p].due = {}
      /\ \A q \in Callers : q # p => polls'[q] = polls[q]
  BY <1>1 DEF Times!NoPoll, JobsInv, JobTypes
<1>5. JobTypes' /\ time' >= time
  BY <1>1, <1>3, <1>4 DEF JobsInv, JobTypes
<1>6. ASSUME NEW k \in Jobs \ notified'.overlapped PROVE JobOk(k)'
  <2>1. /\ \A q \in Callers, job \in Refs : job.id = k /\ job \in polls'[q].listed => job \in polls[q].listed
        /\ \A q \in Callers, job \in Refs : job.id = k /\ job \in polls'[q].due => job \in polls[q].due
    BY <1>4
  <2>2. \A q \in Callers, job \in Refs :
          job.id = k /\ job \in polls[q].due => job \in polls'[q].due \/ <<k, job.arm>> \in notified'.dropped
    BY <1>2, <1>3, <1>4
  <2>3. \A arm \in 1 .. MaxArms : <<k, arm>> \in notified.dropped => <<k, arm>> \in notified'.dropped
    BY <1>2, <1>3
  <2>4. JobOk(k) /\ JobTypes
    BY <1>3, <1>6 DEF JobsInv
  <2> QED BY <1>1, <1>3, <1>5, <2>1, <2>2, <2>3, <2>4, JobUntouched
<1> QED BY <1>5, <1>6 DEF JobsInv

\* Steps that leave the jobs and what the polls hold of them alone keep the invariant.
LEMMA JobsRest ==
  ASSUME JobsInv, UNCHANGED jobs, time' \in Nat, time' >= time,
         polls' \in [Callers -> [listed : SUBSET Refs, due : SUBSET Refs, emitting : SUBSET Refs]],
         \A p \in Callers : polls'[p].listed = polls[p].listed /\ polls'[p].due = polls[p].due,
         notified' = notified \/ \E s : notified' = [notified EXCEPT !.store = s]
  PROVE  JobsInv'
<1>1. /\ notified'.emitted = notified.emitted /\ notified'.failed = notified.failed
      /\ notified'.dropped = notified.dropped /\ notified'.overlapped = notified.overlapped /\ notified'.cancelled = notified.cancelled
      /\ notified' = [store |-> notified'.store, emitted |-> notified'.emitted, failed |-> notified'.failed,
                      dropped |-> notified'.dropped, cancelled |-> notified'.cancelled, overlapped |-> notified'.overlapped]
  BY DEF JobsInv, JobTypes
<1>2. JobTypes'
  BY <1>1 DEF JobsInv, JobTypes
<1> QED BY <1>1, <1>2, JobUntouched DEF JobsInv

\* Every step keeps the invariant of the scheduler.
LEMMA JobsStep == ASSUME MaxArms \in Nat, MaxTicks \in Nat PROVE JobsInv /\ [Times!Next]_(Times!ivars) => JobsInv'
<1> SUFFICES ASSUME JobsInv, [Times!Next]_(Times!ivars) PROVE JobsInv'
  OBVIOUS
<1>0. time \in Nat /\ polls \in [Callers -> [listed : SUBSET Refs, due : SUBSET Refs, emitting : SUBSET Refs]]
  BY DEF JobsInv, JobTypes
<1>1. ASSUME NEW j \in Jobs, Times!schedule(j) \/ Times!cancel(j) \/ Times!mark_read(j) PROVE JobsInv'
  <2>1. CASE Times!mark_read(j)
    <3>1. notified' = [notified EXCEPT !.store = [notified.store EXCEPT ![j] = "read"]]
      BY <2>1 DEF Times!mark_read, JobsInv, JobTypes
    <3>2. \E s : notified' = [notified EXCEPT !.store = s]
      BY <3>1
    <3>3. UNCHANGED <<time, jobs, polls>>
      BY <2>1 DEF Times!mark_read
    <3>4. time' >= time
      BY <1>0, <3>3
    <3> QED BY <1>0, <3>2, <3>3, <3>4, JobsRest
  <2> QED BY <1>1, <2>1, JobsSchedule, JobsCancel
<1>2. ASSUME NEW p \in Callers, Times!list(p) \/ Times!mark_fired(p) \/ Times!emit(p) \/ Times!save_notification(p)
                                  \/ Times!drop_poll(p)
      PROVE  JobsInv'
  <2>1. CASE Times!save_notification(p)
    <3>1. PICK job \in polls[p].emitting :
            /\ polls' = [polls EXCEPT ![p].emitting = {}]
            /\ \E saved \in BOOLEAN :
                 notified' = [notified EXCEPT !.store = IF saved THEN Times!with(@, job.id, "unread") ELSE @]
      BY <2>1 DEF Times!save_notification
    <3>2. \E s : notified' = [notified EXCEPT !.store = s]
      BY <3>1
    <3>3. /\ polls' \in [Callers -> [listed : SUBSET Refs, due : SUBSET Refs, emitting : SUBSET Refs]]
          /\ \A q \in Callers : polls'[q].listed = polls[q].listed /\ polls'[q].due = polls[q].due
      BY <1>0, <3>1
    <3>4. time' \in Nat /\ time' >= time /\ UNCHANGED jobs
      BY <1>0, <2>1 DEF Times!save_notification
    <3> QED BY <3>2, <3>3, <3>4, JobsRest
  <2> QED BY <1>2, <2>1, JobsList, JobsFire, JobsEmit, JobsDrop
<1>3. CASE Times!advance \/ UNCHANGED <<time, jobs, polls, notified>>
  <2>1. time' \in Nat /\ time' >= time /\ UNCHANGED <<jobs, polls, notified>>
    BY <1>0, <1>3 DEF Times!advance
  <2> QED BY <1>0, <2>1, JobsRest
<1>4. CASE Times!JobNext
  BY <1>1, <1>2, <1>3, <1>4 DEF Times!JobNext
<1>5. CASE Times!ReminderNext \/ Times!StoreNext \/ UNCHANGED Times!ivars
  BY <1>3, <1>5 DEF Times!ReminderNext, Times!StoreNext, Times!jobVars, Times!ivars
<1> QED BY <1>4, <1>5 DEF Times!Next

\* Actions answer with what somebody wrote since they began, and no reminder is due.
Marks == {"Pending", "Completed", "Cancelled", "Snoozed"}
\* The invariant of the reminders.
RemindersInv ==
  /\ DOMAIN reminders \subseteq Reminders /\ \A r \in DOMAIN reminders : reminders[r] \in Marks
  /\ actions \in [Callers -> {<<>>} \cup [of : Reminders, wrote : SUBSET Marks]]
  /\ \A p \in Callers : actions[p] # <<>> =>
       actions[p].of \in DOMAIN reminders /\ reminders[actions[p].of] \in actions[p].wrote

\* Every step keeps the invariant of the reminders.
LEMMA RemindersStep == RemindersInv /\ [Times!Next]_(Times!ivars) => RemindersInv'
<1> SUFFICES ASSUME RemindersInv, [Times!Next]_(Times!ivars) PROVE RemindersInv'
  OBVIOUS
<1>1. ASSUME NEW r \in Reminders \ DOMAIN reminders, Times!create(r) PROVE RemindersInv'
  <2>1. reminders' = Times!with(reminders, r, "Pending") /\ actions' = actions
    BY <1>1 DEF Times!create
  <2>2. /\ DOMAIN reminders' = DOMAIN reminders \cup {r} /\ reminders'[r] = "Pending"
        /\ \A x \in DOMAIN reminders : reminders'[x] = reminders[x]
    BY <1>1, <2>1 DEF Times!with
  <2> QED BY <2>1, <2>2 DEF RemindersInv, Marks
<1>2. ASSUME NEW p \in Callers, NEW r \in Reminders, Times!update_status(p, r) PROVE RemindersInv'
  <2>1. PICK status \in {"Completed", "Cancelled", "Snoozed"} :
         /\ reminders' = Times!with(reminders, r, status)
         /\ actions' = [q \in Callers |->
                CASE q = p -> [of |-> r, wrote |-> {status}]
                  [] q # p /\ actions[q] # <<>> /\ actions[q].of = r -> [actions[q] EXCEPT !.wrote = @ \cup {status}]
                  [] OTHER -> actions[q]]
    BY <1>2 DEF Times!update_status
  <2>2. r \in DOMAIN reminders
    BY <1>2 DEF Times!update_status
  <2>3. /\ DOMAIN reminders' = DOMAIN reminders /\ reminders'[r] = status /\ status \in Marks
        /\ \A x \in DOMAIN reminders : x # r => reminders'[x] = reminders[x]
    BY <2>1, <2>2 DEF Times!with, Marks
  <2>4. ASSUME NEW q \in Callers
        PROVE  /\ actions'[q] \in {<<>>} \cup [of : Reminders, wrote : SUBSET Marks]
               /\ actions'[q] # <<>> =>
                    actions'[q].of \in DOMAIN reminders' /\ reminders'[actions'[q].of] \in actions'[q].wrote
    <3>1. CASE q = p
      <4>1. actions'[q] = [of |-> r, wrote |-> {status}]
        BY <2>1, <3>1
      <4> QED BY <4>1, <2>2, <2>3
    <3>2. CASE q # p /\ actions[q] # <<>> /\ actions[q].of = r
      <4>1. actions'[q] = [actions[q] EXCEPT !.wrote = actions[q].wrote \cup {status}]
        BY <2>1, <3>2
      <4>2. actions[q] \in [of : Reminders, wrote : SUBSET Marks]
        BY <3>2 DEF RemindersInv
      <4>3. actions'[q].of = r /\ actions'[q].wrote = actions[q].wrote \cup {status}
            /\ actions'[q] \in [of : Reminders, wrote : SUBSET Marks]
        BY <4>1, <4>2, <3>2, <2>3
      <4> QED BY <4>3, <2>2, <2>3
    <3>3. CASE q # p /\ ~(actions[q] # <<>> /\ actions[q].of = r)
      <4>1. actions'[q] = actions[q]
        BY <2>1, <3>3
      <4> QED BY <4>1, <2>3, <3>3 DEF RemindersInv
    <3> QED BY <3>1, <3>2, <3>3
  <2>5. actions' \in [Callers -> {<<>>} \cup [of : Reminders, wrote : SUBSET Marks]]
    BY <2>1, <2>4
  <2> QED BY <2>3, <2>4, <2>5 DEF RemindersInv
<1>3. ASSUME NEW p \in Callers, Times!read_back(p) PROVE RemindersInv'
  BY <1>3 DEF Times!read_back, RemindersInv
<1>4. CASE Times!JobNext \/ Times!StoreNext \/ UNCHANGED Times!ivars
  BY <1>4 DEF Times!JobNext, Times!StoreNext, Times!reminderVars, Times!ivars, RemindersInv
<1> QED BY <1>1, <1>2, <1>3, <1>4 DEF Times!Next, Times!ReminderNext

\* The file is the map when no save is under way and none was cut short: a file that is being written is cut.
StoreInv ==
  /\ store = [memory |-> store.memory, disk |-> store.disk, cut |-> store.cut, torn |-> store.torn, open |-> store.open]
  /\ saves \in [Callers -> {"idle", "changed", "writing"}]
  /\ \A p \in Callers : saves[p] = "writing" => store.cut = TRUE
  /\ \A p, q \in Callers : saves[p] = "writing" /\ saves[q] = "writing" => p = q
  /\ ~store.open => \A p \in Callers : saves[p] = "idle"
  /\ (\A p \in Callers : saves[p] = "idle") /\ store.open /\ ~store.cut => store.disk = store.memory

\* Every step keeps the invariant of the notification store.
LEMMA StoreStep == StoreInv /\ [Times!Next]_(Times!ivars) => StoreInv'
<1> SUFFICES ASSUME StoreInv, [Times!Next]_(Times!ivars) PROVE StoreInv'
  OBVIOUS
<1>1. ASSUME NEW p \in Callers, Times!change(p) PROVE StoreInv'
  <2>1. \E m : store' = [store EXCEPT !.memory = m]
    BY <1>1 DEF Times!change
  <2>2. saves[p] = "idle" /\ store.open /\ saves' = [saves EXCEPT ![p] = "changed"]
    BY <1>1 DEF Times!change
  <2> QED BY <2>1, <2>2 DEF StoreInv
<1>2. ASSUME NEW p \in Callers, Times!truncate(p) PROVE StoreInv'
  BY <1>2 DEF Times!truncate, StoreInv
<1>3. ASSUME NEW p \in Callers, Times!write_all(p) PROVE StoreInv'
  BY <1>3 DEF Times!write_all, StoreInv
<1>4. ASSUME NEW p \in Callers, Times!cut_short(p) PROVE StoreInv'
  <2>0. PICK written \in SUBSET DOMAIN store.memory, torn \in BOOLEAN, crashed \in BOOLEAN :
          /\ store' = [store EXCEPT !.disk = [j \in written |-> store.memory[j]], !.torn = torn, !.open = ~ crashed]
          /\ saves' = IF crashed THEN [q \in Callers |-> "idle"] ELSE [saves EXCEPT ![p] = "idle"]
    BY <1>4 DEF Times!cut_short
  <2> DEFINE d == [j \in written |-> store.memory[j]]
  <2>1. /\ store' = [store EXCEPT !.disk = d, !.torn = torn, !.open = ~ crashed]
        /\ saves' = IF crashed THEN [q \in Callers |-> "idle"] ELSE [saves EXCEPT ![p] = "idle"]
    BY <2>0
  <2> HIDE DEF d
  <2>2. /\ store' = [memory |-> store.memory, disk |-> d, cut |-> store.cut, torn |-> torn, open |-> ~ crashed]
        /\ store.cut = TRUE /\ saves[p] = "writing"
    BY <1>4, <2>1 DEF Times!cut_short, StoreInv
  <2>3. CASE crashed
    BY <2>1, <2>2, <2>3 DEF StoreInv
  <2>4. CASE ~crashed
    BY <2>1, <2>2, <2>4 DEF StoreInv
  <2> QED BY <2>3, <2>4
<1>5. CASE Times!crash
  BY <1>5 DEF Times!crash, StoreInv
<1>6. CASE Times!load_from_file
  BY <1>6 DEF Times!load_from_file, StoreInv
<1>7. CASE Times!JobNext \/ Times!ReminderNext \/ UNCHANGED Times!ivars
  BY <1>7 DEF Times!JobNext, Times!ReminderNext, Times!storeVars, Times!ivars, StoreInv
<1> QED BY <1>1, <1>2, <1>3, <1>4, <1>5, <1>6, <1>7 DEF Times!Next, Times!StoreNext

\* The three invariants have what the property states.
LEMMA TimersMeaning == ASSUME MaxArms \in Nat PROVE JobsInv /\ RemindersInv /\ StoreInv => Times!TimersSound
<1> SUFFICES ASSUME JobsInv, RemindersInv, StoreInv PROVE Times!TimersSound
  OBVIOUS
<1>1. ASSUME NEW j \in Jobs \ notified.overlapped
      PROVE  /\ \A arm \in 1 .. jobs[j].arm :
                  /\ notified.emitted[j][arm] <= 1
                  /\ <<j, arm>> \in notified.cancelled => notified.emitted[j][arm] = 0
             /\ jobs[j].arm > 0 =>
                  /\ notified.emitted[j][jobs[j].arm] > 0 => jobs[j].due <= time /\ jobs[j].status # "Pending"
                  /\ jobs[j].status = "Fired" =>
                       \/ notified.emitted[j][jobs[j].arm] = 1
                       \/ <<j, jobs[j].arm>> \in notified.failed \cup notified.dropped
                       \/ \E p \in Callers : Times!pending_in(p, j)
  <2>1. JobOk(j) /\ jobs[j].arm \in 0 .. MaxArms
    BY <1>1 DEF JobsInv, JobTypes
  <2>2. \A arm \in 1 .. jobs[j].arm : arm \in 1 .. MaxArms
    BY <2>1
  <2>3. \A arm \in 1 .. jobs[j].arm : /\ notified.emitted[j][arm] <= 1
                                      /\ <<j, arm>> \in notified.cancelled => notified.emitted[j][arm] = 0
    BY <2>1, <2>2 DEF JobOk, CountOk
  <2>4. jobs[j].arm > 0 /\ notified.emitted[j][jobs[j].arm] > 0 => jobs[j].due <= time /\ jobs[j].status # "Pending"
    <3>1. jobs[j].arm > 0 => jobs[j].arm \in 1 .. MaxArms
      BY <2>1
    <3>2. jobs[j].arm > 0 /\ notified.emitted[j][jobs[j].arm] > 0 => jobs[j].due <= time
      BY <2>1 DEF JobOk, CountOk
    <3>3. jobs[j].arm > 0 /\ jobs[j].status = "Pending" => notified.emitted[j][jobs[j].arm] = 0
      BY <2>1, <3>1 DEF JobOk, CountOk
    <3> QED BY <3>2, <3>3
  <2>5. jobs[j].status = "Fired" => \/ notified.emitted[j][jobs[j].arm] = 1
                                    \/ <<j, jobs[j].arm>> \in notified.failed \cup notified.dropped
                                    \/ \E p \in Callers : Times!pending_in(p, j)
    BY <2>1 DEF JobOk, FiredOk, Times!pending_in
  <2> QED BY <2>3, <2>4, <2>5
<1>2. \A p \in Callers : actions[p] # <<>> => reminders[actions[p].of] \in actions[p].wrote
  BY DEF RemindersInv
<1>3. Times!list_due = {}
  BY DEF RemindersInv, Times!list_due, Marks
<1>4. (\A p \in Callers : saves[p] = "idle") /\ store.open /\ ~ store.cut => store.disk = store.memory
  BY DEF StoreInv
<1> QED BY <1>1, <1>2, <1>3, <1>4 DEF Times!TimersSound

\* A job that nobody touched between a listing and its update is notified at most once for every time it was
\* scheduled, not before it is due and never once it was cancelled; a fired job was notified, or is about to
\* be, or the sink refused it, or the call that was to emit it was dropped; actions answer with a status somebody wrote since; and with no save under way
\* or cut short the file holds the map (Scheduler::poll, ReminderService, the notification store); for any
\* callers, jobs and reminders, however their calls interleave.
THEOREM TimersAreSound == ASSUME MaxArms \in Nat, MaxTicks \in Nat PROVE Times!Spec => []Times!TimersSound
<1>1. Times!Init => RemindersInv /\ StoreInv
  BY DEF Times!Init, RemindersInv, StoreInv
<1> QED BY <1>1, JobsStart, JobsStep, RemindersStep, StoreStep, TimersMeaning, PTL DEF Times!Spec

-----------------------------------------------------------------------------
(* Config: the migration of the file.                                      *)
\* What a configuration file may hold, where a migration stands, and whether no two overlapped.
Texts == [holds : {"whole", "nothing", "broken", "part"}, version : 0 .. 2, pretty : BOOLEAN]
\* How far a migration has got, and that none overlapped another.
Steps == {"resting", "backup", "write_backup", "truncate", "write", "done"}
AllAlone == \A p \in Callers : migrations[p].alone

\* The variables of the migration are of the types of the code.
MigrationTypes ==
  /\ original \in [holds : {"whole"}, version : 0 .. 2, pretty : BOOLEAN]
  /\ toml \in Texts /\ backup \in Texts
  /\ migrations \in [Callers -> [at : Steps, text : Texts, alone : BOOLEAN]]

\* What migrations that start from a whole file, one after the other, leave at each of their steps.
AloneInv ==
  AllAlone =>
    /\ toml = original \/ (backup = original /\ original.version <= Loads!CurrentVersion)
    /\ toml.holds = "whole" => toml \in {original, Loads!migrated(original)}
    /\ \A p, q \in Callers : Loads!writing(p) /\ Loads!writing(q) => p = q
    /\ \A p \in Callers : Loads!writing(p) =>
         /\ migrations[p].text = original /\ original.version <= Loads!CurrentVersion
         /\ migrations[p].at \in {"backup", "write_backup", "truncate"} => toml = original
         /\ migrations[p].at \in {"truncate", "write"} => backup = original

\* The invariant of the migration.
MigrationInv == MigrationTypes /\ AloneInv

\* A migrated text is of the current version, and migrating it again changes nothing.
LEMMA Migrated == ASSUME NEW t \in Texts
                  PROVE  /\ Loads!migrated(t) = [holds |-> t.holds, version |-> 1, pretty |-> TRUE]
                         /\ Loads!migrated(t) \in Texts /\ Loads!migrated(Loads!migrated(t)) = Loads!migrated(t)
<1>1. t \in [holds : {"whole", "nothing", "broken", "part"}, version : 0 .. 2, pretty : BOOLEAN]
  BY DEF Texts
<1> DEFINE yes == TRUE
           a == [t EXCEPT !.version = 1]
           b == [a EXCEPT !.pretty = yes]
           m == [holds |-> t.holds, version |-> 1, pretty |-> yes]
<1>2. Loads!migrated(t) = b /\ Loads!migrated(m) = [[m EXCEPT !.version = 1] EXCEPT !.pretty = yes]
  BY DEF Loads!migrated, Loads!CurrentVersion
<1>3. m \in Texts
  BY <1>1 DEF Texts
<1>4. m = [holds |-> t.holds, version |-> 1, pretty |-> TRUE]
  OBVIOUS
<1> HIDE DEF yes
<1>5. a = [holds |-> t.holds, version |-> 1, pretty |-> t.pretty]
  BY <1>1
<1> HIDE DEF a
<1>6. b = m
  BY <1>5
<1>7. [m EXCEPT !.version = 1] = m /\ [m EXCEPT !.pretty = yes] = m
  OBVIOUS
<1> HIDE DEF m, b
<1> QED BY <1>2, <1>3, <1>4, <1>6, <1>7

\* What is left of a text whose write is cut short is a text that is not whole.
LEMMA Cuts == ASSUME NEW t \in Texts, NEW c \in Loads!cuts(t) PROVE c \in Texts /\ c.holds # "whole"
<1>1. t.version \in 0 .. 2
  BY DEF Texts
<1>2. \/ c = [holds |-> "nothing", version |-> 0, pretty |-> FALSE]
      \/ c = [holds |-> "broken", version |-> 0, pretty |-> FALSE]
      \/ c = [holds |-> "part", version |-> t.version, pretty |-> FALSE]
  BY DEF Loads!cuts
<1>3. CASE c = [holds |-> "nothing", version |-> 0, pretty |-> FALSE]
  BY <1>3 DEF Texts
<1>4. CASE c = [holds |-> "broken", version |-> 0, pretty |-> FALSE]
  BY <1>4 DEF Texts
<1>5. CASE c = [holds |-> "part", version |-> t.version, pretty |-> FALSE]
  BY <1>1, <1>5 DEF Texts
<1> QED BY <1>2, <1>3, <1>4, <1>5

\* A step of one caller that keeps who is alone.
Moves(p, step) ==
  /\ \A q \in Callers : q # p => migrations'[q] = migrations[q]
  /\ migrations'[p].at = step /\ migrations'[p].text = migrations[p].text /\ migrations'[p].alone = migrations[p].alone
  /\ migrations' \in [Callers -> [at : Steps, text : Texts, alone : BOOLEAN]]

\* Going on to the next step changes nothing else of the migration.
LEMMA MigrationMoves ==
  ASSUME MigrationTypes, NEW p \in Callers, NEW step \in Steps, Loads!move(p, step)
  PROVE  Moves(p, step) /\ (AllAlone' <=> AllAlone)
<1>1. migrations' = [migrations EXCEPT ![p].at = step]
        /\ migrations \in [Callers -> [at : Steps, text : Texts, alone : BOOLEAN]]
  BY DEF Loads!move, MigrationTypes
<1>2. Moves(p, step)
  BY <1>1 DEF Moves
<1>3. \A q \in Callers : migrations'[q].alone = migrations[q].alone
  BY <1>2 DEF Moves
<1> QED BY <1>2, <1>3 DEF AllAlone

\* A migration that begins has read the file.
LEMMA MigrationBegins == ASSUME MigrationInv, NEW p \in Callers, Loads!migrate_to_current(p) PROVE MigrationInv'
<1> DEFINE alone == toml.holds = "whole" /\ \A q \in Callers \ {p} : ~Loads!writing(q)
<1>1. /\ ~Loads!writing(p) /\ Loads!migrates(toml) /\ UNCHANGED <<original, toml, backup>>
      /\ migrations' = [q \in Callers |->
            IF q = p THEN [at |-> "backup", text |-> toml, alone |-> alone /\ migrations[p].alone]
            ELSE [migrations[q] EXCEPT !.alone = @ /\ ~Loads!writing(q)]]
  BY DEF Loads!migrate_to_current
<1>2. migrations \in [Callers -> [at : Steps, text : Texts, alone : BOOLEAN]] /\ toml \in Texts
  BY DEF MigrationInv, MigrationTypes
<1>3. alone \in BOOLEAN /\ \A q \in Callers : Loads!writing(q) \in BOOLEAN
  BY DEF Loads!writing
<1>4. ASSUME alone PROVE toml.holds = "whole" /\ \A q \in Callers \ {p} : ~Loads!writing(q)
  BY <1>4
<1> HIDE DEF alone
<1>5. migrations'[p] = [at |-> "backup", text |-> toml, alone |-> alone /\ migrations[p].alone]
  BY <1>1
<1>6. \A q \in Callers : q # p => /\ migrations'[q].at = migrations[q].at /\ migrations'[q].text = migrations[q].text
                                  /\ migrations'[q].alone = (migrations[q].alone /\ ~Loads!writing(q))
                                  /\ migrations'[q] \in [at : Steps, text : Texts, alone : BOOLEAN]
  BY <1>1, <1>2, <1>3
<1>7. migrations'[p] \in [at : Steps, text : Texts, alone : BOOLEAN]
  BY <1>2, <1>3, <1>5 DEF Steps
<1>8. MigrationTypes'
  BY <1>1, <1>6, <1>7 DEF MigrationInv, MigrationTypes
<1>9. ASSUME AllAlone' PROVE AloneInv'
  <2>1. alone /\ migrations[p].alone
    <3>1. migrations'[p].alone /\ migrations'[p].alone = (alone /\ migrations[p].alone)
      BY <1>5, <1>9 DEF AllAlone
    <3> QED BY <3>1, Zenon
  <2>2. AllAlone /\ toml.holds = "whole" /\ \A q \in Callers : ~Loads!writing(q)
    BY <1>1, <1>4, <1>6, <1>9, <2>1 DEF AllAlone
  <2>3. toml = original
    <3>1. original \in Texts
      BY DEF MigrationInv, MigrationTypes, Texts
    <3> QED BY <1>1, <2>2, <3>1, Migrated DEF MigrationInv, AloneInv, Loads!migrates
  <2>4. original.version <= Loads!CurrentVersion
    BY <1>1, <2>3 DEF Loads!migrates
  <2>5. \A q \in Callers : q # p => ~Loads!writing(q)'
    BY <1>6, <2>2 DEF Loads!writing
  <2>6. migrations'[p].text = original' /\ migrations'[p].at = "backup"
    BY <1>1, <1>5, <2>3
  <2> QED BY <1>1, <2>3, <2>4, <2>5, <2>6 DEF AloneInv
<1> QED BY <1>8, <1>9 DEF MigrationInv, AloneInv

\* The backup is whole before the file is truncated.
LEMMA MigrationWrites ==
  ASSUME MigrationInv, NEW p \in Callers,
         Loads!truncate_backup(p) \/ Loads!write_backup(p) \/ Loads!truncate_file(p) \/ Loads!write_file(p)
  PROVE  MigrationInv'
<1> DEFINE Nothing == [holds |-> "nothing", version |-> 0, pretty |-> FALSE]
<1>1. Nothing \in Texts /\ Nothing.holds # "whole" /\ original \in Texts /\ original.holds = "whole"
  BY DEF Texts, MigrationInv, MigrationTypes
<1>2. migrations[p].text \in Texts
  BY DEF MigrationInv, MigrationTypes
<1> HIDE DEF Nothing
<1>3. Loads!writing(p) /\ original' = original
  BY DEF Loads!truncate_backup, Loads!write_backup, Loads!truncate_file, Loads!write_file, Loads!at, Loads!writing
<1>4. ASSUME AllAlone
      PROVE  /\ migrations[p].text = original /\ original.version <= Loads!CurrentVersion
             /\ migrations[p].at \in {"backup", "write_backup", "truncate"} => toml = original
             /\ migrations[p].at \in {"truncate", "write"} => backup = original
             /\ \A q \in Callers : Loads!writing(q) => q = p
  BY <1>3, <1>4 DEF MigrationInv, AloneInv
<1>5. CASE Loads!truncate_backup(p)
  <2>1. migrations[p].at = "backup" /\ Loads!move(p, "write_backup") /\ backup' = Nothing /\ UNCHANGED <<original, toml>>
    BY <1>5 DEF Loads!truncate_backup, Loads!at, Nothing
  <2>2. Moves(p, "write_backup") /\ (AllAlone' <=> AllAlone)
    BY <2>1, MigrationMoves DEF Steps, MigrationInv
  <2>3. ASSUME AllAlone PROVE toml = original /\ \A q \in Callers : Loads!writing(q)' => q = p
    BY <1>4, <2>1, <2>2, <2>3 DEF Moves, Loads!writing
  <2>4. MigrationTypes'
    BY <1>1, <2>1, <2>2 DEF MigrationInv, MigrationTypes, Moves
  <2> QED BY <1>4, <2>1, <2>2, <2>3, <2>4 DEF MigrationInv, AloneInv, Moves
<1>6. CASE Loads!write_backup(p)
  <2>1. migrations[p].at = "write_backup" /\ Loads!move(p, "truncate") /\ backup' = migrations[p].text
          /\ UNCHANGED <<original, toml>>
    BY <1>6 DEF Loads!write_backup, Loads!at
  <2>2. Moves(p, "truncate") /\ (AllAlone' <=> AllAlone)
    BY <2>1, MigrationMoves DEF Steps, MigrationInv
  <2>3. ASSUME AllAlone PROVE toml = original /\ backup' = original /\ \A q \in Callers : Loads!writing(q)' => q = p
    BY <1>4, <2>1, <2>2, <2>3 DEF Moves, Loads!writing
  <2>4. MigrationTypes'
    BY <1>2, <2>1, <2>2 DEF MigrationInv, MigrationTypes, Moves
  <2> QED BY <1>4, <2>1, <2>2, <2>3, <2>4 DEF MigrationInv, AloneInv, Moves
<1>7. CASE Loads!truncate_file(p)
  <2>1. migrations[p].at = "truncate" /\ Loads!move(p, "write") /\ toml' = Nothing /\ UNCHANGED <<original, backup>>
    BY <1>7 DEF Loads!truncate_file, Loads!at, Nothing
  <2>2. Moves(p, "write") /\ (AllAlone' <=> AllAlone)
    BY <2>1, MigrationMoves DEF Steps, MigrationInv
  <2>3. ASSUME AllAlone PROVE backup' = original /\ \A q \in Callers : Loads!writing(q)' => q = p
    BY <1>4, <2>1, <2>2, <2>3 DEF Moves, Loads!writing
  <2>4. MigrationTypes'
    BY <1>1, <2>1, <2>2 DEF MigrationInv, MigrationTypes, Moves
  <2> QED BY <1>1, <1>4, <2>1, <2>2, <2>3, <2>4 DEF MigrationInv, AloneInv, Moves
<1>8. CASE Loads!write_file(p)
  <2>1. migrations[p].at = "write" /\ Loads!move(p, "done") /\ toml' = Loads!migrated(migrations[p].text)
          /\ UNCHANGED <<original, backup>>
    BY <1>8 DEF Loads!write_file, Loads!at
  <2>2. Moves(p, "done") /\ (AllAlone' <=> AllAlone)
    BY <2>1, MigrationMoves DEF Steps, MigrationInv
  <2>3. ASSUME AllAlone
        PROVE  backup' = original /\ toml' = Loads!migrated(original) /\ \A q \in Callers : ~Loads!writing(q)'
    BY <1>4, <2>1, <2>2, <2>3 DEF Moves, Loads!writing
  <2>4. MigrationTypes'
    BY <1>2, <2>1, <2>2, Migrated DEF MigrationInv, MigrationTypes, Moves
  <2>5. ASSUME AllAlone PROVE (Loads!migrated(original))' = Loads!migrated(original)
    BY <2>1 DEF Loads!migrated
  <2> QED BY <1>4, <2>1, <2>2, <2>3, <2>4, <2>5 DEF MigrationInv, AloneInv
<1> QED BY <1>5, <1>6, <1>7, <1>8

\* A write that is cut short leaves the text in the other file.
LEMMA MigrationCut == ASSUME MigrationInv, NEW p \in Callers, Loads!cut_short(p) PROVE MigrationInv'
<1> DEFINE new == [at |-> "resting", text |-> original, alone |-> migrations[p].alone]
<1>1. /\ migrations' = [migrations EXCEPT ![p] = new] /\ original' = original
      /\ \/ Loads!at(p, "write_backup") /\ backup' \in Loads!cuts(migrations[p].text) /\ toml' = toml
         \/ Loads!at(p, "write") /\ toml' \in Loads!cuts(Loads!migrated(migrations[p].text)) /\ backup' = backup
         \/ Loads!at(p, "truncate") /\ toml' = toml /\ backup' = backup
  <2>1. Loads!resting = [at |-> "resting", text |-> original, alone |-> TRUE]
    BY DEF Loads!resting
  <2>2. [Loads!resting EXCEPT !.alone = migrations[p].alone] = new
    BY <2>1
  <2> HIDE DEF new
  <2> QED BY <2>2 DEF Loads!cut_short
<1>2. migrations \in [Callers -> [at : Steps, text : Texts, alone : BOOLEAN]] /\ original \in Texts
  BY DEF MigrationInv, MigrationTypes, Texts
<1>3. new \in [at : Steps, text : Texts, alone : BOOLEAN] /\ new.at = "resting" /\ new.alone = migrations[p].alone
  BY <1>2 DEF Steps
<1> HIDE DEF new
<1>4. migrations' \in [Callers -> [at : Steps, text : Texts, alone : BOOLEAN]]
      /\ \A q \in Callers : migrations'[q] = IF q = p THEN new ELSE migrations[q]
  BY <1>1, <1>2, <1>3
<1>5. AllAlone' <=> AllAlone
  BY <1>3, <1>4 DEF AllAlone
<1>6. migrations[p].text \in Texts /\ Loads!migrated(migrations[p].text) \in Texts
  BY <1>2, Migrated
<1>7. toml' \in Texts /\ backup' \in Texts
  BY <1>1, <1>6, Cuts DEF MigrationInv, MigrationTypes
<1>8. MigrationTypes'
  BY <1>1, <1>4, <1>7 DEF MigrationInv, MigrationTypes
<1>9. ASSUME AllAlone PROVE AloneInv'
  <2>1. Loads!writing(p)
    BY <1>1 DEF Loads!at, Loads!writing
  <2>2. \A q \in Callers : ~Loads!writing(q)'
    BY <1>3, <1>4, <1>9, <2>1 DEF MigrationInv, AloneInv, Loads!writing
  <2>3. (Loads!migrated(original))' = Loads!migrated(original)
    BY <1>1 DEF Loads!migrated
  <2>4. CASE toml' = toml /\ (Loads!at(p, "truncate") \/ Loads!at(p, "write_backup"))
    <3>1. toml = original
      BY <1>1, <1>9, <2>1, <2>4, <1>6, Cuts DEF MigrationInv, AloneInv, Loads!at
    <3> QED BY <1>1, <2>2, <2>4, <3>1 DEF AloneInv
  <2>5. CASE Loads!at(p, "write") /\ toml' \in Loads!cuts(Loads!migrated(migrations[p].text)) /\ backup' = backup
    <3>1. backup' = original /\ original.version <= Loads!CurrentVersion
      BY <1>9, <2>1, <2>5 DEF MigrationInv, AloneInv, Loads!at
    <3>2. toml'.holds # "whole"
      BY <1>6, <2>5, Cuts
    <3> QED BY <1>1, <2>2, <3>1, <3>2 DEF AloneInv
  <2> QED BY <1>1, <2>4, <2>5
<1> QED BY <1>5, <1>8, <1>9 DEF MigrationInv, AloneInv

\* Every step keeps the invariant of the migration.
LEMMA MigrationStep == MigrationInv /\ [Loads!Next]_(Loads!fvars) => MigrationInv'
<1> SUFFICES ASSUME MigrationInv, [Loads!Next]_(Loads!fvars) PROVE MigrationInv'
  OBVIOUS
<1>1. CASE Loads!MigrationNext
  BY <1>1, MigrationBegins, MigrationWrites, MigrationCut DEF Loads!MigrationNext
<1>2. CASE Loads!LoadNext \/ UNCHANGED Loads!fvars
  <2>1. UNCHANGED <<original, toml, backup, migrations>>
    BY <1>2 DEF Loads!LoadNext, Loads!fileVars, Loads!fvars
  <2> QED BY <2>1 DEF MigrationInv, MigrationTypes, AloneInv, AllAlone, Loads!writing, Loads!migrated
<1> QED BY <1>1, <1>2 DEF Loads!Next

\* At first the file is whole and is what the operator wrote.
LEMMA MigrationStart == Loads!Init => MigrationInv
<1> SUFFICES ASSUME Loads!Init PROVE MigrationInv
  OBVIOUS
<1>1. /\ original \in [holds : {"whole"}, version : 0 .. 2, pretty : BOOLEAN] /\ toml = original
      /\ backup = [holds |-> "nothing", version |-> 0, pretty |-> FALSE]
      /\ migrations = [p \in Callers |-> [at |-> "resting", text |-> original, alone |-> TRUE]]
  BY DEF Loads!Init, Loads!resting
<1>2. toml \in Texts /\ backup \in Texts /\ original \in Texts
  BY <1>1 DEF Texts
<1>3. \A p \in Callers : ~Loads!writing(p)
  BY <1>1 DEF Loads!writing
<1>4. MigrationTypes
  BY <1>1, <1>2 DEF MigrationTypes, Steps
<1> QED BY <1>1, <1>3, <1>4 DEF MigrationInv, AloneInv

\* No migration of a file of a later version begins.
LaterKept ==
  original.version > Loads!CurrentVersion => toml = original /\ \A p \in Callers : ~Loads!writing(p)

LEMMA LaterStep == MigrationInv /\ LaterKept /\ [Loads!Next]_(Loads!fvars) => LaterKept'
<1> SUFFICES ASSUME MigrationInv, LaterKept, [Loads!Next]_(Loads!fvars) PROVE LaterKept'
  OBVIOUS
<1>1. CASE UNCHANGED <<original, toml, backup, migrations>>
  BY <1>1 DEF LaterKept, Loads!writing, Loads!CurrentVersion
<1>2. CASE Loads!LoadNext \/ UNCHANGED Loads!fvars
  BY <1>1, <1>2 DEF Loads!LoadNext, Loads!fileVars, Loads!fvars
<1>3. CASE Loads!MigrationNext
  <2>1. PICK p \in Callers :
           \/ Loads!migrate_to_current(p) \/ Loads!truncate_backup(p) \/ Loads!write_backup(p)
           \/ Loads!truncate_file(p) \/ Loads!write_file(p) \/ Loads!cut_short(p)
    BY <1>3 DEF Loads!MigrationNext
  <2>2. original' = original /\ (Loads!writing(p) \/ Loads!migrates(toml))
    BY <2>1 DEF Loads!migrate_to_current, Loads!truncate_backup, Loads!write_backup, Loads!truncate_file,
                Loads!write_file, Loads!cut_short, Loads!at, Loads!writing
  <2>3. original.version > Loads!CurrentVersion => FALSE
    <3> SUFFICES ASSUME original.version > Loads!CurrentVersion PROVE FALSE
      OBVIOUS
    <3>1. toml = original /\ ~Loads!writing(p)
      BY DEF LaterKept
    <3>2. toml.version <= Loads!CurrentVersion
      BY <2>2, <3>1 DEF Loads!migrates
    <3>3. original.version \in Int
      BY DEF MigrationInv, MigrationTypes
    <3> QED BY <3>1, <3>2, <3>3 DEF Loads!CurrentVersion
  <2> QED BY <2>2, <2>3 DEF LaterKept, Loads!CurrentVersion
<1> QED BY <1>2, <1>3 DEF Loads!Next

\* A migration that starts from a whole file and that no other overlaps leaves the text the operator wrote in
\* the file or in the backup, at every moment and wherever a write is cut short; what starts again from a file
\* that was cut is excepted, for it may replace the whole backup by the cut text.  A file of a later version is
\* never written, by whatever migrations (migrate_file_to_current); for any callers.
THEOREM MigrationsSound == Loads!Spec => []Loads!MigrationSound
<1>1. MigrationInv /\ LaterKept => Loads!MigrationSound
  <2>1. original.version > Loads!CurrentVersion /\ LaterKept => toml = original
    BY DEF LaterKept
  <2>2. ASSUME MigrationInv, AllAlone
        PROVE  "whole" \in {toml.holds, backup.holds} /\ (toml # original => backup = original)
    <3>1. toml = original \/ backup = original
      BY <2>2 DEF MigrationInv, AloneInv
    <3>2. original.holds = "whole"
      BY <2>2 DEF MigrationInv, MigrationTypes
    <3> QED BY <3>1, <3>2
  <2> QED BY <2>1, <2>2 DEF Loads!MigrationSound, AllAlone
<1>2. Loads!Init => LaterKept
  BY DEF Loads!Init, Loads!resting, Loads!writing, LaterKept
<1> QED BY <1>1, <1>2, MigrationStart, MigrationStep, LaterStep, PTL DEF Loads!Spec

-----------------------------------------------------------------------------
(* Config: the resolution of profiles.                                     *)
LEMMA LeastNatural ==
  ASSUME NEW T \in SUBSET Nat, T # {}
  PROVE  \E x \in T : \A y \in T : ~(y < x)
<1> DEFINE R == OpToRel(<, Nat)
<1>1. IsWellFoundedOn(R, Nat)
  BY NatLessThanWellFounded
<1>2. \A y, x \in Nat : y < x => <<y, x>> \in R
  BY DEF OpToRel
<1> HIDE DEF R
<1>3. \E x \in T : \A y \in T : ~(<<y, x>> \in R)
  BY <1>1, WFMin
<1> QED BY <1>2, <1>3

\* The number of profiles.
N == Cardinality(Profiles)
\* There are finitely many profiles, none with the name of a layer, and the entry has settings of its own.
LayersApart ==
  /\ IsFiniteSet(Profiles)
  /\ Profiles \cap {"none", "base", "default", "absent", "env"} = {}
  /\ Plain \cap Loads!Entry = {}

\* The profile that x extends.
up(x) == IF Loads!defined(x) THEN document.profiles[x].extends ELSE "none"

\* What Loads!ancestors is the only one of.
Climbs(f, n) == f = [i \in 0 .. n |-> IF i = 0 THEN document.selected ELSE up(f[i - 1])]

\* A climb of n steps can go one further.
LEMMA ClimbsExtend ==
  ASSUME NEW n \in Nat, NEW f, Climbs(f, n)
  PROVE  \E g : Climbs(g, n + 1)
<1> DEFINE g == [i \in 0 .. (n + 1) |-> IF i <= n THEN f[i] ELSE up(f[n])]
<1>1. \A i \in 0 .. n : f[i] = IF i = 0 THEN document.selected ELSE up(f[i - 1])
  BY DEF Climbs
<1>2. ASSUME NEW i \in 0 .. (n + 1) PROVE g[i] = IF i = 0 THEN document.selected ELSE up(g[i - 1])
  <2>1. CASE i = 0
    BY <1>1, <2>1
  <2>2. CASE i # 0 /\ i <= n
    <3>1. i \in 0 .. n /\ i - 1 \in 0 .. (n + 1) /\ i - 1 <= n
      BY <2>2
    <3>2. g[i] = f[i] /\ g[i - 1] = f[i - 1]
      BY <3>1
    <3> QED BY <1>1, <2>2, <3>1, <3>2
  <2>3. CASE i = n + 1
    <3>1. g[i] = up(f[n])
      BY <2>3
    <3>2. g[n] = f[n]
      OBVIOUS
    <3>3. i - 1 = n /\ i # 0
      BY <2>3
    <3> HIDE DEF g
    <3> QED BY <3>1, <3>2, <3>3
  <2> QED BY <2>1, <2>2, <2>3
<1>3. g = [i \in 0 .. (n + 1) |-> g[i]]
  OBVIOUS
<1> HIDE DEF g
<1>4. Climbs(g, n + 1)
  BY <1>2, <1>3 DEF Climbs
<1> QED BY <1>4

\* There is a climb of any number of steps: there is no least number without one.
LEMMA ClimbsExist == ASSUME NEW n \in Nat PROVE \E f : Climbs(f, n)
<1> DEFINE Bad == {k \in Nat : ~\E f : Climbs(f, k)}
<1>1. ASSUME NEW k \in Bad, \A j \in Bad : ~(j < k) PROVE FALSE
  <2>1. CASE k = 0
    <3>1. Climbs([i \in 0 .. 0 |-> document.selected], 0)
      BY DEF Climbs
    <3> QED BY <2>1, <3>1
  <2>2. CASE k # 0
    <3>1. k - 1 \in Nat /\ k - 1 < k /\ (k - 1) + 1 = k
      BY <2>2
    <3>2. k - 1 \notin Bad
      BY <1>1, <3>1
    <3>3. PICK f : Climbs(f, k - 1)
      BY <3>1, <3>2
    <3>4. \E g : Climbs(g, (k - 1) + 1)
      BY <3>1, <3>3, ClimbsExtend
    <3> QED BY <3>1, <3>4
  <2> QED BY <2>1, <2>2
<1>2. Bad \in SUBSET Nat
  OBVIOUS
<1>3. Bad = {}
  <2> HIDE DEF Bad
  <2> QED BY <1>1, <1>2, LeastNatural
<1> QED BY <1>3

\* The ancestors are the climb from the selected profile.
LEMMA Ancestors ==
  ASSUME N \in Nat
  PROVE  /\ DOMAIN Loads!ancestors = 0 .. N
         /\ Loads!ancestors[0] = document.selected
         /\ \A i \in 0 .. N : i # 0 => Loads!ancestors[i] = up(Loads!ancestors[i - 1])
<1>1. \E f : Climbs(f, N)
  BY ClimbsExist
<1>2. Climbs(Loads!ancestors, N)
  BY <1>1, SameCount DEF Loads!ancestors, Climbs, up, N
<1> QED BY <1>2 DEF Climbs

\* They depend on the document only.
LEMMA AncestorsStay == ASSUME UNCHANGED document PROVE Loads!ancestors' = Loads!ancestors
BY DEF Loads!ancestors, Loads!defined

\* Where a setting may come from.
Layers == Profiles \cup {"base", "default", "absent", "env"}
\* How far a load has got.
LoadSteps == {"resting", "chain", "ProfileCycle", "ProfileNotFound", "apply", "resolved", "loaded"}

\* The profiles from the n-th ancestor on that name s, whether one of them has the entry, and the value that makes.
from(n, s) == {k \in n .. N : Loads!defined(Loads!ancestors[k]) /\ s \in document.profiles[Loads!ancestors[k]].named}
\* One of them has the entry of the provider.
entered(n) == \E k \in n .. N : Loads!defined(Loads!ancestors[k])
  /\ document.profiles[Loads!ancestors[k]].named \cap Loads!Entry # {}
\* What the nearest of them, or else the base, makes of s.
value(n, s) ==
  IF from(n, s) # {} THEN Loads!ancestors[Loads!Min(from(n, s))]
  ELSE IF s \in Loads!Entry /\ ~document.openai THEN IF entered(n) THEN "default" ELSE "absent"
  ELSE "base"

\* The document is what the parser gives.
DocumentTypes == document \in [selected : Loads!Named, openai : BOOLEAN, uses_openai : BOOLEAN,
    profiles : [Profiles -> Loads!Profile]]
\* A load is of the types of the code.
LoadTypes ==
  load \in [at : LoadSteps, asked : Loads!Named, visiting : Seq(Profiles), config : [Loads!Settings -> Layers],
            before : [Loads!Settings -> Layers], env : SUBSET Loads!Settings,
                diagnostics : SUBSET (Loads!Entry \cup {"default_provider"})]

\* The chain climbs from the selected profile, and what is left of it is what is still to be applied.
ChainInv ==
  LET n == Len(load.visiting)
  IN /\ n <= N
     /\ \A i \in 1 .. n : load.visiting[i] = Loads!ancestors[i - 1] /\ Loads!defined(load.visiting[i])
     /\ \A i, j \in 1 .. n : load.visiting[i] = load.visiting[j] => i = j
     /\ load.at = "resting" => n = 0
     /\ load.at = "chain" => load.asked = Loads!ancestors[n] /\ load.asked # "none" /\ load.config = Loads!base(document)
     /\ load.at = "ProfileCycle" => \A k \in 0 .. N : Loads!defined(Loads!ancestors[k])
     /\ load.at = "ProfileNotFound" => \E k \in 0 .. N : Loads!ancestors[k] # "none" /\ ~Loads!defined(Loads!ancestors[k])
     /\ load.at \in {"apply", "resolved", "loaded"} => \E k \in 0 .. N : Loads!ancestors[k] = "none"
     /\ load.at = "apply" => n > 0 /\ \A s \in Loads!Settings : load.config[s] = value(n, s)
     /\ load.at = "resolved" => \A s \in Loads!Settings : load.config[s] = value(0, s)
     /\ load.at = "loaded" => /\ \A s \in Loads!Settings : load.before[s] = value(0, s)
                              /\ load.config = Loads!apply_to(Loads!with_entry(load.before, Loads!Entry), "env", load.env)
                              /\ load.diagnostics = Loads!validate(load.config)

\* The invariant of loading.
LoadInv == DocumentTypes /\ LoadTypes /\ ChainInv

\* Finitely many profiles have a number.
LEMMA ProfilesCounted == ASSUME LayersApart PROVE N \in Nat
BY FS_CardinalityType DEF N, LayersApart

\* A set of natural numbers has its minimum.
LEMMA LeastOf == ASSUME NEW T \in SUBSET Nat, T # {} PROVE Loads!Min(T) \in T /\ \A y \in T : Loads!Min(T) <= y
<1>1. PICK x \in T : \A y \in T : ~(y < x)
  BY LeastNatural
<1>2. \A y \in T : x <= y
  BY <1>1
<1> QED BY <1>2 DEF Loads!Min

\* A profile that is defined has a parent or none and names settings.
LEMMA ProfileOf ==
  ASSUME DocumentTypes, NEW x, Loads!defined(x)
  PROVE  x \in Profiles /\ document.profiles[x].extends \in Loads!Named
    /\ document.profiles[x].named \in SUBSET Loads!Settings
<1>1. x \in Profiles
  BY DEF Loads!defined
<1>2. document.profiles[x] \in Loads!Profile
  BY <1>1 DEF DocumentTypes
<1>3. document.profiles[x] \in [defined : BOOLEAN, extends : Loads!Named, named : SUBSET Loads!Settings]
  BY <1>2 DEF Loads!Profile
<1> QED BY <1>1, <1>3

\* No profile is called none, and none extends nothing.
LEMMA NotNone == ASSUME LayersApart PROVE ~Loads!defined("none") /\ up("none") = "none"
BY DEF LayersApart, Loads!defined, up

\* Above an ancestor that is none there is none.
LEMMA NoneAbove ==
  ASSUME LayersApart, NEW m \in 0 .. N, Loads!ancestors[m] = "none"
  PROVE  \A k \in m .. N : Loads!ancestors[k] = "none" /\ ~Loads!defined(Loads!ancestors[k])
<1> DEFINE Bad == {k \in m .. N : Loads!ancestors[k] # "none"}
<1>0. N \in Nat
  BY ProfilesCounted
<1>1. ASSUME NEW k \in Bad, \A j \in Bad : ~(j < k) PROVE FALSE
  <2>1. k # m /\ k \in 0 .. N /\ k # 0 /\ k - 1 \in m .. N /\ k - 1 < k
    BY <1>0
  <2>2. Loads!ancestors[k - 1] = "none"
    BY <1>1, <2>1
  <2>3. Loads!ancestors[k] = up(Loads!ancestors[k - 1])
    BY <1>0, <2>1, Ancestors
  <2> QED BY <2>2, <2>3, NotNone
<1>2. Bad \in SUBSET Nat
  BY <1>0
<1>3. Bad = {}
  <2> HIDE DEF Bad
  <2> QED BY <1>1, <1>2, LeastNatural
<1> QED BY <1>3, NotNone

\* Where the ancestors end the settings are those of the base.
LEMMA BaseValue ==
  ASSUME LayersApart, NEW m \in 0 .. N, Loads!ancestors[m] = "none", NEW s \in Loads!Settings
  PROVE  Loads!base(document)[s] = value(m, s)
<1>1. from(m, s) = {} /\ ~entered(m)
  BY NoneAbove DEF from, entered
<1>2. s \in Plain \/ s \in Loads!Entry
  BY DEF Loads!Settings
<1> QED BY <1>1, <1>2 DEF Loads!base, value, LayersApart

\* The property speaks of the value from the selected profile on.
LEMMA NearestValue == ASSUME LayersApart, NEW s PROVE Loads!nearest(s) = value(0, s)
<1>1. DOMAIN Loads!ancestors = 0 .. N
  BY ProfilesCounted, Ancestors
<1> QED BY <1>1 DEF Loads!nearest, value, from, entered

\* An ancestor that was met before is followed by those that followed it: all are defined.
LEMMA CycleDefined ==
  ASSUME LayersApart, NEW n \in 0 .. N, NEW i \in 1 .. n, Loads!ancestors[i - 1] = Loads!ancestors[n],
         \A j \in 1 .. n : Loads!defined(Loads!ancestors[j - 1])
  PROVE  \A k \in 0 .. N : Loads!defined(Loads!ancestors[k])
<1> DEFINE d == n - (i - 1)
           Bad == {k \in n .. N : Loads!ancestors[k] # Loads!ancestors[k - d]}
           Undefined == {k \in 0 .. N : ~Loads!defined(Loads!ancestors[k])}
<1>0. N \in Nat /\ n \in Nat /\ d \in 1 .. n /\ n - d = i - 1
  BY ProfilesCounted
<1>1. ASSUME NEW k \in Bad, \A j \in Bad : ~(j < k) PROVE FALSE
  <2>1. k # n
    BY <1>0
  <2>2. k - 1 \in n .. N /\ k - 1 < k /\ k \in 0 .. N /\ k # 0 /\ k - d \in 0 .. N /\ k - d # 0
          /\ (k - d) - 1 = (k - 1) - d
    BY <1>0, <2>1
  <2>3. Loads!ancestors[k - 1] = Loads!ancestors[(k - 1) - d]
    BY <1>1, <2>2
  <2>4. Loads!ancestors[k] = up(Loads!ancestors[k - 1]) /\ Loads!ancestors[k - d] = up(Loads!ancestors[(k - d) - 1])
    BY <1>0, <2>2, Ancestors
  <2> QED BY <2>2, <2>3, <2>4
<1>2. Bad \in SUBSET Nat
  BY <1>0
<1>3. Bad = {}
  <2> HIDE DEF Bad
  <2> QED BY <1>1, <1>2, LeastNatural
<1>4. ASSUME NEW k \in Undefined, \A j \in Undefined : ~(j < k) PROVE FALSE
  <2>1. CASE k < n
    <3>1. k + 1 \in 1 .. n /\ (k + 1) - 1 = k
      BY <1>0, <2>1
    <3>2. Loads!defined(Loads!ancestors[(k + 1) - 1])
      BY <3>1
    <3> QED BY <1>4, <3>1, <3>2
  <2>2. CASE k >= n
    <3>1. k \in n .. N /\ k - d \in 0 .. N /\ k - d < k
      BY <1>0, <2>2
    <3>2. Loads!ancestors[k] = Loads!ancestors[k - d]
      BY <1>3, <3>1
    <3> QED BY <1>4, <3>1, <3>2
  <2> QED BY <1>0, <2>1, <2>2
<1>5. Undefined \in SUBSET Nat
  BY <1>0
<1>6. Undefined = {}
  <2> HIDE DEF Undefined
  <2> QED BY <1>4, <1>5, LeastNatural
<1> QED BY <1>6

\* Different profiles are no more than there are.
LEMMA ChainShort ==
  ASSUME LayersApart, NEW q \in Seq(Profiles), \A i, j \in 1 .. Len(q) : q[i] = q[j] => i = j
  PROVE  Len(q) <= N
<1>1. Len(q) \in Nat /\ q \in [1 .. Len(q) -> Profiles]
  OBVIOUS
<1>2. q \in Injection(1 .. Len(q), Profiles)
  BY <1>1 DEF Injection, IsInjective
<1>3. Cardinality(1 .. Len(q)) = Len(q)
  BY <1>1, FS_Interval
<1> QED BY <1>2, <1>3, FS_Injection DEF N, LayersApart

\* Values depend on the document only.
LEMMA Staying == ASSUME UNCHANGED document PROVE \A n, s : value(n, s)' = value(n, s)
BY AncestorsStay DEF value, from, entered, Loads!defined

\* A value is a profile, if one names the setting, and absent only without any entry.
LEMMA ValueLayer ==
  ASSUME LayersApart, DocumentTypes, NEW n \in 0 .. N, NEW s \in Loads!Settings
  PROVE  /\ from(n, s) # {} => value(n, s) \in Profiles
         /\ value(n, s) = "absent" => from(n, s) = {} /\ s \in Loads!Entry /\ ~document.openai /\ ~entered(n)
         /\ from(n, s) = {} /\ s \in Loads!Entry /\ ~document.openai /\ ~entered(n) => value(n, s) = "absent"
<1>0. N \in Nat
  BY ProfilesCounted
<1>1. ASSUME from(n, s) # {} PROVE value(n, s) \in Profiles
  <2>1. from(n, s) \in SUBSET Nat
    BY <1>0 DEF from
  <2>2. Loads!Min(from(n, s)) \in from(n, s)
    BY <1>1, <2>1, LeastOf
  <2>3. Loads!defined(Loads!ancestors[Loads!Min(from(n, s))])
    BY <2>2 DEF from
  <2> QED BY <1>1, <2>3 DEF value, Loads!defined
<1>2. ASSUME value(n, s) = "absent" PROVE from(n, s) = {}
  BY <1>1, <1>2 DEF LayersApart
<1>3. ASSUME from(n, s) = {}
      PROVE  value(n, s) = IF s \in Loads!Entry /\ ~document.openai THEN IF entered(n) THEN "default" ELSE "absent"
        ELSE "base"
  BY <1>3 DEF value
<1> QED BY <1>1, <1>2, <1>3

\* One profile lower, the values are those that its patch makes.
LEMMA ValueStep ==
  ASSUME LayersApart, DocumentTypes, NEW n \in 1 .. N, Loads!defined(Loads!ancestors[n - 1]),
         NEW s \in Loads!Settings,
         NEW f, \A x \in Loads!Settings : f[x] = value(n, x)
  PROVE  value(n - 1, s) = Loads!apply_to(f, Loads!ancestors[n - 1], document.profiles[Loads!ancestors[n - 1]].named)[s]
<1> DEFINE p == Loads!ancestors[n - 1]
           named == document.profiles[p].named
<1>0. N \in Nat /\ n \in 0 .. N /\ n - 1 \in 0 .. N
  BY ProfilesCounted
<1>1. \A k : k \in (n - 1) .. N <=> k = n - 1 \/ k \in n .. N
  BY <1>0
<1>2. Loads!apply_to(f, p, named)[s] = IF s \in named THEN p
                                ELSE IF s \in Loads!Entry /\ named \cap Loads!Entry # {} /\ value(n, s) = "absent"
                                  THEN "default" ELSE value(n, s)
  BY DEF Loads!apply_to, Loads!with_entry
<1> SUFFICES value(n - 1, s) = IF s \in named THEN p
                                ELSE IF s \in Loads!Entry /\ named \cap Loads!Entry # {} /\ value(n, s) = "absent"
                                  THEN "default" ELSE value(n, s)
  BY <1>2
<1>3. CASE s \in named
  <2>1. n - 1 \in from(n - 1, s)
    BY <1>0, <1>1, <1>3 DEF from
  <2>2. from(n - 1, s) \in SUBSET Nat /\ \A k \in from(n - 1, s) : k >= n - 1
    BY <1>0 DEF from
  <2>3. Loads!Min(from(n - 1, s)) = n - 1
    <3>1. Loads!Min(from(n - 1, s)) \in from(n - 1, s) /\ Loads!Min(from(n - 1, s)) <= n - 1
      BY <2>1, <2>2, LeastOf
    <3> QED BY <1>0, <2>2, <3>1
  <2>4. value(n - 1, s) = p
    BY <2>1, <2>3 DEF value
  <2> QED BY <1>3, <2>4
<1>4. CASE s \notin named
  <2>1. from(n - 1, s) = from(n, s)
    BY <1>1, <1>4 DEF from
  <2>2. CASE from(n, s) # {}
    <3>1. value(n - 1, s) = value(n, s)
      BY <2>1, <2>2 DEF value
    <3>2. value(n, s) # "absent"
      BY <1>0, <2>2, ValueLayer
    <3> QED BY <1>4, <3>1, <3>2
  <2>3. CASE from(n, s) = {}
    <3>1. entered(n - 1) <=> (entered(n) \/ named \cap Loads!Entry # {})
      BY <1>1 DEF entered
    <3>2. value(n, s) = IF s \in Loads!Entry /\ ~document.openai THEN IF entered(n) THEN "default" ELSE "absent"
            ELSE "base"
      BY <2>3 DEF value
    <3>3. value(n - 1, s) = IF s \in Loads!Entry /\ ~document.openai THEN IF entered(n - 1) THEN "default"
            ELSE "absent" ELSE "base"
      BY <2>1, <2>3 DEF value
    <3> HIDE DEF named, p
    <3>4. CASE s \in Loads!Entry /\ ~document.openai
      <4>1. value(n, s) = IF entered(n) THEN "default" ELSE "absent"
        BY <3>2, <3>4
      <4>2. value(n - 1, s) = IF entered(n - 1) THEN "default" ELSE "absent"
        BY <3>3, <3>4
      <4> QED BY <1>4, <3>1, <3>4, <4>1, <4>2
    <3>5. CASE ~(s \in Loads!Entry /\ ~document.openai)
      <4>1. value(n, s) = "base" /\ value(n - 1, s) = "base"
        BY <3>2, <3>3, <3>5
      <4> QED BY <1>4, <4>1
    <3> QED BY <3>4, <3>5
  <2> QED BY <2>2, <2>3
<1> QED BY <1>3, <1>4

\* A layer applied to settings makes settings.
LEMMA Patched ==
  ASSUME NEW f \in [Loads!Settings -> Layers], NEW layer \in Layers, NEW named
  PROVE  Loads!apply_to(f, layer, named) \in [Loads!Settings -> Layers]
    /\ Loads!with_entry(f, named) \in [Loads!Settings -> Layers]
<1>1. "default" \in Layers
  BY DEF Layers
<1> QED BY <1>1 DEF Loads!apply_to, Loads!with_entry

\* Before the first load nothing is resolved.
LEMMA LoadStart == ASSUME LayersApart, Loads!Init PROVE LoadInv
<1>1. DocumentTypes
  BY DEF Loads!Init, DocumentTypes
<1>2. Loads!base(document) \in [Loads!Settings -> Layers]
  BY DEF Loads!base, Layers
<1>3. LoadTypes
  BY <1>2 DEF Loads!Init, LoadTypes, LoadSteps, Loads!Named
<1>4. load.at = "resting" /\ load.visiting = <<>>
  BY DEF Loads!Init
<1>5. ChainInv
  BY <1>4, ProfilesCounted DEF ChainInv
<1> QED BY <1>1, <1>3, <1>5 DEF LoadInv

\* A load starts at the selected profile.
LEMMA SelectStep == ASSUME LayersApart, LoadInv, Loads!resolve_selected_profile PROVE LoadInv'
<1>0. load.at = "resting" /\ UNCHANGED document /\ Len(load.visiting) = 0 /\ N \in Nat /\ DocumentTypes /\ LoadTypes
  BY ProfilesCounted DEF Loads!resolve_selected_profile, LoadInv, ChainInv
<1>1. DocumentTypes' /\ document.selected \in Loads!Named
  BY <1>0 DEF DocumentTypes
<1>2. Loads!base(document) \in [Loads!Settings -> Layers]
  BY DEF Loads!base, Layers
<1>3. Loads!ancestors[0] = document.selected
  BY <1>0, Ancestors
<1>4. CASE document.selected = "none"
  <2>1. load' = [load EXCEPT !.at = "resolved", !.config = Loads!base(document)]
    BY <1>4 DEF Loads!resolve_selected_profile
  <2>2. /\ load'.at = "resolved" /\ load'.config = Loads!base(document) /\ load'.visiting = load.visiting
        /\ LoadTypes'
    BY <1>0, <1>2, <2>1 DEF LoadTypes, LoadSteps
  <2>3. 0 \in 0 .. N /\ Loads!ancestors[0] = "none"
    BY <1>0, <1>3, <1>4
  <2>4. \A s \in Loads!Settings : Loads!base(document)[s] = value(0, s)
    BY <2>3, BaseValue
  <2>5. ChainInv'
    BY <1>0, <2>2, <2>3, <2>4, Staying, AncestorsStay DEF ChainInv
  <2> QED BY <1>1, <2>2, <2>5 DEF LoadInv
<1>5. CASE document.selected # "none"
  <2>1. load' = [load EXCEPT !.at = "chain", !.asked = document.selected, !.config = Loads!base(document)]
    BY <1>5 DEF Loads!resolve_selected_profile
  <2>2. /\ load'.at = "chain" /\ load'.config = Loads!base(document) /\ load'.visiting = load.visiting
        /\ load'.asked = document.selected /\ LoadTypes'
    BY <1>0, <1>1, <1>2, <2>1 DEF LoadTypes, LoadSteps
  <2>3. Loads!base(document') = Loads!base(document)
    BY <1>0
  <2>5. ChainInv'
    BY <1>0, <1>3, <1>5, <2>2, <2>3, AncestorsStay DEF ChainInv
  <2> QED BY <1>1, <2>2, <2>5 DEF LoadInv
<1> QED BY <1>4, <1>5

\* A chain that ends in a report of a cycle or of a missing profile.
LEMMA ChainReported ==
  ASSUME load'.at \in {"ProfileCycle", "ProfileNotFound"}, Len(load'.visiting) <= N,
         \A i, j \in 1 .. Len(load'.visiting) : load'.visiting[i] = load'.visiting[j] => i = j,
         \A i \in 1 .. Len(load'.visiting) : /\ load'.visiting[i] = Loads!ancestors'[i - 1]
                                             /\ Loads!defined(load.visiting[i])',
         load'.at = "ProfileCycle" => \A k \in 0 .. N : Loads!defined(Loads!ancestors[k])',
         load'.at = "ProfileNotFound" =>
            \E k \in 0 .. N : Loads!ancestors'[k] # "none" /\ ~Loads!defined(Loads!ancestors[k])'
  PROVE  ChainInv'
<1>1. load'.at # "resting" /\ load'.at # "chain" /\ load'.at \notin {"apply", "resolved", "loaded"}
      /\ load'.at # "apply" /\ load'.at # "resolved" /\ load'.at # "loaded"
  OBVIOUS
<1> QED BY <1>1 DEF ChainInv

\* The chain grows by one ancestor, or ends at none, at a missing profile or at a cycle.
LEMMA ChainStep == ASSUME LayersApart, LoadInv, Loads!resolve_profile_chain PROVE LoadInv'
<1> DEFINE n == Len(load.visiting)
           parent == document.profiles[load.asked].extends
<1>0. /\ load.at = "chain" /\ UNCHANGED document /\ N \in Nat /\ DocumentTypes /\ LoadTypes /\ n \in 0 .. N
      /\ load.visiting \in Seq(Profiles) /\ DocumentTypes'
  BY ProfilesCounted DEF Loads!resolve_profile_chain, LoadInv, ChainInv, LoadTypes, DocumentTypes
<1>1. /\ load.asked = Loads!ancestors[n] /\ load.asked # "none" /\ load.config = Loads!base(document)
      /\ \A i \in 1 .. n : load.visiting[i] = Loads!ancestors[i - 1] /\ Loads!defined(load.visiting[i])
      /\ \A i, j \in 1 .. n : load.visiting[i] = load.visiting[j] => i = j
  BY <1>0 DEF LoadInv, ChainInv
<1>2. CASE \E i \in DOMAIN load.visiting : load.visiting[i] = load.asked
  <2>1. load' = [load EXCEPT !.at = "ProfileCycle"]
    BY <1>2 DEF Loads!resolve_profile_chain
  <2>2. load'.at = "ProfileCycle" /\ load'.visiting = load.visiting /\ LoadTypes'
    BY <1>0, <2>1 DEF LoadTypes, LoadSteps
  <2>3. PICK i \in 1 .. n : load.visiting[i] = load.asked
    BY <1>0, <1>2
  <2>4. Loads!ancestors[i - 1] = Loads!ancestors[n] /\ \A j \in 1 .. n : Loads!defined(Loads!ancestors[j - 1])
    BY <1>1, <2>3
  <2>5. \A k \in 0 .. N : Loads!defined(Loads!ancestors[k])
    <3> HIDE DEF n
    <3> QED BY <1>0, <2>3, <2>4, CycleDefined
  <2>6. ChainInv'
    <3>1. Loads!ancestors' = Loads!ancestors
      BY <1>0, AncestorsStay
    <3>2. \A k \in 0 .. N : Loads!defined(Loads!ancestors[k])'
      BY <1>0, <2>5, <3>1 DEF Loads!defined
    <3>3. \A j \in 1 .. n : load.visiting[j] = Loads!ancestors'[j - 1] /\ Loads!defined(load.visiting[j])'
      BY <1>0, <1>1, <2>2, <3>1 DEF Loads!defined
    <3>4. /\ Len(load'.visiting) <= N
          /\ \A j, k \in 1 .. Len(load'.visiting) : load'.visiting[j] = load'.visiting[k] => j = k
          /\ \A j \in 1 .. Len(load'.visiting) : /\ load'.visiting[j] = Loads!ancestors'[j - 1]
                                                 /\ Loads!defined(load.visiting[j])'
      BY <1>0, <1>1, <2>2, <3>3
    <3> QED BY <2>2, <3>2, <3>4, ChainReported
  <2> QED BY <1>0, <2>2, <2>6 DEF LoadInv
<1>3. CASE (\A i \in DOMAIN load.visiting : load.visiting[i] # load.asked) /\ ~Loads!defined(load.asked)
  <2>1. load' = [load EXCEPT !.at = "ProfileNotFound"]
    BY <1>3 DEF Loads!resolve_profile_chain
  <2>2. load'.at = "ProfileNotFound" /\ load'.visiting = load.visiting /\ LoadTypes'
    BY <1>0, <2>1 DEF LoadTypes, LoadSteps
  <2>5. \E k \in 0 .. N : Loads!ancestors[k] # "none" /\ ~Loads!defined(Loads!ancestors[k])
    BY <1>0, <1>1, <1>3
  <2>6. ChainInv'
    <3>1. Loads!ancestors' = Loads!ancestors
      BY <1>0, AncestorsStay
    <3>2. \E k \in 0 .. N : Loads!ancestors'[k] # "none" /\ ~Loads!defined(Loads!ancestors[k])'
      BY <1>0, <2>5, <3>1 DEF Loads!defined
    <3>3. \A i \in 1 .. n : load.visiting[i] = Loads!ancestors'[i - 1] /\ Loads!defined(load.visiting[i])'
      BY <1>0, <1>1, <2>2, <3>1 DEF Loads!defined
    <3>4. /\ Len(load'.visiting) <= N
          /\ \A i, j \in 1 .. Len(load'.visiting) : load'.visiting[i] = load'.visiting[j] => i = j
          /\ \A i \in 1 .. Len(load'.visiting) : /\ load'.visiting[i] = Loads!ancestors'[i - 1]
                                                 /\ Loads!defined(load.visiting[i])'
      BY <1>0, <1>1, <2>2, <3>3
    <3> QED BY <2>2, <3>2, <3>4, ChainReported
  <2> QED BY <1>0, <2>2, <2>6 DEF LoadInv
<1>4. CASE (\A i \in DOMAIN load.visiting : load.visiting[i] # load.asked) /\ Loads!defined(load.asked)
  <2>1. load' = [load EXCEPT !.at = IF parent = "none" THEN "apply" ELSE "chain",
                             !.asked = parent, !.visiting = Append(load.visiting, load.asked)]
    BY <1>4 DEF Loads!resolve_profile_chain
  <2>2. load.asked \in Profiles /\ parent \in Loads!Named
    BY <1>0, <1>4, ProfileOf
  <2>3. Append(load.visiting, load.asked) \in Seq(Profiles)
    BY <1>0, <2>2
  <2>4. /\ load'.at = (IF parent = "none" THEN "apply" ELSE "chain") /\ load'.asked = parent
        /\ load'.visiting = Append(load.visiting, load.asked) /\ load'.config = Loads!base(document)
    BY <1>0, <1>1, <2>1 DEF LoadTypes
  <2>5. LoadTypes'
    <3> HIDE DEF parent
    <3> QED BY <1>0, <2>1, <2>2, <2>3 DEF LoadTypes, LoadSteps
  <2> DEFINE q == Append(load.visiting, load.asked)
  <2>6. /\ Len(q) = n + 1 /\ \A i \in 1 .. n : q[i] = load.visiting[i]
        /\ q[n + 1] = load.asked
    BY <1>0, <2>2
  <2>7. q \in Seq(Profiles)
    BY <2>3
  <2> HIDE DEF q, n
  <2>8. \A i, j \in 1 .. n + 1 : q[i] = q[j] => i = j
    <3>1. \A i \in 1 .. n : load.visiting[i] # load.asked
      BY <1>0, <1>4 DEF n
    <3> QED BY <1>0, <1>1, <2>6, <3>1
  <2>9. n + 1 <= N
    BY <2>6, <2>7, <2>8, ChainShort
  <2>10. Loads!ancestors[n + 1] = up(Loads!ancestors[n])
    <3>1. n + 1 \in 0 .. N /\ n + 1 # 0 /\ (n + 1) - 1 = n
      BY <1>0, <2>9
    <3> QED BY <1>0, <3>1, Ancestors
  <2>11. Loads!ancestors[n + 1] = parent
    BY <1>1, <1>4, <2>10 DEF up
  <2> HIDE DEF parent
  <2>12. /\ \A i \in 1 .. n + 1 : q[i] = Loads!ancestors[i - 1] /\ Loads!defined(q[i])
    <3>1. q[n + 1] = Loads!ancestors[(n + 1) - 1] /\ Loads!defined(q[n + 1])
      BY <1>0, <1>1, <1>4, <2>6
    <3>2. ASSUME NEW i \in 1 .. n PROVE q[i] = Loads!ancestors[i - 1] /\ Loads!defined(q[i])
      BY <1>1, <2>6
    <3> SUFFICES ASSUME NEW i \in 1 .. n + 1 PROVE q[i] = Loads!ancestors[i - 1] /\ Loads!defined(q[i])
      OBVIOUS
    <3>3. i \in 1 .. n \/ i = n + 1
      BY <1>0
    <3> QED BY <3>1, <3>2, <3>3
  <2>13. n + 1 \in 0 .. N
    BY <1>0, <2>9
  <2>14. parent = "none" => \A s \in Loads!Settings : Loads!base(document)[s] = value(n + 1, s)
    BY <2>11, <2>13, BaseValue
  <2>15. load'.visiting = q
    BY <2>4 DEF q
  <2>16. ChainInv'
    <3>1. Len(load'.visiting) = n + 1
      BY <2>6, <2>15
    <3>2. Loads!base(document') = Loads!base(document) /\ Loads!ancestors' = Loads!ancestors
            /\ \A m, s : value(m, s)' = value(m, s)
      BY <1>0, Staying, AncestorsStay
    <3>3. \A x : Loads!defined(x)' = Loads!defined(x)
      BY <1>0 DEF Loads!defined
    <3>4. CASE parent = "none"
      <4>1. load'.at = "apply"
        BY <2>4, <3>4
      <4> QED BY <1>0, <2>4, <2>8, <2>11, <2>12, <2>13, <2>14, <2>15, <3>1, <3>2, <3>3, <3>4, <4>1 DEF ChainInv
    <3>5. CASE parent # "none"
      <4>1. load'.at = "chain"
        BY <2>4, <3>5
      <4> QED BY <1>0, <2>4, <2>8, <2>11, <2>12, <2>13, <2>15, <3>1, <3>2, <3>3, <3>5, <4>1 DEF ChainInv
    <3> QED BY <3>4, <3>5
  <2> QED BY <1>0, <2>5, <2>16 DEF LoadInv
<1> QED BY <1>2, <1>3, <1>4

\* A profile is applied over those it extends: the settings are then its values.
LEMMA ApplyStep == ASSUME LayersApart, LoadInv, Loads!resolve_profile PROVE LoadInv'
<1> DEFINE n == Len(load.visiting)
           p == load.visiting[n]
           patched == Loads!apply_to(load.config, p, document.profiles[p].named)
           q == SubSeq(load.visiting, 1, n - 1)
<1>0. /\ load.at = "apply" /\ UNCHANGED document /\ N \in Nat /\ DocumentTypes /\ LoadTypes /\ n \in 1 .. N
      /\ load.visiting \in Seq(Profiles) /\ DocumentTypes' /\ load.config \in [Loads!Settings -> Layers]
  BY ProfilesCounted DEF Loads!resolve_profile, LoadInv, ChainInv, LoadTypes, DocumentTypes
<1>1. /\ \A i \in 1 .. n : load.visiting[i] = Loads!ancestors[i - 1] /\ Loads!defined(load.visiting[i])
      /\ \A i, j \in 1 .. n : load.visiting[i] = load.visiting[j] => i = j
      /\ \E k \in 0 .. N : Loads!ancestors[k] = "none"
      /\ \A s \in Loads!Settings : load.config[s] = value(n, s)
  BY <1>0 DEF LoadInv, ChainInv
<1>2. p = Loads!ancestors[n - 1] /\ Loads!defined(p) /\ p \in Layers
  BY <1>0, <1>1 DEF Loads!defined, Layers
<1>3. load' = [load EXCEPT !.config = patched, !.visiting = q, !.at = IF n = 1 THEN "resolved" ELSE load.at]
  BY DEF Loads!resolve_profile
<1>4. patched \in [Loads!Settings -> Layers]
  BY <1>0, <1>2, Patched
<1>5. q \in Seq(Profiles) /\ Len(q) = n - 1 /\ \A i \in 1 .. n - 1 : q[i] = load.visiting[i]
  BY <1>0
<1>6. \A s \in Loads!Settings : patched[s] = value(n - 1, s)
  <2> HIDE DEF n
  <2> QED BY <1>0, <1>1, <1>2, ValueStep
<1> HIDE DEF n, p, patched, q
<1>7. /\ load'.at = (IF n = 1 THEN "resolved" ELSE "apply") /\ load'.visiting = q /\ load'.config = patched
      /\ LoadTypes'
  BY <1>0, <1>3, <1>4, <1>5 DEF LoadTypes, LoadSteps
<1>8. ChainInv'
  <2>1. Loads!ancestors' = Loads!ancestors /\ \A m, s : value(m, s)' = value(m, s)
    BY <1>0, Staying, AncestorsStay
  <2>2. \A x : Loads!defined(x)' = Loads!defined(x)
    BY <1>0 DEF Loads!defined
  <2>3. /\ \A i \in 1 .. n - 1 : q[i] = Loads!ancestors[i - 1] /\ Loads!defined(q[i])
        /\ \A i, j \in 1 .. n - 1 : q[i] = q[j] => i = j
    BY <1>0, <1>1, <1>5
  <2>4. CASE n = 1
    <3>1. n - 1 = 0 /\ load'.at = "resolved"
      BY <1>7, <2>4
    <3> QED BY <1>0, <1>1, <1>5, <1>6, <1>7, <2>1, <2>2, <2>3, <3>1 DEF ChainInv
  <2>5. CASE n # 1
    <3>1. n - 1 > 0 /\ n - 1 <= N /\ load'.at = "apply"
      BY <1>0, <1>7, <2>5
    <3> QED BY <1>0, <1>1, <1>5, <1>6, <1>7, <2>1, <2>2, <2>3, <3>1 DEF ChainInv
  <2> QED BY <2>4, <2>5
<1> QED BY <1>0, <1>7, <1>8 DEF LoadInv

\* The environment overlays what was resolved.
LEMMA EnvStep ==
  ASSUME LayersApart, LoadInv, NEW env \in SUBSET Loads!Settings, Loads!apply_env_overlay(env)
  PROVE  LoadInv'
<1> DEFINE config == Loads!apply_to(Loads!with_entry(load.config, Loads!Entry), "env", env)
<1>0. /\ load.at = "resolved" /\ UNCHANGED document /\ DocumentTypes /\ LoadTypes
      /\ DocumentTypes' /\ load.config \in [Loads!Settings -> Layers]
  BY DEF Loads!apply_env_overlay, LoadInv, LoadTypes, DocumentTypes
<1>1. load' = [load EXCEPT !.at = "loaded", !.config = config, !.before = load.config, !.env = env,
                            !.diagnostics = Loads!validate(config)]
  BY DEF Loads!apply_env_overlay
<1>2. config \in [Loads!Settings -> Layers]
  BY <1>0, Patched DEF Layers
<1>3. Loads!validate(config) \in SUBSET (Loads!Entry \cup {"default_provider"})
  BY DEF Loads!validate
<1>4. load'.at = "loaded" /\ load'.config = config /\ load'.before = load.config /\ load'.env = env
      /\ load'.diagnostics = Loads!validate(config) /\ load'.visiting = load.visiting
  BY <1>0, <1>1 DEF LoadTypes
<1>5. LoadTypes'
  <2> HIDE DEF config
  <2> QED BY <1>0, <1>1, <1>2, <1>3 DEF LoadTypes, LoadSteps
<1>6. \A s \in Loads!Settings : load.config[s] = value(0, s)
  BY <1>0 DEF LoadInv, ChainInv
<1>8. Loads!validate(load.config)' = Loads!validate(config)
  BY <1>0, <1>4 DEF Loads!validate
<1>9. ChainInv'
  <2>1. Loads!ancestors' = Loads!ancestors /\ \A m, s : value(m, s)' = value(m, s)
    BY <1>0, Staying, AncestorsStay
  <2>2. \A x : Loads!defined(x)' = Loads!defined(x)
    BY <1>0 DEF Loads!defined
  <2>3. load'.config = Loads!apply_to(Loads!with_entry(load'.before, Loads!Entry), "env", load'.env)
    BY <1>4
  <2> QED BY <1>0, <1>4, <1>6, <1>8, <2>1, <2>2, <2>3 DEF LoadInv, ChainInv
<1> QED BY <1>0, <1>5, <1>9 DEF LoadInv

\* What leaves the document and the load alone keeps the invariant.
LEMMA LoadKept == ASSUME LoadInv, UNCHANGED Loads!loadVars PROVE LoadInv'
<1>1. document' = document /\ load' = load
  BY DEF Loads!loadVars
<1>2. Loads!ancestors' = Loads!ancestors /\ \A m, s : value(m, s)' = value(m, s)
  BY <1>1, Staying, AncestorsStay
<1>3. \A x : Loads!defined(x)' = Loads!defined(x)
  BY <1>1 DEF Loads!defined
<1>4. \A c : Loads!validate(c)' = Loads!validate(c)
  BY <1>1 DEF Loads!validate
<1>5. DocumentTypes' /\ LoadTypes'
  BY <1>1 DEF LoadInv, DocumentTypes, LoadTypes
<1>6. Loads!base(document') = Loads!base(document) /\ Loads!validate(load.config)' = Loads!validate(load.config)
  BY <1>1 DEF Loads!validate
<1>7. ChainInv'
  BY <1>1, <1>2, <1>3, <1>6 DEF LoadInv, ChainInv
<1> QED BY <1>5, <1>7 DEF LoadInv

\* Every step keeps the invariant of loading.
LEMMA LoadNextKeeps == ASSUME LayersApart, LoadInv, [Loads!Next]_(Loads!fvars) PROVE LoadInv'
<1>1. CASE Loads!LoadNext
  BY <1>1, SelectStep, ChainStep, ApplyStep, EnvStep DEF Loads!LoadNext
<1>2. CASE Loads!MigrationNext \/ UNCHANGED Loads!fvars
  BY <1>2, LoadKept DEF Loads!MigrationNext, Loads!fvars, Loads!loadVars
<1> QED BY <1>1, <1>2 DEF Loads!Next

\* The invariant has what the property states.
LEMMA LoadMeans == ASSUME LayersApart, LoadInv PROVE Loads!ResolutionSound
<1>0. DocumentTypes /\ LoadTypes /\ ChainInv /\ N \in Nat /\ DOMAIN Loads!ancestors = 0 .. N /\ 0 \in 0 .. N
  BY ProfilesCounted, Ancestors DEF LoadInv
<1>1. \A s : Loads!nearest(s) = value(0, s)
  BY NearestValue
<1>2. ASSUME load.at = "loaded" PROVE
        /\ \A s \in Loads!Settings : load.before[s] = value(0, s)
        /\ \A s \in Loads!Settings : load.config[s] =
                IF s \in load.env THEN "env" ELSE IF value(0, s) = "absent" THEN "default" ELSE value(0, s)
        /\ load.diagnostics = Loads!validate(load.config)
  <2>1. /\ \A s \in Loads!Settings : load.before[s] = value(0, s)
        /\ load.config = Loads!apply_to(Loads!with_entry(load.before, Loads!Entry), "env", load.env)
        /\ load.diagnostics = Loads!validate(load.config)
    BY <1>0, <1>2 DEF ChainInv
  <2>2. ASSUME NEW s \in Loads!Settings PROVE load.config[s] =
                IF s \in load.env THEN "env" ELSE IF value(0, s) = "absent" THEN "default" ELSE value(0, s)
    <3>1. value(0, s) = "absent" => s \in Loads!Entry
      BY <1>0, ValueLayer
    <3>2. Loads!with_entry(load.before, Loads!Entry)[s] = IF value(0, s) = "absent" THEN "default" ELSE value(0, s)
      BY <2>1, <3>1 DEF Loads!with_entry, Loads!Entry
    <3>3. load.config[s] = IF s \in load.env THEN "env" ELSE
             IF s \in Loads!Entry /\ load.env \cap Loads!Entry # {}
               /\ Loads!with_entry(load.before, Loads!Entry)[s] = "absent" THEN "default"
             ELSE Loads!with_entry(load.before, Loads!Entry)[s]
      BY <2>1, Zenon DEF Loads!apply_to, Loads!with_entry
    <3> QED BY <3>2, <3>3
  <2> QED BY <2>1, <2>2
<1>3. load.at = "resolved" => \A s \in Loads!Settings : load.config[s] = Loads!nearest(s)
  BY <1>0, <1>1 DEF ChainInv
<1>4. load.at = "loaded" => \A s \in Loads!Settings :
            load.config[s] = IF s \in load.env THEN "env" ELSE IF Loads!nearest(s) = "absent" THEN "default"
              ELSE Loads!nearest(s)
  BY <1>1, <1>2
<1>5. load.at = "ProfileCycle" <=> load.at \notin {"resting", "chain"}
        /\ \A n \in DOMAIN Loads!ancestors : Loads!defined(Loads!ancestors[n])
  <2>1. load.at \in LoadSteps
    BY <1>0 DEF LoadTypes
  <2>2. load.at = "ProfileCycle" => \A n \in DOMAIN Loads!ancestors : Loads!defined(Loads!ancestors[n])
    BY <1>0 DEF ChainInv
  <2>3. load.at \in {"ProfileNotFound", "apply", "resolved", "loaded"}
          => \E n \in DOMAIN Loads!ancestors : ~Loads!defined(Loads!ancestors[n])
    BY <1>0, NotNone DEF ChainInv
  <2> QED BY <2>1, <2>2, <2>3 DEF LoadSteps
<1>6. load.at = "ProfileNotFound" => \E n \in DOMAIN Loads!ancestors : Loads!ancestors[n] # "none"
        /\ ~Loads!defined(Loads!ancestors[n])
  BY <1>0 DEF ChainInv
<1>7. Len(load.visiting) <= Cardinality(Profiles)
  BY <1>0, SameCount DEF ChainInv, N
<1>8. ASSUME load.at = "loaded", load.diagnostics # {}, Loads!validate(load.before) = {}
      PROVE  load.before["endpoint"] = "absent"
  <2> SUFFICES ASSUME load.before["endpoint"] # "absent" PROVE FALSE
    OBVIOUS
  <2>1. "endpoint" \in Loads!Settings /\ "endpoint" \in Loads!Entry /\ Loads!Entry \subseteq Loads!Settings
    BY DEF Loads!Settings, Loads!Entry
  <2>2. load.config["endpoint"] # "absent"
    BY <1>2, <1>8, <2>1
  <2>3. PICK s \in Loads!Entry : load.config[s] = "default"
    BY <1>2, <1>8, <2>2 DEF Loads!validate
  <2>4. load.before[s] # "default"
    BY <1>8 DEF Loads!validate
  <2>5. value(0, s) = "absent"
    BY <1>2, <1>8, <2>1, <2>3, <2>4
  <2>6. ~document.openai /\ ~entered(0)
    BY <1>0, <2>1, <2>5, ValueLayer
  <2>7. from(0, "endpoint") = {}
    BY <2>1, <2>6 DEF from, entered
  <2>8. value(0, "endpoint") = "absent"
    BY <1>0, <2>1, <2>6, <2>7, ValueLayer
  <2> QED BY <1>2, <1>8, <2>1, <2>8
<1> QED BY <1>3, <1>4, <1>5, <1>6, <1>7, <1>8, SameCount DEF Loads!ResolutionSound

\* The invariant of loading holds.
LEMMA LoadAlways == ASSUME LayersApart PROVE Loads!Spec => []LoadInv
<1>1. Loads!Init => LoadInv
  BY LoadStart
<1>2. LoadInv /\ [Loads!Next]_(Loads!fvars) => LoadInv'
  BY LoadNextKeeps
<1> QED BY <1>1, <1>2, PTL DEF Loads!Spec

\* Every setting comes from the environment, else from the nearest profile that names it, else from the base; an
\* inheritance cycle and a missing profile are reported and never resolved; the overlay makes a valid
\* configuration invalid only by the provider entry it inserts (resolve_profile_chain, resolve_profile,
\* apply_env_overlay); for any finite set of profiles and any settings.
THEOREM ResolutionsSound == ASSUME LayersApart PROVE Loads!Spec => []Loads!ResolutionSound
<1>1. LoadInv => Loads!ResolutionSound
  BY LoadMeans
<1> QED BY <1>1, LoadAlways, PTL
-----------------------------------------------------------------------------
(* HostStorage.                                                            *)

\* The content of a lock file: the lock of a caller, an empty file, or no file.
LockInfo == [owner : Callers, at : Nat, until : Nat] \cup {Disk!NoLock, Disk!Unwritten}
\* Where a caller is with the lock.
LockSteps == {"idle", "remove", "create", "write", "held", "unlink"}

\* The lock file and the callers are of the types of the code.
LockTypes ==
  lock \in [file : LockInfo, clock : Nat, swept : BOOLEAN, of : [Callers -> [pc : LockSteps, info : LockInfo]]]

\* What a caller knows: the lock it read has expired, the one it makes is its own.
KnownInv ==
  \A p \in Callers :
    /\ lock.of[p].pc = "remove" => lock.of[p].info.until <= lock.clock
    /\ lock.of[p].pc = "remove" => lock.of[p].info.owner \in Callers
    /\ lock.of[p].pc \in {"create", "write", "held", "unlink"} => lock.of[p].info.owner = p

\* Unless a lock file was swept away, the file is that of whoever writes it or holds it.
FileInv ==
  ~lock.swept =>
    \A p \in Callers :
      /\ lock.of[p].pc = "write" => /\ lock.file = Disk!Unwritten
                                    /\ \A q \in Callers : lock.of[q].pc = "write" => p = q
      /\ lock.of[p].pc \in {"held", "unlink"} /\ lock.of[p].info.until > lock.clock => lock.file = lock.of[p].info

\* The names of no file and of an empty one are no callers.
OwnersApart == {"none", "unwritten"} \cap Callers = {}

\* The invariant of the lock.
LockInv == LockTypes /\ KnownInv /\ FileInv

\* Nobody has the lock at first.
LEMMA LockStarts == Disk!Init => LockInv
<1> SUFFICES ASSUME Disk!Init PROVE LockInv
  OBVIOUS
<1>1. /\ lock = [file |-> Disk!NoLock, clock |-> 0, swept |-> FALSE, of |-> [p \in Callers |-> Disk!Idle]]
      /\ Disk!NoLock \in LockInfo /\ Disk!Idle = [pc |-> "idle", info |-> Disk!NoLock]
  BY DEF Disk!Init, Disk!NoLock, Disk!Idle, LockInfo
<1>2. \A p \in Callers : lock.of[p].pc = "idle"
  BY <1>1
<1>3. LockTypes
  BY <1>1 DEF LockTypes, LockSteps
<1> QED BY <1>2, <1>3 DEF LockInv, KnownInv, FileInv

\* A step of a caller that goes somewhere with a lock of the right types.
LEMMA LockGoes ==
  ASSUME LockTypes, NEW p \in Callers, NEW pc \in LockSteps, NEW info \in LockInfo
  PROVE  /\ Disk!goes(p, pc, info) \in [file : LockInfo, clock : Nat, swept : BOOLEAN,
                                        of : [Callers -> [pc : LockSteps, info : LockInfo]]]
         /\ Disk!goes(p, pc, info).file = lock.file /\ Disk!goes(p, pc, info).clock = lock.clock
         /\ Disk!goes(p, pc, info).swept = lock.swept
         /\ Disk!goes(p, pc, info).of[p].pc = pc /\ Disk!goes(p, pc, info).of[p].info = info
         /\ \A q \in Callers : q # p => Disk!goes(p, pc, info).of[q] = lock.of[q]
BY DEF LockTypes, Disk!goes

\* A step of the lock by p: what it goes to, what becomes of the file and whether that sweeps another's file.
Moved(p, pc, info, content, swept) ==
  /\ lock' \in [file : LockInfo, clock : Nat, swept : BOOLEAN, of : [Callers -> [pc : LockSteps, info : LockInfo]]]
  /\ lock'.file = content /\ lock'.clock = lock.clock /\ lock'.swept = swept
  /\ lock'.of[p].pc = pc /\ lock'.of[p].info = info
  /\ \A q \in Callers : q # p => lock'.of[q] = lock.of[q]

\* Every step of a caller is such a move.
LEMMA LockMoves ==
  ASSUME LockTypes, NEW p \in Callers, Ttl \in Nat
  PROVE  LET mine == [owner |-> p, at |-> lock.clock, until |-> lock.clock + Ttl]
             info == lock.of[p].info
             removes == lock.swept \/ lock.file \notin {Disk!NoLock, info}
         IN /\ mine \in LockInfo
            /\ Disk!acquire(p) =>
                 \/ UNCHANGED lock
                 \/ Moved(p, "create", mine, lock.file, lock.swept)
                 \/ /\ Moved(p, "remove", lock.file, lock.file, lock.swept) /\ lock.file.until <= lock.clock
                    /\ lock.file \notin {Disk!NoLock, Disk!Unwritten}
            /\ Disk!remove_lock_file(p) => lock.of[p].pc = "remove" /\ Moved(p, "create", mine, Disk!NoLock, removes)
            /\ Disk!create_new(p) =>
                 /\ lock.of[p].pc = "create"
                 /\ \/ lock.file = Disk!NoLock /\ Moved(p, "write", info, Disk!Unwritten, lock.swept)
                    \/ Moved(p, "idle", Disk!NoLock, lock.file, lock.swept)
            /\ Disk!write_lock(p) => lock.of[p].pc = "write" /\ Moved(p, "held", info, info, lock.swept)
            /\ Disk!release(p) =>
                 /\ lock.of[p].pc = "held"
                 /\ \/ lock.file = info /\ Moved(p, "unlink", info, lock.file, lock.swept)
                    \/ Moved(p, "idle", Disk!NoLock, lock.file, lock.swept)
            /\ Disk!unlink(p) => lock.of[p].pc = "unlink" /\ Moved(p, "idle", Disk!NoLock, Disk!NoLock, removes)
            /\ Disk!die(p) => Moved(p, "idle", Disk!NoLock, lock.file, lock.swept)
<1> DEFINE mine == [owner |-> p, at |-> lock.clock, until |-> lock.clock + Ttl]
           info == lock.of[p].info
           removes == lock.swept \/ lock.file \notin {Disk!NoLock, info}
           Locks == [file : LockInfo, clock : Nat, swept : BOOLEAN, of : [Callers -> [pc : LockSteps, info : LockInfo]]]
<1>1. mine \in LockInfo /\ info \in LockInfo /\ Disk!NoLock \in LockInfo /\ Disk!Unwritten \in LockInfo
      /\ lock.file \in LockInfo
  BY DEF LockTypes, LockInfo, Disk!NoLock, Disk!Unwritten
<1>2. \A pc \in LockSteps, i \in LockInfo : \A l : l = Disk!goes(p, pc, i) =>
        /\ l \in Locks
        /\ l.file = lock.file /\ l.clock = lock.clock /\ l.swept = lock.swept
        /\ l.of[p].pc = pc /\ l.of[p].info = i
        /\ \A q \in Callers : q # p => l.of[q] = lock.of[q]
  BY LockGoes
<1>4. lock.swept \in BOOLEAN /\ removes \in BOOLEAN /\ {"idle", "remove", "create", "write", "held", "unlink"} = LockSteps
  BY DEF LockTypes, LockSteps
<1>5. \A pc \in LockSteps, i \in LockInfo : lock' = Disk!goes(p, pc, i) => Moved(p, pc, i, lock.file, lock.swept)
  <2> TAKE pc \in LockSteps, i \in LockInfo
  <2> HAVE lock' = Disk!goes(p, pc, i)
  <2> DEFINE l == Disk!goes(p, pc, i)
  <2>1. lock' = l /\ l = Disk!goes(p, pc, i)
    OBVIOUS
  <2> HIDE DEF l
  <2> QED BY <1>2, <2>1 DEF Moved
<1>6. \A pc \in LockSteps, i, f \in LockInfo : lock' = [Disk!goes(p, pc, i) EXCEPT !.file = f]
        => Moved(p, pc, i, f, lock.swept)
  <2> TAKE pc \in LockSteps, i, f \in LockInfo
  <2> HAVE lock' = [Disk!goes(p, pc, i) EXCEPT !.file = f]
  <2> DEFINE l == Disk!goes(p, pc, i)
  <2>1. lock' = [l EXCEPT !.file = f] /\ l = Disk!goes(p, pc, i)
    OBVIOUS
  <2> HIDE DEF l, Locks
  <2>2. l \in Locks /\ l.swept = lock.swept
    BY <1>2, <2>1
  <2>3. /\ lock' \in Locks /\ lock'.file = f /\ lock'.clock = l.clock /\ lock'.swept = l.swept /\ lock'.of = l.of
    BY <1>4, <2>1, <2>2 DEF Locks
  <2> QED BY <1>2, <2>1, <2>3 DEF Moved, Locks
<1>7. \A pc \in LockSteps, i, f \in LockInfo :
        lock' = [Disk!goes(p, pc, i) EXCEPT !.file = f, !.swept = @ \/ lock.file \notin {Disk!NoLock, info}]
        => Moved(p, pc, i, f, removes)
  <2> TAKE pc \in LockSteps, i, f \in LockInfo
  <2> HAVE lock' = [Disk!goes(p, pc, i) EXCEPT !.file = f, !.swept = @ \/ lock.file \notin {Disk!NoLock, info}]
  <2> DEFINE l == Disk!goes(p, pc, i)
  <2>1. l = Disk!goes(p, pc, i)
    OBVIOUS
  <2>2. l \in Locks /\ l.swept = lock.swept
    BY <1>2, <2>1
  <2>3. lock' = [l EXCEPT !.file = f, !.swept = removes]
    <3>1. lock' = [l EXCEPT !.file = f, !.swept = l.swept \/ lock.file \notin {Disk!NoLock, info}]
      BY <2>2
    <3> HIDE DEF l
    <3> QED BY <2>2, <3>1
  <2> HIDE DEF l, Locks, removes
  <2>4. /\ lock' \in Locks /\ lock'.file = f /\ lock'.clock = l.clock /\ lock'.swept = removes /\ lock'.of = l.of
    BY <1>4, <2>2, <2>3 DEF Locks
  <2> QED BY <1>2, <2>1, <2>4 DEF Moved, Locks
<1> HIDE DEF mine, removes, info
<1>8. Disk!acquire(p) =>
        \/ UNCHANGED lock
        \/ Moved(p, "create", mine, lock.file, lock.swept)
        \/ /\ Moved(p, "remove", lock.file, lock.file, lock.swept) /\ lock.file.until <= lock.clock
           /\ lock.file \notin {Disk!NoLock, Disk!Unwritten}
  BY <1>1, <1>4, <1>5 DEF Disk!acquire, Disk!expired, mine
<1>9. Disk!remove_lock_file(p) => lock.of[p].pc = "remove" /\ Moved(p, "create", mine, Disk!NoLock, removes)
  BY <1>1, <1>4, <1>7 DEF Disk!remove_lock_file, Disk!at_pc, mine, info
<1>10. Disk!create_new(p) =>
         /\ lock.of[p].pc = "create"
         /\ \/ lock.file = Disk!NoLock /\ Moved(p, "write", info, Disk!Unwritten, lock.swept)
            \/ Moved(p, "idle", Disk!NoLock, lock.file, lock.swept)
  BY <1>1, <1>4, <1>5, <1>6 DEF Disk!create_new, Disk!at_pc, info
<1>11. Disk!write_lock(p) => lock.of[p].pc = "write" /\ Moved(p, "held", info, info, lock.swept)
  BY <1>1, <1>4, <1>6 DEF Disk!write_lock, Disk!at_pc, info
<1>12. Disk!release(p) =>
         /\ lock.of[p].pc = "held"
         /\ \/ lock.file = info /\ Moved(p, "unlink", info, lock.file, lock.swept)
            \/ Moved(p, "idle", Disk!NoLock, lock.file, lock.swept)
  BY <1>1, <1>4, <1>5 DEF Disk!release, Disk!at_pc, info
<1>13. Disk!unlink(p) => lock.of[p].pc = "unlink" /\ Moved(p, "idle", Disk!NoLock, Disk!NoLock, removes)
  BY <1>1, <1>4, <1>7 DEF Disk!unlink, Disk!at_pc, info
<1>14. Disk!die(p) => Moved(p, "idle", Disk!NoLock, lock.file, lock.swept)
  BY <1>1, <1>4, <1>5 DEF Disk!die
<1> QED BY <1>1, <1>8, <1>9, <1>10, <1>11, <1>12, <1>13, <1>14 DEF mine, info, removes

\* What a move has to respect to keep the invariant.
LEMMA MoveKeeps ==
  ASSUME LockInv, OwnersApart, NEW p \in Callers, NEW pc, NEW info, NEW content, NEW swept,
         Moved(p, pc, info, content, swept),
         lock.swept => swept,
         pc = "remove" => info.until <= lock.clock /\ info.owner \in Callers,
         pc \in {"create", "write", "held", "unlink"} => info.owner = p,
         ~swept /\ pc = "write" => content = Disk!Unwritten /\ lock.file = Disk!NoLock,
         ~swept /\ pc \in {"held", "unlink"} /\ info.until > lock.clock => content = info,
         ~swept => \/ content = lock.file
                   \/ lock.file = Disk!NoLock
                   \/ lock.of[p].pc = "write"
                   \/ lock.file = lock.of[p].info /\ lock.of[p].pc = "remove"
                   \/ lock.file = lock.of[p].info /\ lock.of[p].pc = "unlink"
  PROVE  LockInv'
<1>1. LockTypes'
  BY DEF Moved, LockTypes
<1>2. KnownInv'
  BY DEF Moved, LockInv, KnownInv
<1>3. FileInv'
  <2> SUFFICES ASSUME ~swept PROVE FileInv'
    BY DEF Moved, FileInv
  <2>1. FileInv /\ ~lock.swept /\ \A q \in Callers : q # p => lock'.of[q] = lock.of[q]
    BY DEF LockInv, Moved
  <2>2. Disk!NoLock.owner = "none" /\ Disk!Unwritten.owner = "unwritten"
    BY DEF Disk!NoLock, Disk!Unwritten
  <2>3. ASSUME NEW q \in Callers, q # p, lock.of[q].pc = "write" PROVE lock.file = Disk!Unwritten /\ content = lock.file
    BY <2>1, <2>2, <2>3 DEF FileInv, OwnersApart, LockInv, KnownInv
  <2>4. ASSUME NEW q \in Callers, q # p, lock.of[q].pc \in {"held", "unlink"}, lock.of[q].info.until > lock.clock
        PROVE  lock.file = lock.of[q].info /\ content = lock.file
    <3>1. lock.file = lock.of[q].info /\ lock.file.owner = q
      BY <2>1, <2>4 DEF FileInv, LockInv, KnownInv
    <3>2. lock.of[p].pc # "write" /\ lock.file # Disk!NoLock
      BY <2>1, <2>2, <3>1 DEF FileInv, OwnersApart
    <3>3. ~(lock.file = lock.of[p].info /\ lock.of[p].pc = "unlink")
      BY <2>4, <3>1 DEF LockInv, KnownInv
    <3>4. ~(lock.file = lock.of[p].info /\ lock.of[p].pc = "remove")
      <4>1. lock.clock \in Nat /\ lock.of[q].info.until \in Nat
        BY DEF LockInv, LockTypes, LockInfo, Disk!NoLock, Disk!Unwritten
      <4> QED BY <2>4, <3>1, <4>1 DEF LockInv, KnownInv
    <3> QED BY <3>1, <3>2, <3>3, <3>4
  <2>5. ASSUME NEW q \in Callers, lock'.of[q].pc = "write"
        PROVE lock'.file = Disk!Unwritten /\ \A r \in Callers : lock'.of[r].pc = "write" => q = r
    <3>1. lock'.of[p].pc = pc /\ lock'.file = content
      BY DEF Moved
    <3>2. CASE pc = "write"
      BY <2>1, <2>2, <2>3, <2>5, <3>1, <3>2
    <3>3. CASE pc # "write"
      BY <2>1, <2>3, <2>5, <3>1, <3>3 DEF FileInv
    <3> QED BY <3>2, <3>3
  <2>6. ASSUME NEW q \in Callers, lock'.of[q].pc \in {"held", "unlink"}, lock'.of[q].info.until > lock'.clock
        PROVE lock'.file = lock'.of[q].info
    BY <2>1, <2>4, <2>6 DEF Moved
  <2> QED BY <2>5, <2>6 DEF FileInv, Disk!Unwritten, Disk!NoLock
<1> QED BY <1>1, <1>2, <1>3 DEF LockInv

\* Every step of the lock keeps the invariant.
LEMMA LockStep == ASSUME LockInv, OwnersApart, Ttl \in Nat, Disk!LockNext PROVE LockInv'
<1>0. LockTypes /\ KnownInv /\ FileInv
  BY DEF LockInv
<1>1. CASE Disk!tick
  <2>1. /\ lock'.file = lock.file /\ lock'.of = lock.of /\ lock'.swept = lock.swept
        /\ lock'.clock = lock.clock + 1 /\ lock.clock \in Nat
    BY <1>0, <1>1 DEF Disk!tick, LockTypes
  <2>2. LockTypes'
    BY <1>0, <1>1 DEF Disk!tick, LockTypes
  <2>3. \A p \in Callers : lock.of[p].info.until \in Nat
    BY <1>0 DEF LockTypes, LockInfo, Disk!NoLock, Disk!Unwritten
  <2>4. KnownInv'
    BY <1>0, <2>1, <2>3 DEF KnownInv
  <2>5. FileInv'
    BY <1>0, <2>1, <2>3 DEF FileInv, Disk!Unwritten, Disk!NoLock
  <2> QED BY <2>2, <2>4, <2>5 DEF LockInv
<1>2. ASSUME NEW p \in Callers,
             Disk!acquire(p) \/ Disk!remove_lock_file(p) \/ Disk!create_new(p) \/ Disk!write_lock(p)
             \/ Disk!release(p) \/ Disk!unlink(p) \/ Disk!die(p)
      PROVE  LockInv'
  <2> DEFINE mine == [owner |-> p, at |-> lock.clock, until |-> lock.clock + Ttl]
             info == lock.of[p].info
             removes == lock.swept \/ lock.file \notin {Disk!NoLock, info}
  <2>0. mine.owner = p
    OBVIOUS
  <2>1. CASE UNCHANGED lock
    BY <1>0, <2>1 DEF LockInv, LockTypes, KnownInv, FileInv, Disk!Unwritten, Disk!NoLock
  <2>2. CASE Moved(p, "create", mine, lock.file, lock.swept)
    <3> HIDE DEF mine
    <3> QED BY <2>0, <2>2, MoveKeeps
  <2>3. CASE /\ Moved(p, "remove", lock.file, lock.file, lock.swept) /\ lock.file.until <= lock.clock
             /\ lock.file \notin {Disk!NoLock, Disk!Unwritten}
    <3>1. lock.file.owner \in Callers
      BY <1>0, <2>3 DEF LockTypes, LockInfo
    <3> QED BY <2>3, <3>1, MoveKeeps
  <2>4. CASE lock.of[p].pc = "remove" /\ Moved(p, "create", mine, Disk!NoLock, removes)
    <3>1. lock.swept => removes
      OBVIOUS
    <3>2. ~removes => lock.file = Disk!NoLock \/ lock.file = lock.of[p].info
      OBVIOUS
    <3> HIDE DEF mine, removes
    <3> QED BY <2>0, <2>4, <3>1, <3>2, MoveKeeps
  <2>5. CASE lock.of[p].pc = "create" /\ lock.file = Disk!NoLock /\ Moved(p, "write", info, Disk!Unwritten, lock.swept)
    BY <1>0, <2>5, MoveKeeps DEF KnownInv
  <2>6. CASE Moved(p, "idle", Disk!NoLock, lock.file, lock.swept)
    BY <2>6, MoveKeeps
  <2>7. CASE lock.of[p].pc = "write" /\ Moved(p, "held", info, info, lock.swept)
    BY <1>0, <2>7, MoveKeeps DEF KnownInv
  <2>8. CASE lock.of[p].pc = "held" /\ lock.file = info /\ Moved(p, "unlink", info, lock.file, lock.swept)
    BY <1>0, <2>8, MoveKeeps DEF KnownInv
  <2>9. CASE lock.of[p].pc = "unlink" /\ Moved(p, "idle", Disk!NoLock, Disk!NoLock, removes)
    <3>1. lock.swept => removes
      OBVIOUS
    <3>2. ~removes => lock.file = Disk!NoLock \/ lock.file = lock.of[p].info
      OBVIOUS
    <3> HIDE DEF removes
    <3> QED BY <2>9, <3>1, <3>2, MoveKeeps
  <2> QED BY <1>0, <1>2, <2>1, <2>2, <2>3, <2>4, <2>5, <2>6, <2>7, <2>8, <2>9, LockMoves
<1> QED BY <1>1, <1>2 DEF Disk!LockNext

\* A migration under way: how far the steps are, and what init read.
RootInv ==
  /\ root \in [version : Disk!Target, layout : SUBSET Nat, pc : {"idle", "steps"}, next : Nat, to : Nat,
               opening : 0 .. (Supported + 1), saved : SUBSET [name : Nat, holds : Nat], ahead : BOOLEAN]
  /\ root.pc = "steps" => root.to \in Disk!Target /\ 0 .. root.next \subseteq root.layout
  /\ root.opening <= Supported => 0 .. root.opening \subseteq root.layout
  /\ Disk!MigrationSound

\* The root has a layout at first.
LEMMA RootStarts == ASSUME Supported \in Nat PROVE Disk!Init => RootInv
<1> SUFFICES ASSUME Disk!Init PROVE RootInv
  OBVIOUS
<1>1. PICK v \in Disk!Target : root = [version |-> v, layout |-> 0 .. v, pc |-> "idle", next |-> v, to |-> v,
                opening |-> Supported + 1, saved |-> {}, ahead |-> FALSE]
  BY DEF Disk!Init
<1>2. v \in Nat
  BY DEF Disk!Target
<1> QED BY <1>1, <1>2 DEF RootInv, Disk!MigrationSound

\* Every step of a migration, and of an init beside it, keeps the invariant.
LEMMA RootStep == ASSUME Supported \in Nat, RootInv, Disk!MigrationNext PROVE RootInv'
<1> DEFINE Roots == [version : Disk!Target, layout : SUBSET Nat, pc : {"idle", "steps"}, next : Nat, to : Nat,
                     opening : 0 .. (Supported + 1), saved : SUBSET [name : Nat, holds : Nat], ahead : BOOLEAN]
<1>0. /\ root \in Roots /\ 0 .. root.version \subseteq root.layout /\ ~root.ahead
      /\ \A b \in root.saved : b.name = b.holds
      /\ root.pc = "steps" => root.to \in Disk!Target /\ 0 .. root.next \subseteq root.layout
      /\ root.opening <= Supported => 0 .. root.opening \subseteq root.layout
      /\ root.version \in Nat
  BY DEF RootInv, Disk!MigrationSound, Disk!Target
<1>1. ASSUME NEW v \in Disk!Target, Disk!init_root(v) PROVE RootInv'
  BY <1>0, <1>1 DEF Disk!init_root, RootInv, Disk!MigrationSound, Disk!Target
<1>2. ASSUME NEW v \in Disk!Target, Disk!begin_migration(v) PROVE RootInv'
  <2>1. v \in Nat /\ [name |-> root.version, holds |-> root.version] \in [name : Nat, holds : Nat]
    BY <1>0 DEF Disk!Target
  <2> DEFINE new == [name |-> root.version, holds |-> root.version]
  <2>2. new.name = new.holds /\ new \in [name : Nat, holds : Nat]
    BY <2>1
  <2>3. root' = [root EXCEPT !.pc = "steps", !.next = root.version, !.to = v, !.saved = @ \cup {new}]
    BY <1>2 DEF Disk!begin_migration
  <2> HIDE DEF new
  <2>4. root' \in Roots
    BY <1>0, <2>1, <2>2, <2>3
  <2>5. /\ root'.version = root.version /\ root'.layout = root.layout /\ root'.next = root.version /\ root'.to = v
        /\ root'.opening = root.opening /\ root'.ahead = root.ahead /\ root'.saved = root.saved \cup {new}
    BY <1>0, <2>3
  <2>6. \A b \in root'.saved : b.name = b.holds
    BY <1>0, <2>2, <2>5
  <2> QED BY <1>0, <2>4, <2>5, <2>6 DEF RootInv, Disk!MigrationSound
<1>3. ASSUME NEW ok \in BOOLEAN, Disk!run_step(ok) PROVE RootInv'
  <2>1. root.pc = "steps" /\ root.next \in Nat /\ 0 .. root.next \subseteq root.layout /\ root.next \in root.layout
    BY <1>0, <1>3 DEF Disk!run_step
  <2>2. root' = [root EXCEPT !.layout = @ \cup {root.next + 1}, !.next = IF ok THEN @ + 1 ELSE @,
                             !.pc = IF ok THEN @ ELSE "idle"]
    BY <1>0, <1>3, <2>1 DEF Disk!run_step
  <2>3. root' \in Roots
    <3>1. root.next + 1 \in Nat /\ root.layout \cup {root.next + 1} \in SUBSET Nat
      BY <1>0, <2>1
    <3>2. CASE ok
      <4>1. root' = [root EXCEPT !.layout = root.layout \cup {root.next + 1}, !.next = root.next + 1]
        BY <1>0, <2>2, <3>2
      <4> QED BY <1>0, <3>1, <4>1
    <3>3. CASE ~ok
      <4>1. root' = [root EXCEPT !.layout = root.layout \cup {root.next + 1}, !.pc = "idle"]
        BY <1>0, <2>2, <3>3
      <4> QED BY <1>0, <3>1, <4>1
    <3> QED BY <3>2, <3>3
  <2>4. /\ root'.version = root.version /\ root'.layout = root.layout \cup {root.next + 1}
        /\ root'.next \in {root.next, root.next + 1} /\ root'.to = root.to
        /\ root'.opening = root.opening /\ root'.ahead = root.ahead /\ root'.saved = root.saved
    BY <1>0, <2>2
  <2>5. 0 .. root'.next \subseteq root'.layout
    BY <2>1, <2>4
  <2> QED BY <1>0, <2>1, <2>3, <2>4, <2>5 DEF RootInv, Disk!MigrationSound
<1>4. CASE Disk!init_rewrites_manifest
  <2>1. root.opening \in Disk!Target /\ 0 .. root.opening \subseteq root.layout
    BY <1>0, <1>4 DEF Disk!init_rewrites_manifest, Disk!Target
  <2>2. Supported + 1 \in 0 .. (Supported + 1) /\ ~(Supported + 1 <= Supported)
    OBVIOUS
  <2>3. root' = [root EXCEPT !.version = root.opening, !.opening = Supported + 1]
    BY <1>4 DEF Disk!init_rewrites_manifest
  <2> QED BY <1>0, <2>1, <2>2, <2>3 DEF RootInv, Disk!MigrationSound
<1>5. CASE Disk!write_manifest
  BY <1>0, <1>5 DEF Disk!write_manifest, RootInv, Disk!MigrationSound
<1>6. CASE Disk!stop_migration
  BY <1>0, <1>6 DEF Disk!stop_migration, RootInv, Disk!MigrationSound
<1> QED BY <1>1, <1>2, <1>3, <1>4, <1>5, <1>6 DEF Disk!MigrationNext

\* A backup under way: what is copied, listed and restored.
BackupInv ==
  /\ exported \in [pc : {"idle", "exporting", "restoring"}, begun : BOOLEAN, todo : SUBSET Files, live : [Files -> Nat],
                   ever : [Files -> SUBSET Nat], copy : [Files -> Nat], listed : [Files -> Nat], target : [Files -> Nat],
                   complete : BOOLEAN, late : BOOLEAN, restored : BOOLEAN]
  /\ exported.complete => exported.begun /\ exported.pc # "exporting"
  /\ exported.restored => exported.complete
  /\ exported.pc = "exporting" => exported.begun
  /\ exported.pc = "restoring" => exported.complete
  /\ exported.pc = "restoring" /\ ~exported.late =>
       \A f \in Files : /\ exported.copy[f] = exported.listed[f]
                        /\ f \in exported.todo \/ exported.target[f] = exported.copy[f]
  /\ \A f \in Files : /\ exported.live[f] \in exported.ever[f] \cup {Disk!None}
                      /\ exported.copy[f] \in exported.ever[f] \cup {Disk!None, Disk!Torn}
  /\ Disk!BackupSound

\* Nothing is exported at first.
LEMMA BackupStarts == ASSUME MaxWrites \in Nat PROVE Disk!Init => BackupInv
BY DEF Disk!Init, BackupInv, Disk!BackupSound, Disk!Empty, Disk!None, Disk!Torn

\* Every step of an export, a restore and of the writers beside them keeps the invariant.
LEMMA BackupStep == ASSUME MaxWrites \in Nat, BackupInv, Disk!BackupNext PROVE BackupInv'
<1> DEFINE Backups == [pc : {"idle", "exporting", "restoring"}, begun : BOOLEAN, todo : SUBSET Files, live : [Files -> Nat],
                       ever : [Files -> SUBSET Nat], copy : [Files -> Nat], listed : [Files -> Nat], target : [Files -> Nat],
                       complete : BOOLEAN, late : BOOLEAN, restored : BOOLEAN]
<1>0. exported \in Backups /\ Disk!Torn \in Nat /\ Disk!None \in Nat
  BY DEF BackupInv, Disk!Torn, Disk!None
<1>1. CASE Disk!begin_export
  BY <1>0, <1>1 DEF Disk!begin_export, BackupInv, Disk!BackupSound
<1>2. CASE Disk!write_backup_manifest
  BY <1>0, <1>2 DEF Disk!write_backup_manifest, BackupInv, Disk!BackupSound
<1>3. CASE Disk!begin_restore
  BY <1>0, <1>3 DEF Disk!begin_restore, BackupInv, Disk!BackupSound, Disk!verified
<1>4. CASE Disk!stop_backup
  BY <1>0, <1>4 DEF Disk!stop_backup, BackupInv, Disk!BackupSound
<1>5. ASSUME NEW f \in Files, Disk!write_live(f) PROVE BackupInv'
  <2>1. PICK v \in 1 .. MaxWrites : exported' = [exported EXCEPT !.live[f] = v, !.ever[f] = @ \cup {v}]
    BY <1>5 DEF Disk!write_live
  <2>2. v \in Nat
    OBVIOUS
  <2>3. exported' \in Backups
    BY <1>0, <2>1, <2>2
  <2>4. /\ exported'.live[f] = v /\ v \in exported'.ever[f]
        /\ \A g \in Files : exported.ever[g] \subseteq exported'.ever[g] /\ (g # f => exported'.live[g] = exported.live[g])
    BY <1>0, <2>1
  <2>5. /\ exported'.pc = exported.pc /\ exported'.begun = exported.begun /\ exported'.todo = exported.todo
        /\ exported'.copy = exported.copy /\ exported'.listed = exported.listed /\ exported'.target = exported.target
        /\ exported'.complete = exported.complete /\ exported'.late = exported.late
        /\ exported'.restored = exported.restored
    BY <1>0, <2>1
  <2> QED BY <2>3, <2>4, <2>5 DEF BackupInv, Disk!BackupSound, Disk!None, Disk!Torn
<1>6. ASSUME NEW f \in Files, Disk!damage(f) PROVE BackupInv'
  BY <1>0, <1>6 DEF Disk!damage, BackupInv, Disk!BackupSound
<1>7. ASSUME NEW f \in Files, Disk!restore_file(f) PROVE BackupInv'
  BY <1>0, <1>7 DEF Disk!restore_file, BackupInv, Disk!BackupSound
<1>8. ASSUME NEW f \in Files, NEW torn \in BOOLEAN, Disk!copy_file(f, torn) PROVE BackupInv'
  BY <1>0, <1>8 DEF Disk!copy_file, BackupInv, Disk!BackupSound
<1>9. ASSUME NEW ok \in BOOLEAN, Disk!end_restore(ok) PROVE BackupInv'
  <2>1. /\ exported.pc = "restoring" /\ exported.todo = {} /\ exported' \in Backups
        /\ exported' = [exported EXCEPT !.pc = "idle", !.restored = ok]
    BY <1>0, <1>9 DEF Disk!end_restore
  <2>2. /\ exported'.pc = "idle" /\ exported'.begun = exported.begun /\ exported'.todo = exported.todo
        /\ exported'.live = exported.live /\ exported'.ever = exported.ever /\ exported'.copy = exported.copy
        /\ exported'.listed = exported.listed /\ exported'.target = exported.target
        /\ exported'.complete = exported.complete /\ exported'.late = exported.late
    BY <1>0, <2>1
  <2>3. exported.complete
    BY <2>1 DEF BackupInv
  <2>4. Disk!BackupSound'
    <3>1. ~exported.late => \A f \in Files : exported.target[f] = exported.listed[f]
      BY <2>1 DEF BackupInv
    <3> QED BY <2>2, <3>1 DEF BackupInv, Disk!BackupSound, Disk!None, Disk!Torn
  <2> QED BY <2>1, <2>2, <2>3, <2>4 DEF BackupInv, Disk!None, Disk!Torn
<1> QED BY <1>1, <1>2, <1>3, <1>4, <1>5, <1>6, <1>7, <1>8, <1>9 DEF Disk!BackupNext

\* A directory of an artifact is whole when it was acknowledged, and an inspection under way has seen what it started with.
ObjectInv ==
  /\ objects \in [dirs : [Artifacts -> [made : Nat, torn : BOOLEAN]], writing : SUBSET Artifacts, acked : SUBSET Artifacts,
                  links : SUBSET Artifacts, loadable : BOOLEAN, pc : {"idle", "listing", "journals"},
                  damaged : SUBSET Artifacts, stored : SUBSET Artifacts, orphans : SUBSET Artifacts,
                  broken : SUBSET Artifacts, skipped : BOOLEAN, report : {"none", "error", "done"},
                  before : [links : SUBSET Artifacts, acked : SUBSET Artifacts]]
  /\ objects.acked \cap objects.writing = {}
  /\ objects.pc # "idle" => /\ objects.damaged \cap objects.before.acked = {}
                            /\ objects.before.acked \subseteq objects.acked
                            /\ objects.before.links \subseteq objects.links
  /\ objects.pc = "journals" => objects.before.acked \subseteq objects.stored
  /\ Disk!ArtifactsSound

\* There is no artifact at first.
LEMMA ObjectsStart == Disk!Init => ObjectInv
BY DEF Disk!Init, ObjectInv, Disk!ArtifactsSound, Disk!NoDir, Disk!whole

\* Every step of the artifact store, the journals and the inspection keeps the invariant.
LEMMA ObjectStep == ASSUME ObjectInv, Disk!ObjectNext PROVE ObjectInv'
<1> DEFINE Dirs == [made : Nat, torn : BOOLEAN]
           Objects == [dirs : [Artifacts -> Dirs], writing : SUBSET Artifacts, acked : SUBSET Artifacts,
                  links : SUBSET Artifacts, loadable : BOOLEAN, pc : {"idle", "listing", "journals"},
                  damaged : SUBSET Artifacts, stored : SUBSET Artifacts, orphans : SUBSET Artifacts,
                  broken : SUBSET Artifacts, skipped : BOOLEAN, report : {"none", "error", "done"},
                  before : [links : SUBSET Artifacts, acked : SUBSET Artifacts]]
<1>0. Len(Disk!Stages) = 4
  BY DEF Disk!Stages
<1> DEFINE Written(a) ==
             /\ objects' \in Objects
             /\ \A b \in Artifacts : b # a => objects'.dirs[b] = objects.dirs[b]
             /\ a \notin objects.acked /\ objects'.writing \subseteq objects.writing \cup {a}
             /\ objects'.acked = objects.acked /\ objects'.links = objects.links
             /\ objects'.pc = objects.pc /\ objects'.damaged = objects.damaged /\ objects'.stored = objects.stored
             /\ objects'.orphans = objects.orphans /\ objects'.broken = objects.broken
             /\ objects'.skipped = objects.skipped /\ objects'.report = objects.report /\ objects'.before = objects.before
<1>d. ASSUME NEW a \in Artifacts, Written(a) PROVE ObjectInv'
  <2>1. objects'.acked \cap objects'.writing = {}
    BY <1>d DEF ObjectInv
  <2>2. \A b \in objects'.acked : b # a /\ b \in Artifacts /\ objects'.dirs[b] = objects.dirs[b]
    BY <1>d DEF ObjectInv
  <2>3. \A b \in objects'.acked : Disk!whole(b)'
    BY <1>d, <2>2 DEF ObjectInv, Disk!ArtifactsSound, Disk!whole
  <2> QED BY <1>d, <2>1, <2>3 DEF ObjectInv, Disk!ArtifactsSound
<1>1. ASSUME NEW a \in Artifacts, Disk!put_with_content(a) PROVE ObjectInv'
  <2>1. a \notin objects.acked
    BY <1>0, <1>1 DEF Disk!put_with_content, ObjectInv, Disk!ArtifactsSound, Disk!NoDir, Disk!whole
  <2>2. Written(a)
    <3> DEFINE e == [objects.dirs EXCEPT ![a].made = 1]
    <3>1. e \in [Artifacts -> Dirs] /\ \A b \in Artifacts : b # a => e[b] = objects.dirs[b]
      BY DEF ObjectInv
    <3>2. objects' = [objects EXCEPT !.dirs = e, !.writing = @ \cup {a}]
      BY <1>1 DEF Disk!put_with_content, ObjectInv
    <3> HIDE DEF e, Dirs
    <3> QED BY <2>1, <3>1, <3>2 DEF ObjectInv, Dirs
  <2> QED BY <1>d, <2>2
<1>2. ASSUME NEW a \in Artifacts, Disk!write_stage(a) PROVE ObjectInv'
  <2>1. a \notin objects.acked
    BY <1>2 DEF Disk!write_stage, ObjectInv
  <2>2. Written(a)
    <3>1. objects.dirs[a].made \in Nat
      BY DEF ObjectInv
    <3>2. CASE objects' = [objects EXCEPT !.dirs[a].torn = FALSE]
      <4> DEFINE e == [objects.dirs EXCEPT ![a].torn = FALSE]
      <4>1. e \in [Artifacts -> Dirs] /\ \A b \in Artifacts : b # a => e[b] = objects.dirs[b]
        BY DEF ObjectInv
      <4>2. objects' = [objects EXCEPT !.dirs = e]
        BY <3>2 DEF ObjectInv
      <4> HIDE DEF e, Dirs
      <4> QED BY <2>1, <4>1, <4>2 DEF ObjectInv, Dirs
    <3> DEFINE more == [made |-> objects.dirs[a].made + 1, torn |-> TRUE]
    <3>3. CASE objects' = [objects EXCEPT !.dirs[a] = more]
      <4>1. more \in Dirs
        BY <3>1
      <4> HIDE DEF more
      <4> QED BY <2>1, <3>3, <4>1 DEF ObjectInv
    <3> QED BY <1>2, <3>2, <3>3 DEF Disk!write_stage
  <2> QED BY <1>d, <2>2
<1>3. ASSUME NEW a \in Artifacts, Disk!put_returns(a) PROVE ObjectInv'
  BY <1>3 DEF Disk!put_returns, ObjectInv, Disk!ArtifactsSound, Disk!whole
<1>4. ASSUME NEW a \in Artifacts, Disk!cut_put(a) PROVE ObjectInv'
  BY <1>4 DEF Disk!cut_put, ObjectInv, Disk!ArtifactsSound, Disk!whole
<1>5. ASSUME NEW a \in Artifacts, Disk!link(a) PROVE ObjectInv'
  BY <1>5 DEF Disk!link, ObjectInv, Disk!ArtifactsSound, Disk!whole
<1>6. CASE Disk!lose_journal
  BY <1>6 DEF Disk!lose_journal, ObjectInv, Disk!ArtifactsSound, Disk!whole
<1>7. CASE Disk!begin_inspection
  <2> DEFINE bad == {a \in Disk!listed : ~Disk!whole(a)}
             seen == [links |-> objects.links, acked |-> objects.acked]
  <2>1. CASE objects' = [objects EXCEPT !.report = "error"]
    BY <2>1 DEF ObjectInv, Disk!ArtifactsSound, Disk!whole
  <2>2. CASE /\ objects.pc = "idle"
             /\ objects' = [objects EXCEPT !.pc = "listing", !.report = "none", !.damaged = bad, !.before = seen]
    <3>1. bad \in SUBSET Artifacts /\ bad \cap objects.acked = {}
      BY DEF Disk!listed, ObjectInv, Disk!ArtifactsSound
    <3>2. seen \in [links : SUBSET Artifacts, acked : SUBSET Artifacts] /\ seen.links = objects.links
          /\ seen.acked = objects.acked
      BY DEF ObjectInv
    <3> HIDE DEF bad, seen
    <3> QED BY <2>2, <3>1, <3>2 DEF ObjectInv, Disk!ArtifactsSound, Disk!whole
  <2> QED BY <1>7, <2>1, <2>2 DEF Disk!begin_inspection
<1>8. CASE Disk!list_artifact_ids
  <2>1. Disk!listed \in SUBSET Artifacts /\ objects.acked \subseteq Disk!listed
    BY <1>0 DEF ObjectInv, Disk!ArtifactsSound, Disk!whole, Disk!listed, Disk!NoDir
  <2> QED BY <1>8, <2>1 DEF Disk!list_artifact_ids, ObjectInv, Disk!ArtifactsSound, Disk!whole
<1>9. CASE Disk!detect_artifact_references
  BY <1>9 DEF Disk!detect_artifact_references, ObjectInv, Disk!ArtifactsSound, Disk!whole
<1> QED BY <1>1, <1>2, <1>3, <1>4, <1>5, <1>6, <1>7, <1>8, <1>9 DEF Disk!ObjectNext

\* A line of the chained log.
LogLine == [torn : BOOLEAN, after : Nat]
\* Where a process is with the files of the knowledge engine.
EngineSteps == {"idle", "blob", "metadata", "tmp", "rename", "append"}

\* Of the blob: a torn one is being written, a known one is there.
BlobInv ==
  /\ \A p \in Callers : engine.pc[p] \in {"blob", "metadata"} => engine.blob # "none"
  /\ engine.put => engine.metadata /\ engine.blob # "none"
  /\ ~engine.cut /\ engine.blob = "torn" => \E p \in Callers : engine.pc[p] = "blob"
\* Of the projection: who has the shared file has it alone.
ProjectionInv ==
  ~engine.shared =>
    /\ engine.projection # "torn"
    /\ \A p \in Callers : /\ engine.pc[p] = "tmp" => engine.tmp # "none"
                          /\ engine.pc[p] = "rename" => engine.tmp = "whole"
    /\ \A p, q \in Callers : engine.pc[p] \in {"tmp", "rename"} /\ engine.pc[q] \in {"tmp", "rename"} => p = q
\* Of the log: who appends does so alone, behind the line it read.
ChainedInv ==
  ~engine.overlapped =>
    /\ \A i \in DOMAIN engine.log : engine.log[i].after = i - 1
    /\ \A p \in Callers : engine.pc[p] = "append" => engine.prev[p] = Len(engine.log)
    /\ \A p, q \in Callers : engine.pc[p] = "append" /\ engine.pc[q] = "append" => p = q

\* The invariant of the knowledge engine's files.
EngineInv ==
  /\ engine \in [pc : [Callers -> EngineSteps], prev : [Callers -> Nat], blob : {"none", "torn", "whole"},
                 metadata : BOOLEAN, put : BOOLEAN, tmp : {"none", "torn", "whole"}, projection : {"none", "torn", "whole"},
                 shared : BOOLEAN, log : Seq(LogLine), overlapped : BOOLEAN, cut : BOOLEAN]
  /\ BlobInv /\ ProjectionInv /\ ChainedInv

\* The engine has no files at first.
LEMMA EngineStarts == Disk!Init => EngineInv
BY DEF Disk!Init, EngineInv, EngineSteps, BlobInv, ProjectionInv, ChainedInv

\* Every step of a process that uses the engine keeps the invariant.
LEMMA EngineStep == ASSUME EngineInv, Disk!EngineNext PROVE EngineInv'
<1> DEFINE Engines == [pc : [Callers -> EngineSteps], prev : [Callers -> Nat], blob : {"none", "torn", "whole"},
                 metadata : BOOLEAN, put : BOOLEAN, tmp : {"none", "torn", "whole"}, projection : {"none", "torn", "whole"},
                 shared : BOOLEAN, log : Seq(LogLine), overlapped : BOOLEAN, cut : BOOLEAN]
<1>0. PICK p \in Callers : \/ Disk!put_blob(p) \/ Disk!write_blob(p) \/ Disk!put_blob_returns(p)
                          \/ Disk!write_tmp(p) \/ Disk!finish_tmp(p) \/ Disk!rename(p)
                          \/ Disk!latest_jsonl_hash(p) \/ (\E torn \in BOOLEAN : Disk!append_jsonl(p, torn)) \/ Disk!cut(p)
  BY DEF Disk!EngineNext
<1>1. engine \in Engines /\ BlobInv /\ ProjectionInv /\ ChainedInv
  BY DEF EngineInv
<1>2. {"idle", "blob", "metadata", "tmp", "rename", "append"} = EngineSteps
  BY DEF EngineSteps
<1>3. CASE Disk!put_blob(p)
  <2>1. engine' \in Engines
    BY <1>1, <1>2, <1>3 DEF Disk!put_blob, Disk!moves
  <2>2. BlobInv'
    BY <1>1, <1>2, <1>3 DEF Disk!put_blob, Disk!moves, Disk!engine_at, BlobInv
  <2>3. ProjectionInv' /\ ChainedInv'
    BY <1>1, <1>2, <1>3 DEF Disk!put_blob, Disk!moves, Disk!engine_at, ProjectionInv, ChainedInv
  <2> QED BY <2>1, <2>2, <2>3 DEF EngineInv
<1>4. CASE Disk!write_blob(p)
  <2>1. engine' \in Engines
    BY <1>1, <1>2, <1>4 DEF Disk!write_blob, Disk!moves
  <2>2. BlobInv'
    BY <1>1, <1>2, <1>4 DEF Disk!write_blob, Disk!moves, Disk!engine_at, BlobInv
  <2>3. ProjectionInv' /\ ChainedInv'
    BY <1>1, <1>2, <1>4 DEF Disk!write_blob, Disk!moves, Disk!engine_at, ProjectionInv, ChainedInv
  <2> QED BY <2>1, <2>2, <2>3 DEF EngineInv
<1>5. CASE Disk!put_blob_returns(p)
  <2>1. engine' \in Engines
    BY <1>1, <1>2, <1>5 DEF Disk!put_blob_returns, Disk!moves
  <2>2. BlobInv'
    BY <1>1, <1>2, <1>5 DEF Disk!put_blob_returns, Disk!moves, Disk!engine_at, BlobInv
  <2>3. ProjectionInv' /\ ChainedInv'
    BY <1>1, <1>2, <1>5 DEF Disk!put_blob_returns, Disk!moves, Disk!engine_at, ProjectionInv, ChainedInv
  <2> QED BY <2>1, <2>2, <2>3 DEF EngineInv
<1>6. CASE Disk!write_tmp(p)
  <2>1. engine' \in Engines
    BY <1>1, <1>2, <1>6 DEF Disk!write_tmp, Disk!moves
  <2>2. BlobInv' /\ ChainedInv'
    BY <1>1, <1>2, <1>6 DEF Disk!write_tmp, Disk!moves, Disk!engine_at, BlobInv, ChainedInv
  <2>3. ProjectionInv'
    <3>1. /\ engine'.shared = (engine.shared \/ engine.tmp # "none") /\ engine'.tmp = "torn"
          /\ engine'.projection = engine.projection /\ engine'.pc = [engine.pc EXCEPT ![p] = "tmp"]
      BY <1>1, <1>6 DEF Disk!write_tmp, Disk!moves
    <3>2. engine.pc \in [Callers -> EngineSteps]
      BY <1>1
    <3>3. engine'.pc[p] = "tmp" /\ \A q \in Callers : q # p => engine'.pc[q] = engine.pc[q]
      BY <3>1, <3>2
    <3>4. SUFFICES ASSUME ~engine'.shared PROVE ProjectionInv'
      BY DEF ProjectionInv
    <3>5. ~engine.shared /\ engine.tmp = "none"
      <4>1. ~(engine.shared \/ engine.tmp # "none")
        BY <3>1, <3>4
      <4> QED BY <4>1
    <3>6. \A q \in Callers : engine.pc[q] \notin {"tmp", "rename"}
      BY <1>1, <3>5 DEF ProjectionInv
    <3>7. \A q \in Callers : engine'.pc[q] \in {"tmp", "rename"} => q = p
      BY <3>3, <3>6
    <3> QED BY <1>1, <3>1, <3>3, <3>5, <3>7 DEF ProjectionInv
  <2> QED BY <2>1, <2>2, <2>3 DEF EngineInv
<1>7. CASE Disk!finish_tmp(p)
  <2>1. engine' \in Engines
    BY <1>1, <1>2, <1>7 DEF Disk!finish_tmp, Disk!moves
  <2>2. BlobInv' /\ ChainedInv'
    BY <1>1, <1>2, <1>7 DEF Disk!finish_tmp, Disk!moves, Disk!engine_at, BlobInv, ChainedInv
  <2>3. ProjectionInv'
    BY <1>1, <1>2, <1>7 DEF Disk!finish_tmp, Disk!moves, Disk!engine_at, ProjectionInv
  <2> QED BY <2>1, <2>2, <2>3 DEF EngineInv
<1>8. CASE Disk!rename(p)
  <2>1. engine' \in Engines
    BY <1>1, <1>2, <1>8 DEF Disk!rename, Disk!moves
  <2>2. BlobInv' /\ ChainedInv'
    BY <1>1, <1>2, <1>8 DEF Disk!rename, Disk!moves, Disk!engine_at, BlobInv, ChainedInv
  <2>3. ProjectionInv'
    BY <1>1, <1>2, <1>8 DEF Disk!rename, Disk!moves, Disk!engine_at, ProjectionInv
  <2> QED BY <2>1, <2>2, <2>3 DEF EngineInv
<1>9. CASE Disk!latest_jsonl_hash(p)
  <2>0. Len(engine.log) \in Nat /\ (engine.overlapped \/ \E q \in Callers : Disk!engine_at(q, "append")) \in BOOLEAN
    BY <1>1
  <2>1. engine' \in Engines
    BY <1>1, <1>2, <1>9, <2>0 DEF Disk!latest_jsonl_hash, Disk!moves
  <2>2. BlobInv' /\ ProjectionInv'
    BY <1>1, <1>2, <1>9 DEF Disk!latest_jsonl_hash, Disk!moves, Disk!engine_at, BlobInv, ProjectionInv
  <2>3. ChainedInv'
    <3>1. /\ engine'.pc = [engine.pc EXCEPT ![p] = "append"] /\ engine'.log = engine.log
          /\ engine'.prev = [engine.prev EXCEPT ![p] = Len(engine.log)]
          /\ engine'.overlapped = (engine.overlapped \/ \E q \in Callers : Disk!engine_at(q, "append"))
      BY <1>1, <1>9 DEF Disk!latest_jsonl_hash, Disk!moves
    <3>2. engine.pc \in [Callers -> EngineSteps] /\ engine.prev \in [Callers -> Nat]
      BY <1>1
    <3>3. /\ engine'.pc[p] = "append" /\ engine'.prev[p] = Len(engine.log)
          /\ \A q \in Callers : q # p => engine'.pc[q] = engine.pc[q]
      BY <3>1, <3>2
    <3>4. SUFFICES ASSUME ~engine'.overlapped PROVE ChainedInv'
      BY DEF ChainedInv
    <3>5. ~engine.overlapped /\ \A q \in Callers : engine.pc[q] # "append"
      <4>1. ~(engine.overlapped \/ \E q \in Callers : Disk!engine_at(q, "append"))
        BY <3>1, <3>4
      <4> QED BY <4>1 DEF Disk!engine_at
    <3>6. \A q \in Callers : engine'.pc[q] = "append" => q = p
      BY <3>3, <3>5
    <3> QED BY <1>1, <3>1, <3>3, <3>5, <3>6 DEF ChainedInv
  <2> QED BY <2>1, <2>2, <2>3 DEF EngineInv
<1>10. ASSUME NEW torn \in BOOLEAN, Disk!append_jsonl(p, torn) PROVE EngineInv'
  <2>0. engine.prev[p] \in Nat
    BY <1>1
  <2> DEFINE line == [torn |-> torn, after |-> engine.prev[p]]
  <2>1. line \in LogLine /\ line.after = engine.prev[p]
    BY <2>0 DEF LogLine
  <2>2. engine.pc[p] = "append"
        /\ engine' = [engine EXCEPT !.pc[p] = "idle", !.prev[p] = 0, !.log = Append(@, line)]
    BY <1>10 DEF Disk!append_jsonl, Disk!moves, Disk!engine_at
  <2> HIDE DEF line
  <2>3. engine' \in Engines
    <3>1. Append(engine.log, line) \in Seq(LogLine)
      BY <1>1, <2>1
    <3> QED BY <1>1, <1>2, <2>2, <3>1
  <2>4. BlobInv' /\ ProjectionInv'
    BY <1>1, <1>2, <2>2 DEF BlobInv, ProjectionInv
  <2>5. ChainedInv'
    <3>1. /\ engine'.log = Append(engine.log, line) /\ engine'.overlapped = engine.overlapped
          /\ \A q \in Callers : engine'.pc[q] = IF q = p THEN "idle" ELSE engine.pc[q]
      BY <1>1, <2>2
    <3>2. /\ DOMAIN Append(engine.log, line) = 1 .. (Len(engine.log) + 1)
          /\ Append(engine.log, line)[Len(engine.log) + 1] = line
          /\ \A i \in DOMAIN engine.log : Append(engine.log, line)[i] = engine.log[i]
          /\ DOMAIN engine.log = 1 .. Len(engine.log) /\ Len(engine.log) \in Nat
      BY <1>1, <2>1
    <3>3. SUFFICES ASSUME ~engine.overlapped PROVE ChainedInv'
      BY <3>1 DEF ChainedInv
    <3>4. \A q \in Callers : engine'.pc[q] # "append"
      BY <1>1, <2>2, <3>1, <3>3 DEF ChainedInv
    <3>5. line.after = Len(engine.log) /\ \A i \in DOMAIN engine.log : engine.log[i].after = i - 1
      BY <1>1, <2>1, <2>2, <3>3 DEF ChainedInv
    <3>6. \A i \in DOMAIN engine'.log : engine'.log[i].after = i - 1
      BY <3>1, <3>2, <3>5
    <3> QED BY <3>4, <3>6 DEF ChainedInv
  <2> QED BY <2>3, <2>4, <2>5 DEF EngineInv
<1>11. CASE Disk!cut(p)
  <2>1. engine' \in Engines
    BY <1>1, <1>2, <1>11 DEF Disk!cut, Disk!moves
  <2>2. BlobInv'
    BY <1>1, <1>2, <1>11 DEF Disk!cut, Disk!moves, Disk!engine_at, BlobInv
  <2>3. ProjectionInv' /\ ChainedInv'
    BY <1>1, <1>2, <1>11 DEF Disk!cut, Disk!moves, Disk!engine_at, ProjectionInv, ChainedInv
  <2> QED BY <2>1, <2>2, <2>3 DEF EngineInv
<1> QED BY <1>0, <1>3, <1>4, <1>5, <1>6, <1>7, <1>8, <1>9, <1>10, <1>11

\* The invariant of the storage root.
StorageInv == LockInv /\ RootInv /\ BackupInv /\ ObjectInv /\ EngineInv

\* A part that a step does not touch keeps its invariant.
LEMMA StorageStays ==
  /\ LockInv /\ UNCHANGED lock => LockInv'
  /\ RootInv /\ UNCHANGED root => RootInv'
  /\ BackupInv /\ UNCHANGED exported => BackupInv'
  /\ ObjectInv /\ UNCHANGED objects => ObjectInv'
  /\ EngineInv /\ UNCHANGED engine => EngineInv'
<1>1. LockInv /\ UNCHANGED lock => LockInv'
  BY DEF LockInv, LockTypes, KnownInv, FileInv, Disk!Unwritten, Disk!NoLock
<1>2. RootInv /\ UNCHANGED root => RootInv'
  BY DEF RootInv, Disk!MigrationSound
<1>3. BackupInv /\ UNCHANGED exported => BackupInv'
  BY DEF BackupInv, Disk!BackupSound, Disk!None, Disk!Torn
<1>4. ObjectInv /\ UNCHANGED objects => ObjectInv'
  BY DEF ObjectInv, Disk!ArtifactsSound, Disk!whole
<1>5. EngineInv /\ UNCHANGED engine => EngineInv'
  BY DEF EngineInv, BlobInv, ProjectionInv, ChainedInv
<1> QED BY <1>1, <1>2, <1>3, <1>4, <1>5

\* The invariants of the parts say what the root promises.
LEMMA StorageFollows == ASSUME StorageInv, OwnersApart PROVE Disk!StorageSound
<1>1. Disk!OneHolder
  BY DEF StorageInv, LockInv, KnownInv, FileInv, Disk!OneHolder, Disk!at_pc, Disk!expired, LockTypes, LockInfo, Disk!NoLock,
         Disk!Unwritten
<1>2. Disk!EngineSound
  BY DEF StorageInv, EngineInv, BlobInv, ProjectionInv, ChainedInv, Disk!EngineSound, Disk!engine_at
<1> QED BY <1>1, <1>2 DEF StorageInv, RootInv, BackupInv, ObjectInv, Disk!StorageSound

\* An unexpired lock has one holder, unless a lock file was swept away that nobody had read; the manifest never names a
\* layout that is not on disk; a restore that reports success holds what was exported; an acknowledged artifact, blob and
\* projection stays whole and the chained log is one chain, each under its own exclusion (StorageLockGuard,
\* StorageMigrationRegistry, StorageBackup, FsArtifactStore, StorageRepair, FsKnowledgeEngineStore); for any processes,
\* files, artifacts, versions and registered migrations, with crashes and torn writes.
THEOREM StorageIsSound ==
  ASSUME OwnersApart, Ttl \in Nat, Supported \in Nat, MaxWrites \in Nat
  PROVE  Disk!Spec => []Disk!StorageSound
<1>1. Disk!Init => StorageInv
  BY LockStarts, RootStarts, BackupStarts, ObjectsStart, EngineStarts DEF StorageInv
<1>2. StorageInv /\ [Disk!Next]_(Disk!ovars) => StorageInv'
  <2> SUFFICES ASSUME StorageInv, [Disk!Next]_(Disk!ovars) PROVE StorageInv'
    OBVIOUS
  <2>1. CASE Disk!LockNext
    BY <2>1, LockStep, StorageStays DEF StorageInv, Disk!LockNext
  <2>2. CASE Disk!MigrationNext
    BY <2>2, RootStep, StorageStays DEF StorageInv, Disk!MigrationNext
  <2>3. CASE Disk!BackupNext
    BY <2>3, BackupStep, StorageStays DEF StorageInv, Disk!BackupNext
  <2>4. CASE Disk!ObjectNext
    BY <2>4, ObjectStep, StorageStays DEF StorageInv, Disk!ObjectNext
  <2>5. CASE Disk!EngineNext
    BY <2>5, EngineStep, StorageStays DEF StorageInv, Disk!EngineNext
  <2>6. CASE UNCHANGED Disk!ovars
    BY <2>6, StorageStays DEF StorageInv, Disk!ovars
  <2> QED BY <2>1, <2>2, <2>3, <2>4, <2>5, <2>6 DEF Disk!Next
<1>3. StorageInv => Disk!StorageSound
  BY StorageFollows
<1> QED BY <1>1, <1>2, <1>3, PTL DEF Disk!Spec
-----------------------------------------------------------------------------
(* BrowserPolicy.                                                          *)

\* What the overrides of a script make of a policy, a host and a script.
LEMMA ScriptGuarded ==
  ASSUME NEW p \in Guards!BrowserSecurityPolicy, NEW h \in Guards!Host, NEW s \in Guards!Script
  PROVE  /\ s.js_risk = "High" \/ s.credential => Guards!evaluate_execute_js(p, h, s) # "Allow"
         /\ h.denied => Guards!evaluate_execute_js(p, h, s) = "Deny"
<1> DEFINE d0 == Guards!evaluate_url(p, h)
           d1 == IF h.high_risk /\ d0 = "Allow" THEN p.high_risk_domain_decision ELSE d0
           d2 == IF h.high_risk /\ d1 = "Ask" THEN p.high_risk_domain_decision ELSE d1
           d3 == IF s.js_risk = "High" /\ d2 = "Allow" THEN "Ask" ELSE d2
           d4 == IF s.credential /\ d3 = "Allow" THEN "Ask" ELSE d3
<1>1. Guards!evaluate_execute_js(p, h, s) = d4
  BY DEF Guards!evaluate_execute_js
<1>2. h.denied \in BOOLEAN /\ s.credential \in BOOLEAN
  BY DEF Guards!Host, Guards!Script
<1>3. h.denied => d0 = "Deny"
  BY <1>2 DEF Guards!evaluate_url
<1> HIDE DEF d0
<1>4. h.denied => d1 = "Deny"
  BY <1>3
<1> HIDE DEF d1
<1>5. h.denied => d2 = "Deny"
  BY <1>4
<1> HIDE DEF d2
<1>6. (h.denied => d3 = "Deny") /\ (s.js_risk = "High" => d3 # "Allow")
  BY <1>5
<1> HIDE DEF d3
<1>7. (h.denied => d4 = "Deny") /\ (s.js_risk = "High" => d4 # "Allow") /\ (s.credential => d4 # "Allow")
  BY <1>2, <1>6
<1> HIDE DEF d4
<1> QED BY <1>1, <1>7

\* The lesser of two times.
LEMMA LesserTime ==
  ASSUME NEW x \in Nat, NEW y \in Nat
  PROVE  Guards!Min({x, y}) \in {x, y} /\ Guards!Min({x, y}) <= x /\ Guards!Min({x, y}) <= y
<1>1. \E z \in {x, y} : \A u \in {x, y} : z <= u
  <2>1. CASE x <= y
    BY <2>1
  <2>2. CASE y <= x
    BY <2>2
  <2> QED BY <2>1, <2>2
<1> QED BY <1>1 DEF Guards!Min

\* A strategy that is accepted polls within a timeout that the policy allows.
LEMMA WaitGuarded ==
  ASSUME MaxTicks \in Nat, NEW p \in Guards!NavigationTimeoutPolicy, NEW t \in 0 .. (MaxTicks + 1),
         Guards!effective_strategy(p, t) # Guards!Error
  PROVE  /\ Guards!effective_strategy(p, t).poll \in 1 .. Guards!effective_strategy(p, t).timeout
         /\ Guards!effective_strategy(p, t).timeout <= p.max
<1> DEFINE wanted == IF t > MaxTicks THEN p.default ELSE t
           timeout == Guards!Min({wanted, p.max})
           poll == Guards!Min({p.poll, timeout})
<1>1. wanted \in Nat /\ p.max \in Nat /\ p.poll \in Nat
  BY DEF Guards!NavigationTimeoutPolicy
<1> HIDE DEF wanted
<1>2. timeout \in Nat /\ timeout <= p.max
  <2>1. timeout \in {wanted, p.max} /\ timeout <= p.max
    BY <1>1, LesserTime
  <2> QED BY <1>1, <2>1
<1> HIDE DEF timeout
<1>3. poll \in Nat
  <2>1. poll \in {p.poll, timeout}
    BY <1>1, <1>2, LesserTime
  <2> QED BY <1>1, <1>2, <2>1
<1> HIDE DEF poll
<1>4. /\ Guards!effective_strategy(p, t) = [timeout |-> timeout, poll |-> poll]
      /\ Guards!validate_strategy([timeout |-> timeout, poll |-> poll])
  BY DEF Guards!effective_strategy, wanted, timeout, poll
<1>5. poll > 0 /\ poll <= timeout
  BY <1>4 DEF Guards!validate_strategy
<1> QED BY <1>2, <1>3, <1>4, <1>5

\* DecisionsGuarded (the part "scripts" of BrowserSound): whatever the policy, a script
\* that touches credentials or acts on the page is not run without asking, a denied
\* domain stays denied through the overrides, an accepted wait polls within a timeout the
\* policy allows, and a text is typed only into a prompt that is accepted.
THEOREM PoliciesGuard == ASSUME MaxTicks \in Nat PROVE Guards!Spec => []Guards!DecisionsGuarded
<1>1. Guards!Init => Guards!DecisionsGuarded
  BY DEF Guards!Init, Guards!DecisionsGuarded
<1>2. ASSUME Guards!Next PROVE Guards!DecisionsGuarded'
  <2>1. CASE Guards!AskScript
    <3>1. PICK p \in Guards!BrowserSecurityPolicy, h \in Guards!Host, s \in Guards!Script :
            asked' = [op |-> "js", policy |-> p, host |-> h, script |-> s, answer |-> Guards!evaluate_execute_js(p, h, s)]
      BY <2>1 DEF Guards!AskScript
    <3>2. /\ asked'.op = "js" /\ asked'.host = h /\ asked'.script = s
          /\ asked'.answer = Guards!evaluate_execute_js(p, h, s)
      BY <3>1
    <3> QED BY <3>2, ScriptGuarded DEF Guards!DecisionsGuarded
  <2>2. CASE Guards!AskWait
    <3>1. PICK p \in Guards!NavigationTimeoutPolicy, t \in 0 .. (MaxTicks + 1) :
            asked' = [op |-> "wait", policy |-> p, requested |-> t, strategy |-> Guards!effective_strategy(p, t)]
      BY <2>2 DEF Guards!AskWait
    <3>2. asked'.op = "wait" /\ asked'.policy = p /\ asked'.strategy = Guards!effective_strategy(p, t)
      BY <3>1
    <3> QED BY <3>2, WaitGuarded DEF Guards!DecisionsGuarded, Guards!Error
  <2>3. CASE Guards!AskDialog
    <3>1. PICK p \in [Guards!BrowserDialogKind -> Guards!DialogDecision], k \in Guards!BrowserDialogKind,
               a \in BOOLEAN, b \in BOOLEAN :
            asked' = [op |-> "dialog", kind |-> k, resolved |-> Guards!resolve_dialog(p, k, a, b)]
      BY <2>3 DEF Guards!AskDialog
    <3>2. asked'.op = "dialog" /\ asked'.kind = k /\ asked'.resolved = Guards!resolve_dialog(p, k, a, b)
      BY <3>1
    <3>3. /\ Guards!resolve_dialog(p, k, a, b).decision = p[k]
          /\ k # "Prompt" \/ p[k] # "Accept" => Guards!resolve_dialog(p, k, a, b).text = "none"
      BY DEF Guards!resolve_dialog
    <3> QED BY <3>2, <3>3 DEF Guards!DecisionsGuarded
  <2>4. CASE Guards!AskPermission
    <3>1. PICK d \in Guards!Decision, allowed \in BOOLEAN :
            asked' = [op |-> "permission", default |-> d, allowed |-> allowed,
                      answer |-> Guards!resolve_permission_prompt(d, allowed)]
      BY <2>4 DEF Guards!AskPermission
    <3>2. /\ asked'.op = "permission" /\ asked'.default = d /\ asked'.allowed = allowed
          /\ asked'.answer = Guards!resolve_permission_prompt(d, allowed)
      BY <3>1
    <3> QED BY <3>2 DEF Guards!DecisionsGuarded, Guards!resolve_permission_prompt
  <2>5. CASE Guards!AskUpload
    <3>1. asked'.op = "upload"
      BY <2>5 DEF Guards!AskUpload
    <3> QED BY <3>1 DEF Guards!DecisionsGuarded
  <2> QED BY <1>2, <2>1, <2>2, <2>3, <2>4, <2>5 DEF Guards!Next
<1>3. ASSUME Guards!DecisionsGuarded, UNCHANGED asked PROVE Guards!DecisionsGuarded'
  BY <1>3 DEF Guards!DecisionsGuarded, Guards!Error
<1> QED BY <1>1, <1>2, <1>3, PTL DEF Guards!Spec
=============================================================================

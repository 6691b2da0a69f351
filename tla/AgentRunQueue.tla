---------------------------- MODULE AgentRunQueue ----------------------------
(***************************************************************************)
(* AgentRunQueue over a JsonlAgentRunStore: workers lease runs and ack or  *)
(* nack them, hosts enqueue, cancel and time them out, recoverers requeue  *)
(* expired leases.  A store call changes the map under its mutex and then, *)
(* outside it, appends the record to the file, which can fail, or go on    *)
(* without its caller when the call is dropped.  Only lease() takes the    *)
(* lease_lock.                                                             *)
(***************************************************************************)
EXTENDS JsonlFile, Integers, FiniteSets, FiniteSetsExt

CONSTANTS Workers,       \* processes that lease, ack and nack runs
          Hosts,         \* callers that enqueue and end runs
          HostEnds,      \* how they end them
          Recoverers,    \* callers of recover_expired_leases
          MaxRuns,       \* bound: runs 1..MaxRuns, oldest (created_at, run_id) first
          LeaseTimeout,  \* lease_timeout, in ticks
          Prompt,        \* live workers finish within the lease
          MaxFaults,     \* bound: nacks, workers that vanish with their leases,
                         \* appends that fail, dropped calls and crashes
          Free           \* lease_lock is not held

Runs == 1..MaxRuns
Absent == "Absent"

ASSUME QueueAssumption ==
  /\ MaxRuns \in Nat /\ LeaseTimeout \in Nat \ {0}
  /\ MaxFaults \in Nat /\ Prompt \in BOOLEAN
  /\ Free \notin Workers
  /\ HostEnds \subseteq {"Cancelled", "TimedOut"}

DurableAgentRunStatus ==
  { "Queued", "Running", "WaitingForApproval", "Completed", "Failed", "Cancelled", "TimedOut" }

is_terminal(s) == s \in {"Completed", "Failed", "Cancelled", "TimedOut"}

Transitions ==
  { <<"Queued", "Running">>, <<"Queued", "Cancelled">>, <<"Queued", "TimedOut">>,
    <<"Running", "Queued">>, <<"Running", "WaitingForApproval">>,
    <<"Running", "Completed">>, <<"Running", "Failed">>,
    <<"Running", "Cancelled">>, <<"Running", "TimedOut">>,
    <<"WaitingForApproval", "Running">>, <<"WaitingForApproval", "Cancelled">>,
    <<"WaitingForApproval", "TimedOut">> }

\* Faulty variant: the arm for Running -> Queued is missing.
is_valid_transition_kept_running(from, to) ==
  from = to \/ <<from, to>> \in Transitions \ {<<"Running", "Queued">>}

\* Faulty variant: a terminal run can be requeued.
is_valid_transition_requeue(from, to) ==
  from = to \/ to = "Queued" \/ <<from, to>> \in Transitions

is_valid_transition(from, to) == from = to \/ <<from, to>> \in Transitions

Callers == Workers \cup Hosts \cup Recoverers

VARIABLES
  records,   \* the map: status of each run, or Absent
  age,       \* ticks since the updated_at of a Running record, up to LeaseTimeout
  file,      \* the JSONL file
  lock,      \* the holder of lease_lock, or Free
  call,      \* per caller: what its call does next, and to which run
  todo,      \* per recoverer: expired leases of its list() still to requeue
  held,      \* per worker: the run it works on, or 0
  opened,    \* the store could be opened
  faults,    \* history: how many of those have happened
  ended,     \* history: runs a call ended for good and returned Ok
  requeued,  \* history: runs that recovery put back into the queue
  raced,     \* history: runs with two calls whose lines were not yet written
  unwritten  \* history: runs whose latest line could not be written

store == <<records, age, file>>
history == <<ended, requeued, raced, unwritten>>
vars == <<records, age, file, lock, call, todo, held, opened,
          faults, ended, requeued, raced, unwritten>>

\* A call in progress: its next step, its run, the status on the line it owes
\* the file, and how it goes on once the line is written.
Idle == [step |-> "idle", run |-> 0, line |-> Absent, ret |-> "return"]

Init ==
  /\ records = [r \in Runs |-> Absent]
  /\ age = [r \in Runs |-> 0]
  /\ file = EmptyFile(Runs, Absent)
  /\ lock = Free
  /\ call = [c \in Callers |-> Idle]
  /\ todo = [c \in Callers |-> {}]
  /\ held = [w \in Workers |-> 0]
  /\ opened = TRUE
  /\ faults = 0
  /\ ended = {} /\ requeued = {} /\ raced = {} /\ unwritten = {}

idle(c) == opened /\ call[c] = Idle

fault == faults < MaxFaults /\ faults' = faults + 1

-----------------------------------------------------------------------------
(* MemoryAgentRunStore::transition: under the mutex, the record changes or *)
(* the call fails; JsonlAgentRunStore then owes the file a line.           *)

can_transition(r, to) == records[r] # Absent /\ is_valid_transition(records[r], to)

\* Faulty variant: updated_at is set to when the lease expires.
transition_stamped_ahead(r, to) ==
  /\ records' = [records EXCEPT ![r] = to]
  /\ age' = [age EXCEPT ![r] = 0 - LeaseTimeout]

transition(r, to) ==
  /\ records' = [records EXCEPT ![r] = to]
  /\ age' = [age EXCEPT ![r] = 0]

\* A call that changed run r has not written its line.
writing(r) == \E c \in Callers : call[c].step = "record" /\ call[c].run = r

\* Faulty variant: the record is the one that was read before the change.
then_append_stale(c, r, to, next) ==
  /\ call' = [call EXCEPT ![c] = [step |-> "record", run |-> r, line |-> records[r], ret |-> next]]
  /\ raced' = raced \cup {q \in {r} : writing(q)}

\* Caller c continues with the two writes of append_record, then with next.
then_append(c, r, to, next) ==
  /\ call' = [call EXCEPT ![c] = [step |-> "record", run |-> r, line |-> to, ret |-> next]]
  /\ raced' = raced \cup {q \in {r} : writing(q)}

Enqueue(h, r) ==
  /\ idle(h)
  /\ records[r] = Absent
  /\ transition(r, "Queued")
  /\ then_append(h, r, "Queued", "return")
  /\ UNCHANGED <<file, lock, todo, held, opened, faults, ended, requeued, unwritten>>

\* A host ends a run, or lets one go on that waited for approval:
\* store.transition with a status of its own.
HostTransition(h, r, to) ==
  /\ idle(h)
  /\ to = "Running" => records[r] = "WaitingForApproval"
  /\ can_transition(r, to)
  /\ transition(r, to)
  /\ then_append(h, r, to, "return")
  /\ UNCHANGED <<file, lock, todo, held, opened, faults, ended, requeued, unwritten>>

\* ack, nack, or a failure or a wait for approval put into the store: the worker
\* lets go of its run whether or not the call succeeds.
LetGo(w, to) ==
  /\ idle(w)
  /\ held[w] # 0
  /\ held' = [held EXCEPT ![w] = 0]
  /\ IF can_transition(held[w], to)
       THEN transition(held[w], to) /\ then_append(w, held[w], to, "return")
       ELSE UNCHANGED <<records, age, call, raced>>
  /\ UNCHANGED <<file, lock, todo, opened, ended, requeued, unwritten>>

Ack(w) == LetGo(w, "Completed") /\ UNCHANGED faults

FailRun(w) == LetGo(w, "Failed") /\ UNCHANGED faults

Park(w) == LetGo(w, "WaitingForApproval") /\ UNCHANGED faults

Nack(w) == LetGo(w, "Queued") /\ fault

-----------------------------------------------------------------------------
(* lease: the lock is held from here to the return.  A worker works on one *)
(* run at a time.                                                          *)

\* Faulty variant: nobody takes the lock.
LeaseBeginUnlocked(w) ==
  /\ idle(w)
  /\ held[w] = 0
  /\ call' = [call EXCEPT ![w].step = "list"]
  /\ UNCHANGED <<store, lock, todo, held, opened, faults, history>>

LeaseBegin(w) ==
  /\ idle(w)
  /\ held[w] = 0
  /\ lock = Free
  /\ lock' = w
  /\ call' = [call EXCEPT ![w].step = "list"]
  /\ UNCHANGED <<store, todo, held, opened, faults, history>>

queued == {r \in Runs : records[r] = "Queued"}

\* The oldest queued run is picked, if there is one.
LeaseList(w) ==
  /\ call[w].step = "list"
  /\ IF queued # {}
       THEN /\ call' = [call EXCEPT ![w].step = "take", ![w].run = Min(queued)]
            /\ UNCHANGED lock
       ELSE /\ call' = [call EXCEPT ![w] = Idle]
            /\ lock' = Free
  /\ UNCHANGED <<store, todo, held, opened, faults, history>>

LeaseTake(w) ==
  /\ call[w].step = "take"
  /\ IF can_transition(call[w].run, "Running")
       THEN /\ transition(call[w].run, "Running")
            /\ then_append(w, call[w].run, "Running", "leased")
            /\ UNCHANGED lock
       ELSE /\ call' = [call EXCEPT ![w] = Idle]
            /\ lock' = Free
            /\ UNCHANGED <<records, age, raced>>
  /\ UNCHANGED <<file, todo, held, opened, faults, ended, requeued, unwritten>>

-----------------------------------------------------------------------------
(* recover_expired_leases: the list is a snapshot, the transitions come    *)
(* one by one and the first that fails ends the call.                      *)

expired == {r \in Runs : records[r] = "Running" /\ age[r] >= LeaseTimeout}

RecoverBegin(c) ==
  /\ idle(c)
  /\ expired # {}
  /\ todo' = [todo EXCEPT ![c] = expired]
  /\ call' = [call EXCEPT ![c].step = "recover"]
  /\ UNCHANGED <<store, lock, held, opened, faults, history>>

RecoverNext(c) ==
  /\ call[c].step = "recover"
  /\ IF todo[c] # {} /\ can_transition(Min(todo[c]), "Queued")
       THEN /\ transition(Min(todo[c]), "Queued")
            /\ then_append(c, Min(todo[c]), "Queued", "recover")
            /\ todo' = [todo EXCEPT ![c] = @ \ {Min(@)}]
            /\ requeued' = requeued \cup {Min(todo[c])}
       ELSE /\ call' = [call EXCEPT ![c] = Idle]
            /\ todo' = [todo EXCEPT ![c] = {}]
            /\ UNCHANGED <<records, age, requeued, raced>>
  /\ UNCHANGED <<file, lock, held, opened, faults, ended, unwritten>>

-----------------------------------------------------------------------------
(* append_record, and the return from the call.  The caller of a dropped   *)
(* call is "gone": a write that has begun goes on without it, and the next *)
(* one does not begin.                                                     *)

WriteRecord(c) ==
  /\ call[c].step = "record"
  /\ call' = [call EXCEPT ![c] = IF @.ret = "gone" THEN Idle ELSE [@ EXCEPT !.step = "newline"]]
  /\ file' = write_record(file, call[c].run, call[c].line)
  /\ unwritten' = unwritten \ {call[c].run}
  /\ UNCHANGED <<records, age, lock, todo, held, opened, faults, ended, requeued, raced>>

WriteNewline(c) ==
  LET r == call[c].run IN
  /\ call[c].step = "newline"
  /\ file' = write_newline(file)
  /\ call' = [call EXCEPT ![c] = IF @.ret = "recover" THEN [Idle EXCEPT !.step = "recover"] ELSE Idle]
  /\ ended' = ended \cup {q \in {r} : is_terminal(call[c].line) /\ call[c].ret # "gone"}
  /\ IF call[c].ret = "leased"
       THEN lock' = Free /\ held' = [held EXCEPT ![c] = r]
       ELSE UNCHANGED <<lock, held>>
  /\ UNCHANGED <<records, age, todo, opened, faults, requeued, raced, unwritten>>

\* What lease() and recover_expired_leases leave behind when they end early.
leave(c) ==
  /\ lock' = IF call[c].ret = "leased" THEN Free ELSE lock
  /\ todo' = [todo EXCEPT ![c] = {}]
  /\ fault
  /\ UNCHANGED <<records, age, held, opened, ended, requeued, raced>>

\* A write fails, the first one perhaps half way, and the call returns the
\* error.  The map keeps the change: nothing takes it back.
WriteFails(c) ==
  /\ leave(c)
  /\ \/ /\ call[c].step = "record"
        /\ file' \in {file, write_torn(file)}
        /\ unwritten' = unwritten \cup {call[c].run}
     \/ /\ call[c].step = "newline"
        /\ UNCHANGED <<file, unwritten>>
  /\ call' = [call EXCEPT ![c] = Idle]

\* The call is dropped while it appends.
DropCall(c) ==
  /\ leave(c)
  /\ call[c].step \in {"record", "newline"}
  /\ call[c].ret # "gone"
  /\ call' = [call EXCEPT ![c].ret = "gone"]
  /\ UNCHANGED <<file, unwritten>>

-----------------------------------------------------------------------------
(* Time, lost workers and restarts.                                        *)

\* The runs a live worker is busy with or is being given.
in_hand == {held[w] : w \in Workers} \cup {call[w].run : w \in Workers}

Tick ==
  /\ opened
  /\ Prompt => \A r \in in_hand \ {0} : age[r] + 1 < LeaseTimeout
  /\ age' = [r \in Runs |-> IF records[r] = "Running" THEN Min({age[r] + 1, LeaseTimeout}) ELSE age[r]]
  /\ UNCHANGED <<records, file, lock, call, todo, held, opened, faults, history>>

\* A worker vanishes without ack or nack.
LoseWorker(w) ==
  /\ idle(w)
  /\ held[w] # 0
  /\ held' = [held EXCEPT ![w] = 0]
  /\ fault
  /\ UNCHANGED <<store, lock, call, todo, opened, history>>

\* The process dies and the store is opened again: what the file says is what
\* there is.  A write in progress may be torn.  Of a run that two calls were
\* writing at once the line of the earlier change may be the last one.
Restart ==
  /\ opened
  /\ fault
  /\ \E f \in {file} \cup
          {write_torn(file) : c \in {d \in Callers : call[d].step = "record"}} :
       /\ file' = f
       /\ opened' = parses(f)
       /\ records' = IF parses(f) THEN f.last ELSE [r \in Runs |-> Absent]
  /\ age' \in [Runs -> 0..LeaseTimeout]
  /\ \A r \in Runs : age'[r] >= age[r] /\ (records'[r] # "Running" => age'[r] = age[r])
  /\ lock' = Free
  /\ call' = [c \in Callers |-> Idle]
  /\ todo' = [c \in Callers |-> {}]
  /\ held' = [w \in Workers |-> 0]
  /\ ended' = ended \ raced
  /\ unwritten' = {}
  /\ UNCHANGED <<requeued, raced>>

-----------------------------------------------------------------------------
CallStep(c) ==
  \/ c \in Workers /\ (LeaseList(c) \/ LeaseTake(c))
  \/ c \in Recoverers /\ RecoverNext(c)
  \/ WriteRecord(c) \/ WriteNewline(c)

Next ==
  \/ \E h \in Hosts, r \in Runs :
       \/ Enqueue(h, r)
       \/ \E to \in {"Running"} \cup HostEnds : HostTransition(h, r, to)
  \/ \E w \in Workers :
       \/ Ack(w) \/ FailRun(w) \/ Park(w) \/ Nack(w)
       \/ LeaseBegin(w) \/ LoseWorker(w)
  \/ \E c \in Recoverers : RecoverBegin(c)
  \/ \E c \in Callers : CallStep(c) \/ WriteFails(c) \/ DropCall(c)
  \/ Tick
  \/ Restart

Spec == Init /\ [][Next]_vars

\* Calls run to their end, MaxFaults at most of them early, workers keep polling
\* and finish what they hold, recovery is called again and again, and time passes.
LiveSpec ==
  /\ Spec
  /\ \A c \in Callers : WF_vars(CallStep(c))
  /\ \A w \in Workers : SF_vars(LeaseBegin(w) /\ queued # {}) /\ WF_vars(Ack(w))
  /\ \A c \in Recoverers : WF_vars(RecoverBegin(c))
  /\ WF_vars(Tick)

-----------------------------------------------------------------------------
TypeOK ==
  /\ records \in [Runs -> DurableAgentRunStatus \cup {Absent}]
  /\ age \in [Runs -> 0..LeaseTimeout]
  /\ file \in FileType(Runs, DurableAgentRunStatus \cup {Absent})
  /\ lock \in Workers \cup {Free}
  /\ call \in [Callers -> [ step : {"idle", "list", "take", "recover", "record", "newline"},
                             run : Runs \cup {0},
                             line : DurableAgentRunStatus \cup {Absent},
                             ret : {"return", "leased", "recover", "gone"} ]]
  /\ todo \in [Callers -> SUBSET Runs]
  /\ held \in [Workers -> Runs \cup {0}]
  /\ opened \in BOOLEAN
  /\ faults \in 0..MaxFaults
  /\ ended \subseteq Runs /\ requeued \subseteq Runs
  /\ raced \subseteq Runs /\ unwritten \subseteq Runs

\* Only recovery puts a run into the hands of two workers: two lease calls never
\* pick the same run, although the store would accept Running -> Running from
\* the second one, and nacks, cancellations, parked runs and workers that vanish
\* do not change that.
LeaseExclusive ==
  \A v, w \in Workers : held[v] # 0 /\ held[v] = held[w] /\ v # w => held[v] \in requeued

\* A run that some call ended for good, and said so, is not brought back by a
\* stale ack, nack, lease or recovery, by a write that fails, nor by a crash (the test
\* jsonl_agent_run_store_persists_terminal_state_after_reload), unless two calls
\* were writing it at the same time before the crash.
EndedStaysEnded == opened => \A r \in ended : is_terminal(records[r])

\* The file carries the store across a crash at any step: its last line for a run
\* is the run's status, as long as every change was written before the next one
\* and the latest could be written.  A failing append of one run takes nothing
\* from the others, a call that was dropped still gets its change into the file,
\* and the next append of a run makes up for one that failed.
FileHoldsStore ==
  opened => \A r \in Runs \ (raced \cup unwritten) : ~writing(r) => file.last[r] = records[r]

\* Workers that finish within the lease, some of which vanish, appends that fail,
\* calls that are dropped and a process that crashes: every run that was enqueued, or went on after its approval, reaches a
\* terminal status or waits for approval, the abandoned ones through recovery.
\* Only a crash before its first line is written takes a run away, or one that
\* leaves a file that cannot be opened.
EveryRunEnds ==
  \A r \in Runs :
    records[r] \in {"Queued", "Running"} ~>
      is_terminal(records[r]) \/ records[r] \in {"WaitingForApproval", Absent}
=============================================================================

------------------------------ MODULE KernelHost ------------------------------
(***************************************************************************)
(* The AgentOS kernel: how a runtime is built, its lifecycle and health,   *)
(* and the kernel event store that a host keeps in a JSONL file.  The      *)
(* store appends an event to its memory first, under the memory's lock,    *)
(* and to the file after it, under none; open replays the file into a new  *)
(* memory.  The text of the file is a sequence of event ids, newlines and  *)
(* torn records.                                                           *)
(***************************************************************************)
EXTENDS Naturals, Sequences, FiniteSets, SequencesExt

CONSTANTS Callers,  \* tasks that append events
          MaxId,    \* bound: event ids
          MaxText   \* bound: length of the file's text

VARIABLES runtime,  \* the runtime: its state, and what the builder was given
          memory,   \* MemoryKernelEventStore: the ids in order; Closed without a store
          file,     \* the text of the JSONL file
          calls,    \* per caller: the append it is in
          ghost     \* acked: ids an append returned Ok for; clean: see EventsReopen

hvars == <<runtime, memory, file, calls, ghost>>

-----------------------------------------------------------------------------
(* KernelRuntimeBuilder and ClientSubstrateBuilder.                        *)
Services == {"conversation_journal", "model_adapter", "action_registry", "capability_policy", "audit_log"}
ClientDependencyKind ==
  {"InMemoryTest", "TestOnly", "DurableLocal", "SystemService", "BackendService", "EnterpriseManaged"}
is_test_only(kind) == kind \in {"InMemoryTest", "TestOnly"}

\* A builder: the client's mode, whether production dependencies were given and
\* of which kind, the version of their storage, and whether the bundle they came
\* in had found blockers.
Builder == [ mode : {"Production", "Development", "Test"}, given : BOOLEAN,
             kind : ClientDependencyKind, version : 0..1, blocked : BOOLEAN ]
STORAGE_LAYOUT_VERSION == 1

dependencies_validate(b) == ~is_test_only(b.kind) /\ b.version = STORAGE_LAYOUT_VERSION

\* ClientSubstrateBuilder::build: other modes take memory services of their own.
client_build(b) ==
  b.mode = "Production" => ~b.blocked /\ b.given /\ dependencies_validate(b)

\* KernelRuntimeBuilder::build.
kernel_build(services) == Services \subseteq services

KernelRuntimeState == {"New", "Initialized", "Started", "Shutdown"}
Unbuilt == [state |-> "Unbuilt", mode |-> "Test", kind |-> "InMemoryTest"]

build(b) ==
  /\ runtime = Unbuilt
  /\ client_build(b) /\ kernel_build(Services)
  /\ runtime' = [state |-> "New", mode |-> b.mode, kind |-> IF b.mode = "Production" THEN b.kind ELSE "InMemoryTest"]
  /\ UNCHANGED <<memory, file, calls, ghost>>

-----------------------------------------------------------------------------
(* KernelRuntime.  shutdown and recover pass through ShuttingDown and      *)
(* Recovering under the lock, so no one sees these.  The host API does not *)
(* look at the state: requests are served after shutdown as well.          *)
lifecycle(from, to) ==
  /\ runtime.state \in from
  /\ runtime' = [runtime EXCEPT !.state = to]
  /\ UNCHANGED <<memory, file, calls, ghost>>

init_runtime == lifecycle({"New"}, "Initialized")
start == lifecycle({"New", "Initialized", "Started"}, "Started")
shutdown == lifecycle(KernelRuntimeState, "Shutdown")
recover == lifecycle({"New", "Initialized", "Started"}, "Initialized")

\* health_check and KernelFailureSummary: the services of a built runtime are there.
healthy == runtime.state \notin {"Recovering", "ShuttingDown", "Shutdown"}
failures ==
  CASE runtime.state = "Recovering" -> {"kernel_recovering"}
    [] runtime.state \in {"ShuttingDown", "Shutdown"} -> {"kernel_not_running"}
    [] OTHER -> {}

-----------------------------------------------------------------------------
(* The event store.                                                        *)
Closed == [open |-> FALSE, ids |-> <<>>]
Newline == 0
Torn == MaxId + 1
Idle == [at |-> "idle", id |-> 0]

Init ==
  /\ runtime = Unbuilt
  /\ memory = Closed
  /\ file = <<>>
  /\ calls = [c \in Callers |-> Idle]
  /\ ghost = [acked |-> {}, clean |-> TRUE]

append_to_memory(ids, id) ==
  IF id \in ToSet(ids) THEN [ok |-> FALSE, ids |-> ids]
  ELSE IF ids # <<>> /\ id <= Last(ids) THEN [ok |-> FALSE, ids |-> ids]
  ELSE [ok |-> TRUE, ids |-> Append(ids, id)]

\* append_idempotent of the memory store.
append_idempotent_memory(ids, id) ==
  IF id \in ToSet(ids) THEN [ok |-> TRUE, ids |-> ids] ELSE append_to_memory(ids, id)

\* What open makes of the text: every line that is not empty is one event, and
\* the events are replayed in turn.
replay(text) ==
  LET parses == \A i \in DOMAIN text :
                  /\ text[i] # Torn
                  /\ i > 1 => text[i] = Newline \/ text[i - 1] = Newline
      read[n \in 0..Len(text)] ==
        IF n = 0 THEN [ok |-> TRUE, ids |-> <<>>]
        ELSE IF text[n] = Newline \/ ~read[n - 1].ok THEN read[n - 1]
        ELSE append_idempotent_memory(read[n - 1].ids, text[n])
  IN IF parses THEN read[Len(text)] ELSE [ok |-> FALSE, ids |-> <<>>]

open ==
  /\ ~memory.open
  /\ replay(file).ok
  /\ memory' = [open |-> TRUE, ids |-> replay(file).ids]
  /\ UNCHANGED <<runtime, file, calls, ghost>>

\* The memory half of append: it fails, or the line is still to be written.
appended(c, id) ==
  LET r == append_to_memory(memory.ids, id)
  IN /\ memory' = [memory EXCEPT !.ids = r.ids]
     /\ calls' = [calls EXCEPT ![c] = IF r.ok THEN [at |-> "text", id |-> id] ELSE Idle]
     /\ ghost' = [ghost EXCEPT !.clean = @ /\ (r.ok => \A d \in Callers : calls[d].at \notin {"text", "newline"})]
     /\ UNCHANGED <<runtime, file>>

\* Faulty variant: the line is written without asking the memory first.
append_line_first(c, id) ==
  /\ memory.open /\ calls[c] = Idle
  /\ calls' = [calls EXCEPT ![c] = [at |-> "text", id |-> id]]
  /\ memory' = [memory EXCEPT !.ids = append_to_memory(@, id).ids]
  /\ ghost' = [ghost EXCEPT !.clean = @ /\ \A d \in Callers : calls[d].at \notin {"text", "newline"}]
  /\ UNCHANGED <<runtime, file>>

append(c, id) ==
  /\ memory.open /\ calls[c] = Idle
  /\ appended(c, id)

\* append_idempotent: the events are read first, and an event that is there is
\* acknowledged, whether or not its line is in the file.
append_idempotent(c, id) ==
  /\ memory.open /\ calls[c] = Idle
  /\ IF id \in ToSet(memory.ids)
     THEN /\ ghost' = [ghost EXCEPT !.acked = @ \cup {id},
                                    !.clean = @ /\ \A d \in Callers : calls[d].id # id]
          /\ UNCHANGED calls
     ELSE /\ calls' = [calls EXCEPT ![c] = [at |-> "absent", id |-> id]]
          /\ UNCHANGED ghost
  /\ UNCHANGED <<runtime, memory, file>>

append_absent(c) ==
  /\ calls[c].at = "absent"
  /\ appended(c, calls[c].id)

\* append_line: the record, and in a second write its newline.
write_text(c) ==
  /\ calls[c].at = "text"
  /\ Len(file) < MaxText
  /\ file' = Append(file, calls[c].id)
  /\ calls' = [calls EXCEPT ![c].at = "newline"]
  /\ UNCHANGED <<runtime, memory, ghost>>

write_newline(c) ==
  /\ calls[c].at = "newline"
  /\ file' = Append(file, Newline)
  /\ calls' = [calls EXCEPT ![c] = Idle]
  /\ ghost' = [ghost EXCEPT !.acked = @ \cup {calls[c].id}]
  /\ UNCHANGED <<runtime, memory>>

\* A write fails, with or without a part of it in the file; the memory keeps
\* the event.
write_fails(c) ==
  /\ calls[c].at \in {"text", "newline"}
  /\ file' \in {file} \cup (IF calls[c].at = "text" /\ Len(file) < MaxText THEN {Append(file, Torn)} ELSE {})
  /\ calls' = [calls EXCEPT ![c] = Idle]
  /\ ghost' = [ghost EXCEPT !.clean = FALSE]
  /\ UNCHANGED <<runtime, memory>>

\* The process ends; a line may be without its newline.
crash ==
  /\ memory.open
  /\ memory' = Closed
  /\ calls' = [c \in Callers |-> Idle]
  /\ ghost' = [ghost EXCEPT !.clean = @ /\ \A c \in Callers : calls[c].at # "newline"]
  /\ UNCHANGED <<runtime, file>>

events_after(cursor) ==
  LET after[n \in 0..Len(memory.ids)] ==
        IF n = 0 THEN <<>>
        ELSE IF memory.ids[n] > cursor THEN Append(after[n - 1], memory.ids[n]) ELSE after[n - 1]
  IN after[Len(memory.ids)]
latest_cursor == IF memory.ids = <<>> THEN 0 ELSE Last(memory.ids)

RuntimeNext ==
  \/ \E b \in Builder : build(b)
  \/ init_runtime \/ start \/ shutdown \/ recover

StoreNext ==
  \/ open \/ crash
  \/ \E c \in Callers :
       \/ \E id \in 1..MaxId : append(c, id) \/ append_idempotent(c, id)
       \/ append_absent(c) \/ write_text(c) \/ write_newline(c) \/ write_fails(c)

Next == RuntimeNext \/ StoreNext

Spec == Init /\ [][Next]_hvars

-----------------------------------------------------------------------------
TypeOK ==
  /\ runtime.state \in KernelRuntimeState \cup {"Unbuilt"}
  /\ ToSet(memory.ids) \subseteq 1..MaxId /\ ToSet(file) \subseteq 0..Torn
  /\ ghost.acked \subseteq 1..MaxId /\ ghost.clean \in BOOLEAN

\* As long as lines were written one at a time and none was cut (ghost.clean):
\* the file opens, with every event that was acknowledged, and a store with no
\* append under way holds what the file does, so that a reader's cursor means
\* the same before and after a restart.  Two appends at once may write their
\* lines in the other order, or a record into the other's line, and the file
\* does not open again; an append_idempotent after a failed write acknowledges
\* an event the file lacks.
EventsReopen ==
  /\ ghost.clean =>
       /\ replay(file).ok
       /\ ghost.acked \subseteq ToSet(replay(file).ids)
       /\ memory.open /\ (\A c \in Callers : calls[c].at \in {"idle", "absent"}) =>
            memory.ids = replay(file).ids
  /\ events_after(latest_cursor) = <<>>
  /\ events_after(0) = memory.ids

\* A runtime in production runs on dependencies that are not test doubles,
\* whatever the builder was given and in which order; and the health report
\* and the failure summary of the diagnostics agree in every state.
HostSound ==
  /\ EventsReopen
  /\ runtime.mode = "Production" => ~is_test_only(runtime.kind)
  /\ healthy <=> failures = {}
=============================================================================

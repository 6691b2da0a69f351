------------------------ MODULE AgentRunQueueProofs ------------------------
(***************************************************************************)
(* Proofs about AgentRunQueue, for any sets of callers, any number of runs *)
(* and any bound on nacks, losses, failures and restarts; and of AuditLog, *)
(* another file of lines that is read again after a crash, for any tasks,  *)
(* batches, events and crashes.                                            *)
(***************************************************************************)
EXTENDS AgentRunQueue, Sequences, FiniteSetTheorems, SequenceTheorems, WellFoundedInduction, TLAPS

CONSTANTS Tasks, BatchSize, MaxEvents, MaxCrashes                        \* of AuditLog
VARIABLES lines, recording, pending, sent, failures, reader, events      \* of AuditLog

\* The audit log, with variables of its own.
Audit == INSTANCE AuditLog WITH Writers <- Tasks, file <- lines, calls <- recording, ghost <- events

\* Caller c has changed the map and owes the file a line or its newline.
owes(c) == call[c].step \in {"record", "newline"}

\* Worker w's lease() is past the change of the map, or has returned the run.
has(w, r) ==
  \/ held[w] = r
  \/ owes(w) /\ call[w].ret = "leased" /\ call[w].run = r

\* Worker w has picked r from the list and not yet changed the map.
taking(w, r) == call[w].step = "take" /\ call[w].run = r

\* What a call carries at each step; whoever is in lease() holds the lock.
CallInv ==
  /\ ~opened => \A c \in Callers : call[c] = Idle
  /\ \A c \in Callers :
       /\ owes(c) \/ call[c].step = "take" => call[c].run \in Runs
       /\ owes(c) => call[c].line \in DurableAgentRunStatus
       /\ \/ call[c].step \in {"list", "take"}
          \/ owes(c) /\ call[c].ret = "leased"
          => c \in Workers /\ lock = c /\ held[c] = 0

\* A run that recovery left alone is in one hand; its status says whether it is
\* out on lease, about to be, or ended meanwhile by a host.
LeaseInv ==
  \A r \in Runs \ requeued :
    /\ \A v, w \in Workers : has(v, r) /\ has(w, r) => v = w
    /\ \A w \in Workers : has(w, r) => records[r] = "Running" \/ is_terminal(records[r])
    /\ \A w \in Workers : taking(w, r) => records[r] = "Queued" \/ is_terminal(records[r])

\* As long as nobody raced on a run, its line to come is its status, or the
\* line it has in the file is, unless that one could not be written.
FileInv ==
  opened =>
    \A r \in Runs \ raced :
      /\ \A c \in Callers : call[c].step = "record" /\ call[c].run = r => call[c].line = records[r]
      /\ \A c, d \in Callers : call[c].step = "record" /\ call[d].step = "record"
                                 /\ call[c].run = r /\ call[d].run = r => c = d
      /\ r \notin unwritten /\ ~writing(r) => file.last[r] = records[r]

\* A terminal status is in the map before its line is owed, and in the file once
\* that line is written.
EndInv ==
  opened =>
    /\ \A c \in Callers : owes(c) /\ is_terminal(call[c].line) => records[call[c].run] = call[c].line
    /\ \A c \in Callers : /\ call[c].step = "newline"
                          /\ is_terminal(call[c].line)
                          /\ call[c].run \notin raced
                          => file.last[call[c].run] = call[c].line
    /\ \A r \in ended : is_terminal(records[r])
    /\ \A r \in ended \ raced : file.last[r] = records[r]

IInv == TypeOK /\ CallInv

Statuses == DurableAgentRunStatus \cup {Absent}

Calls == [ step : {"idle", "list", "take", "recover", "record", "newline"},
           run : Runs \cup {0},
           line : Statuses,
           ret : {"return", "leased", "recover", "gone"} ]

-----------------------------------------------------------------------------
\* The numbers below a number, as a relation.
Less == {ss \in Nat \X Nat : ss[1] < ss[2]}

\* The oldest of some runs is one of them.
LEMMA MinIn ==
  ASSUME NEW S, S \subseteq Runs, S # {}
  PROVE  Min(S) \in S
<1>1. IsWellFoundedOn(Less, Nat)
  BY NatLessThanWellFounded DEF OpToRel, Less
<1>2. S \subseteq Nat
  BY QueueAssumption DEF Runs
<1>3. PICK x \in S : \A y \in S : <<y, x>> \notin Less
  BY <1>1, <1>2, WFMin
<1>4. ASSUME NEW y \in S
      PROVE  x =< y
  <2>1. <<y, x>> \notin Less /\ x \in Nat /\ y \in Nat
    BY <1>2, <1>3
  <2>2. \A a, b \in Nat : a < b => <<a, b>> \in Less
    BY DEF Less
  <2> QED BY <2>1, <2>2
<1> QED BY <1>4 DEF Min

\* The file operators stay within FileType.
LEMMA FileTypes ==
  ASSUME NEW f \in FileType(Runs, Statuses), NEW r \in Runs, NEW s \in Statuses
  PROVE  /\ write_record(f, r, s) \in FileType(Runs, Statuses)
         /\ write_newline(f) \in FileType(Runs, Statuses)
         /\ write_torn(f) \in FileType(Runs, Statuses)
BY DEF FileType, write_record, write_newline, write_torn

\* A change of the map and the call that owes the file its line are well typed.
LEMMA ChangeTypes ==
  ASSUME TypeOK, NEW c \in Callers, NEW r \in Runs, NEW to \in DurableAgentRunStatus,
         NEW next \in {"return", "leased", "recover"},
         transition(r, to), then_append(c, r, to, next)
  PROVE  /\ records' \in [Runs -> Statuses]
         /\ age' \in [Runs -> 0..LeaseTimeout]
         /\ call' \in [Callers -> Calls]
         /\ raced' \subseteq Runs
<1>1. 0 \in 0..LeaseTimeout
  BY QueueAssumption
<1> QED BY <1>1 DEF TypeOK, transition, then_append, Statuses, Calls

\* The initial state satisfies every part.
LEMMA InitInv == Init => IInv /\ LeaseInv /\ FileInv /\ EndInv
<1> SUFFICES ASSUME Init PROVE IInv /\ LeaseInv /\ FileInv /\ EndInv
  OBVIOUS
<1>1. TypeOK
  BY QueueAssumption DEF Init, TypeOK, Idle, EmptyFile, FileType, Absent
<1>2. CallInv
  BY DEF Init, CallInv, owes, Idle
<1>3. LeaseInv
  <2>1. \A w \in Workers : held[w] = 0 /\ call[w] = Idle
    BY DEF Init, Callers
  <2>2. \A r \in Runs : r # 0
    BY DEF Runs
  <2> QED BY <2>1, <2>2 DEF LeaseInv, has, taking, owes, Idle
<1>4. FileInv
  BY DEF Init, FileInv, EmptyFile, Idle
<1>5. EndInv
  BY DEF Init, EndInv, owes, Idle
<1> QED BY <1>1, <1>2, <1>3, <1>4, <1>5 DEF IInv

-----------------------------------------------------------------------------
\* Every step preserves the types and what a call carries.
LEMMA TypeNext == IInv /\ [Next]_vars => TypeOK'
<1> SUFFICES ASSUME IInv, [Next]_vars PROVE TypeOK'
  OBVIOUS
<1>0. TypeOK /\ CallInv /\ Idle \in Calls
  BY DEF IInv, Idle, Calls, Statuses
<1> USE QueueAssumption DEF history, store, TypeOK, Calls, Statuses
<1>1. CASE UNCHANGED vars
  BY <1>0, <1>1 DEF vars
<1>2. ASSUME NEW h \in Hosts, NEW r \in Runs, Enqueue(h, r)
      PROVE  TypeOK'
  <2>1. h \in Callers /\ "Queued" \in DurableAgentRunStatus
    BY DEF Callers, DurableAgentRunStatus
  <2> QED BY <1>0, <1>2, <2>1, ChangeTypes DEF Enqueue
<1>3. ASSUME NEW h \in Hosts, NEW r \in Runs, NEW to \in {"Running"} \cup HostEnds,
             HostTransition(h, r, to)
      PROVE  TypeOK'
  <2>1. h \in Callers /\ to \in DurableAgentRunStatus
    BY <1>3 DEF Callers, DurableAgentRunStatus
  <2> QED BY <1>0, <1>3, <2>1, ChangeTypes DEF HostTransition
<1>4. ASSUME NEW w \in Workers, Ack(w) \/ FailRun(w) \/ Park(w) \/ Nack(w)
      PROVE  TypeOK'
  <2>1. PICK to \in DurableAgentRunStatus : LetGo(w, to)
    BY <1>4 DEF Ack, FailRun, Park, Nack, DurableAgentRunStatus
  <2>2. faults' \in 0..MaxFaults
    BY <1>0, <1>4 DEF Ack, FailRun, Park, Nack, fault
  <2>3. w \in Callers /\ held[w] \in Runs
    BY <1>0, <2>1 DEF LetGo, Callers
  <2>4. held' \in [Workers -> Runs \cup {0}]
    BY <1>0, <2>1 DEF LetGo
  <2>5. CASE can_transition(held[w], to)
    BY <1>0, <2>1, <2>2, <2>3, <2>4, <2>5, ChangeTypes DEF LetGo
  <2>6. CASE ~can_transition(held[w], to)
    BY <1>0, <2>1, <2>2, <2>4, <2>6 DEF LetGo
  <2> QED BY <2>5, <2>6
<1>5. ASSUME NEW w \in Workers, LeaseBegin(w)
      PROVE  TypeOK'
  BY <1>0, <1>5 DEF LeaseBegin, Callers
<1>6. ASSUME NEW w \in Workers, LoseWorker(w)
      PROVE  TypeOK'
  BY <1>0, <1>6 DEF LoseWorker, fault
<1>7. ASSUME NEW c \in Recoverers, RecoverBegin(c)
      PROVE  TypeOK'
  BY <1>0, <1>7 DEF RecoverBegin, Callers, expired
<1>8. ASSUME NEW w \in Workers, LeaseList(w)
      PROVE  TypeOK'
  <2>1. queued # {} => Min(queued) \in Runs
    BY MinIn DEF queued
  <2> QED BY <1>0, <1>8, <2>1 DEF LeaseList, Callers
<1>9. ASSUME NEW w \in Workers, LeaseTake(w)
      PROVE  TypeOK'
  <2>1. w \in Callers /\ call[w].run \in Runs /\ "Running" \in DurableAgentRunStatus
    BY <1>0, <1>9 DEF LeaseTake, CallInv, Callers, DurableAgentRunStatus
  <2>2. CASE can_transition(call[w].run, "Running")
    BY <1>0, <1>9, <2>1, <2>2, ChangeTypes DEF LeaseTake
  <2>3. CASE ~can_transition(call[w].run, "Running")
    <3>1. call' = [call EXCEPT ![w] = Idle] /\ lock' = Free /\ UNCHANGED <<records, age, raced>>
          /\ UNCHANGED <<file, todo, held, opened, faults, ended, requeued, unwritten>>
      BY <1>9, <2>3 DEF LeaseTake
    <3> QED BY <1>0, <2>1, <3>1
  <2> QED BY <2>2, <2>3
<1>10. ASSUME NEW c \in Recoverers, RecoverNext(c)
       PROVE  TypeOK'
  <2>1. c \in Callers /\ "Queued" \in DurableAgentRunStatus
    BY DEF Callers, DurableAgentRunStatus
  <2>2. todo[c] # {} => Min(todo[c]) \in Runs
    BY <1>0, <2>1, MinIn
  <2>3. todo' \in [Callers -> SUBSET Runs]
    BY <1>0, <1>10, <2>1 DEF RecoverNext
  <2>4. CASE todo[c] # {} /\ can_transition(Min(todo[c]), "Queued")
    BY <1>0, <1>10, <2>1, <2>2, <2>3, <2>4, ChangeTypes DEF RecoverNext
  <2>5. CASE ~(todo[c] # {} /\ can_transition(Min(todo[c]), "Queued"))
    BY <1>0, <1>10, <2>1, <2>3, <2>5 DEF RecoverNext
  <2> QED BY <2>4, <2>5
<1>11. ASSUME NEW c \in Callers, WriteRecord(c)
       PROVE  TypeOK'
  <2>1. call[c].run \in Runs /\ call[c].line \in Statuses
    BY <1>0, <1>11 DEF WriteRecord, CallInv, owes
  <2>2. file' \in FileType(Runs, Statuses)
    BY <1>0, <1>11, <2>1, FileTypes DEF WriteRecord
  <2>3. call' \in [Callers -> Calls] /\ unwritten' \subseteq Runs
    BY <1>0, <1>11 DEF WriteRecord
  <2> QED BY <1>0, <1>11, <2>2, <2>3 DEF WriteRecord
<1>12. ASSUME NEW c \in Callers, WriteNewline(c)
       PROVE  TypeOK'
  <2>1. call[c].run \in Runs /\ call[c].line \in Statuses
    BY <1>0, <1>12 DEF WriteNewline, CallInv, owes
  <2>2. file' \in FileType(Runs, Statuses)
    BY <1>0, <1>12, <2>1, FileTypes DEF WriteNewline
  <2>3. call' \in [Callers -> Calls] /\ ended' \subseteq Runs
    BY <1>0, <1>12, <2>1 DEF WriteNewline, Idle
  <2>4. lock' \in Workers \cup {Free} /\ held' \in [Workers -> Runs \cup {0}]
    BY <1>0, <1>12, <2>1 DEF WriteNewline
  <2> QED BY <1>0, <1>12, <2>2, <2>3, <2>4 DEF WriteNewline
<1>13. CASE Tick
  <2>1. \A r \in Runs : Min({age[r] + 1, LeaseTimeout}) \in 0..LeaseTimeout
    <3>1. age \in [Runs -> 0..LeaseTimeout] /\ LeaseTimeout \in Nat
      BY <1>0
    <3> HIDE DEF TypeOK
    <3> QED BY <3>1 DEF Min
  <2>2. age' \in [Runs -> 0..LeaseTimeout]
    BY <1>0, <1>13, <2>1 DEF Tick
  <2> QED BY <1>0, <1>13, <2>2 DEF Tick
<1>14. CASE Restart
  <2>1. PICK f \in {file} \cup {write_torn(file) : c \in {d \in Callers : call[d].step = "record"}} :
          /\ file' = f
          /\ opened' = parses(f)
          /\ records' = IF parses(f) THEN f.last ELSE [r \in Runs |-> Absent]
    BY <1>14 DEF Restart
  <2>2. f \in FileType(Runs, Statuses)
    <3>1. write_torn(file) \in FileType(Runs, Statuses)
      BY <1>0 DEF FileType, write_torn
    <3> QED BY <1>0, <2>1, <3>1
  <2>3. records' \in [Runs -> Statuses] /\ opened' \in BOOLEAN
    BY <2>1, <2>2 DEF FileType, parses
  <2>4. faults' \in 0..MaxFaults
    BY <1>0, <1>14 DEF Restart, fault
  <2> QED BY <1>0, <1>14, <2>1, <2>2, <2>3, <2>4 DEF Restart
<1>15. ASSUME NEW c \in Callers, WriteFails(c) \/ DropCall(c)
       PROVE  TypeOK'
  <2>1. /\ lock' \in Workers \cup {Free} /\ todo' \in [Callers -> SUBSET Runs]
        /\ faults' \in 0..MaxFaults
        /\ UNCHANGED <<records, age, held, opened, ended, requeued, raced>>
    BY <1>0, <1>15 DEF WriteFails, DropCall, leave, fault
  <2>2. file' \in FileType(Runs, Statuses) /\ unwritten' \subseteq Runs
    <3>1. CASE WriteFails(c) /\ call[c].step = "record"
      <4>1. call[c].run \in Runs
        BY <1>0, <3>1 DEF CallInv, owes
      <4>2. write_torn(file) \in FileType(Runs, Statuses)
        BY <1>0 DEF FileType, write_torn
      <4> QED BY <1>0, <3>1, <4>1, <4>2 DEF WriteFails
    <3>2. CASE ~(WriteFails(c) /\ call[c].step = "record")
      BY <1>0, <1>15, <3>2 DEF WriteFails, DropCall
    <3> QED BY <3>1, <3>2
  <2>3. call' \in [Callers -> Calls]
    BY <1>0, <1>15 DEF WriteFails, DropCall
  <2> QED BY <1>0, <2>1, <2>2, <2>3
<1> HIDE DEF TypeOK
<1> QED BY <1>1, <1>2, <1>3, <1>4, <1>5, <1>6, <1>7, <1>8, <1>9, <1>10, <1>11, <1>12, <1>13, <1>14, <1>15
        DEF Next, CallStep

\* Every step preserves what a call carries: only the holder of the lock is in
\* lease(), and it gives the lock back as it leaves.
LEMMA CallNext == IInv /\ [Next]_vars => CallInv'
<1> SUFFICES ASSUME IInv, [Next]_vars PROVE CallInv'
  OBVIOUS
<1>0. TypeOK /\ CallInv
  BY DEF IInv
<1> USE QueueAssumption DEF TypeOK, CallInv, owes, history, store
<1>1. CASE UNCHANGED vars
  BY <1>0, <1>1 DEF vars
<1>2. ASSUME NEW c \in Callers, NEW r \in Runs, NEW to \in DurableAgentRunStatus,
             call[c].step = "idle" \/ call[c].step = "recover", opened, opened' = opened,
             call' = [call EXCEPT ![c] = [step |-> "record", run |-> r, line |-> to, ret |-> "return"]]
               \/ call' = [call EXCEPT ![c] = [step |-> "record", run |-> r, line |-> to, ret |-> "recover"]],
             lock' = lock, held' = held \/ held' = [held EXCEPT ![c] = 0]
      PROVE  CallInv'
  BY <1>0, <1>2
<1>3. ASSUME NEW h \in Hosts, NEW r \in Runs,
             Enqueue(h, r) \/ \E to \in {"Running"} \cup HostEnds : HostTransition(h, r, to)
      PROVE  CallInv'
  <2>1. PICK to \in DurableAgentRunStatus :
          /\ then_append(h, r, to, "return") /\ idle(h)
          /\ UNCHANGED <<lock, held, opened>>
    BY <1>3, QueueAssumption DEF Enqueue, HostTransition, DurableAgentRunStatus
  <2>2. /\ h \in Callers /\ call[h].step = "idle" /\ opened
        /\ call' = [call EXCEPT ![h] = [step |-> "record", run |-> r, line |-> to, ret |-> "return"]]
    BY <2>1 DEF then_append, idle, Idle, Callers
  <2> QED BY <1>2, <2>1, <2>2
<1>4. ASSUME NEW w \in Workers, Ack(w) \/ FailRun(w) \/ Park(w) \/ Nack(w)
      PROVE  CallInv'
  <2>1. PICK to \in DurableAgentRunStatus : LetGo(w, to)
    BY <1>4 DEF Ack, FailRun, Park, Nack, DurableAgentRunStatus
  <2>2. w \in Callers /\ held[w] \in Runs
    BY <1>0, <2>1 DEF LetGo, Callers
  <2>3. CASE can_transition(held[w], to)
    BY <1>0, <1>2, <2>1, <2>2, <2>3 DEF LetGo, then_append, idle, Idle
  <2>4. CASE ~can_transition(held[w], to)
    BY <1>0, <2>1, <2>2, <2>4 DEF LetGo
  <2> QED BY <2>3, <2>4
<1>5. ASSUME NEW w \in Workers, LeaseBegin(w)
      PROVE  CallInv'
  <2>1. \A c \in Callers : ~(call[c].step \in {"list", "take"})
                           /\ ~(owes(c) /\ call[c].ret = "leased")
    BY <1>0, <1>5 DEF LeaseBegin
  <2> QED BY <1>0, <1>5, <2>1 DEF LeaseBegin, idle, Idle, Callers
<1>6. ASSUME NEW w \in Workers, LoseWorker(w)
      PROVE  CallInv'
  BY <1>0, <1>6 DEF LoseWorker
<1>7. ASSUME NEW c \in Recoverers, RecoverBegin(c)
      PROVE  CallInv'
  BY <1>0, <1>7 DEF RecoverBegin, Callers, idle, Idle
<1>8. ASSUME NEW w \in Workers, LeaseList(w)
      PROVE  CallInv'
  <2>1. queued # {} => Min(queued) \in Runs
    BY MinIn DEF queued
  <2>2. w \in Callers /\ opened
    BY <1>0, <1>8 DEF LeaseList, Callers, Idle
  <2>3. CASE queued # {}
    BY <1>0, <1>8, <2>1, <2>2, <2>3 DEF LeaseList
  <2>4. CASE queued = {}
    BY <1>0, <1>8, <2>2, <2>4 DEF LeaseList, Idle
  <2> QED BY <2>3, <2>4
<1>9. ASSUME NEW w \in Workers, LeaseTake(w)
      PROVE  CallInv'
  <2>1. w \in Callers /\ opened /\ call[w].run \in Runs /\ "Running" \in DurableAgentRunStatus
    BY <1>0, <1>9 DEF LeaseTake, Callers, Idle, DurableAgentRunStatus
  <2>2. CASE can_transition(call[w].run, "Running")
    BY <1>0, <1>9, <2>1, <2>2 DEF LeaseTake, then_append
  <2>3. CASE ~can_transition(call[w].run, "Running")
    BY <1>0, <1>9, <2>1, <2>3 DEF LeaseTake, Idle
  <2> QED BY <2>2, <2>3
<1>10. ASSUME NEW c \in Recoverers, RecoverNext(c)
       PROVE  CallInv'
  <2>1. c \in Callers /\ "Queued" \in DurableAgentRunStatus /\ opened
    BY <1>0, <1>10 DEF RecoverNext, Callers, DurableAgentRunStatus, Idle
  <2>2. todo[c] # {} => Min(todo[c]) \in Runs
    BY <1>0, <2>1, MinIn
  <2>3. CASE todo[c] # {} /\ can_transition(Min(todo[c]), "Queued")
    BY <1>2, <1>10, <2>1, <2>2, <2>3 DEF RecoverNext, then_append
  <2>4. CASE ~(todo[c] # {} /\ can_transition(Min(todo[c]), "Queued"))
    BY <1>0, <1>10, <2>1, <2>4 DEF RecoverNext, Idle
  <2> QED BY <2>3, <2>4
<1>11. ASSUME NEW c \in Callers, WriteRecord(c)
       PROVE  CallInv'
  BY <1>0, <1>11 DEF WriteRecord, Idle
<1>12. ASSUME NEW c \in Callers, WriteNewline(c)
       PROVE  CallInv'
  <2>1. /\ opened /\ opened' = opened
        /\ call' = [call EXCEPT ![c] = IF @.ret = "recover" THEN [Idle EXCEPT !.step = "recover"] ELSE Idle]
    BY <1>0, <1>12 DEF WriteNewline, Idle
  <2>2. ~owes(c)' /\ call'[c].step \notin {"list", "take"}
    BY <1>0, <2>1 DEF Idle
  <2>3. \A d \in Callers \ {c} : call'[d] = call[d]
    BY <1>0, <2>1
  <2>4. CASE call[c].ret = "leased"
    BY <1>0, <1>12, <2>1, <2>2, <2>3, <2>4 DEF WriteNewline
  <2>5. CASE call[c].ret # "leased"
    BY <1>0, <1>12, <2>1, <2>2, <2>3, <2>5 DEF WriteNewline
  <2> QED BY <2>4, <2>5
<1>13. CASE Tick
  BY <1>0, <1>13 DEF Tick
<1>14. CASE Restart
  BY <1>0, <1>14 DEF Restart, Idle
<1>15. ASSUME NEW c \in Callers, WriteFails(c) \/ DropCall(c)
       PROVE  CallInv'
  <2>1. /\ owes(c) /\ opened /\ opened' = opened /\ held' = held
        /\ lock' = IF call[c].ret = "leased" THEN Free ELSE lock
        /\ call' = [call EXCEPT ![c] = Idle] \/ call' = [call EXCEPT ![c].ret = "gone"]
    BY <1>0, <1>15 DEF WriteFails, DropCall, leave, Idle
  <2>2. \A d \in Callers \ {c} : call'[d] = call[d]
    BY <1>0, <2>1
  <2>3. /\ owes(c)' => call'[c].run = call[c].run /\ call'[c].line = call[c].line /\ call'[c].ret = "gone"
        /\ call'[c].step \notin {"list", "take"}
    BY <1>0, <2>1 DEF Idle
  <2> QED BY <1>0, <2>1, <2>2, <2>3
<1> HIDE DEF CallInv
<1> QED BY <1>1, <1>3, <1>4, <1>5, <1>6, <1>7, <1>8, <1>9, <1>10, <1>11, <1>12, <1>13, <1>14, <1>15
        DEF Next, CallStep

\* Every step keeps a run that recovery left alone in one hand.  A run changes
\* hands only under the lock, and only from the status Queued, which it has not
\* while somebody has it.
LEMMA LeaseNext == IInv /\ LeaseInv /\ [Next]_vars => LeaseInv'
<1> SUFFICES ASSUME IInv, LeaseInv, [Next]_vars, NEW q \in Runs \ requeued'
             PROVE  /\ \A v, w \in Workers : has(v, q)' /\ has(w, q)' => v = w
                    /\ \A w \in Workers : has(w, q)' => records'[q] = "Running" \/ is_terminal(records'[q])
                    /\ \A w \in Workers : taking(w, q)' => records'[q] = "Queued" \/ is_terminal(records'[q])
  BY DEF LeaseInv
<1> DEFINE P == /\ \A v, w \in Workers : has(v, q)' /\ has(w, q)' => v = w
                /\ \A w \in Workers : has(w, q)' => records'[q] = "Running" \/ is_terminal(records'[q])
                /\ \A w \in Workers : taking(w, q)' => records'[q] = "Queued" \/ is_terminal(records'[q])
           Q == /\ \A v, w \in Workers : has(v, q) /\ has(w, q) => v = w
                /\ \A w \in Workers : has(w, q) => records[q] = "Running" \/ is_terminal(records[q])
                /\ \A w \in Workers : taking(w, q) => records[q] = "Queued" \/ is_terminal(records[q])
<1>0. TypeOK /\ CallInv /\ q \in Runs /\ q # 0 /\ Workers \subseteq Callers
  BY DEF IInv, Callers, Runs
<1>0a. q \notin requeued
  BY DEF Next, vars, history, CallStep, Enqueue, HostTransition, Ack, FailRun, Park, Nack, LetGo, LeaseBegin,
         LoseWorker, RecoverBegin, LeaseList, LeaseTake, RecoverNext, WriteRecord, WriteNewline, WriteFails, DropCall, leave, Tick, Restart
<1>0b. Q
  BY <1>0, <1>0a DEF LeaseInv
<1> USE DEF TypeOK, CallInv, history, store, has, taking, owes
<1> HIDE DEF Q, P
\* What leaves the status of q alone and gives q to nobody changes nothing.
<1>q. ASSUME records'[q] = records[q],
             \A w \in Workers : (has(w, q)' => has(w, q)) /\ (taking(w, q)' => taking(w, q))
      PROVE  P
  BY <1>0b, <1>q DEF P, Q
<1>1. CASE UNCHANGED vars
  <2>1. records' = records /\ call' = call /\ held' = held
    BY <1>1 DEF vars
  <2>2. \A w \in Workers : (has(w, q)' => has(w, q)) /\ (taking(w, q)' => taking(w, q))
    BY <2>1
  <2> QED BY <1>q, <2>1, <2>2 DEF P
<1>2. ASSUME NEW h \in Hosts, NEW r \in Runs, Enqueue(h, r)
      PROVE  P
  <2>1. /\ records[r] = Absent /\ records' = [records EXCEPT ![r] = "Queued"]
        /\ call' = [call EXCEPT ![h] = [step |-> "record", run |-> r, line |-> "Queued", ret |-> "return"]]
        /\ held' = held /\ h \in Callers
    BY <1>2 DEF Enqueue, transition, then_append, Callers
  <2>2. \A w \in Workers : (has(w, q)' => has(w, q)) /\ (taking(w, q)' => taking(w, q))
    BY <1>0, <2>1
  <2>3. CASE r # q
    BY <1>0, <1>q, <2>1, <2>2, <2>3
  <2>4. CASE r = q
    BY <1>0, <1>0b, <2>1, <2>2, <2>4 DEF P, Q, Absent, is_terminal
  <2> QED BY <2>3, <2>4
<1>3. ASSUME NEW h \in Hosts, NEW r \in Runs, NEW to \in {"Running"} \cup HostEnds,
             HostTransition(h, r, to)
      PROVE  P
  <2>1. /\ to = "Running" => records[r] = "WaitingForApproval"
        /\ records' = [records EXCEPT ![r] = to]
        /\ call' = [call EXCEPT ![h] = [step |-> "record", run |-> r, line |-> to, ret |-> "return"]]
        /\ held' = held /\ h \in Callers /\ (to = "Running" \/ is_terminal(to))
    BY <1>3, QueueAssumption DEF HostTransition, transition, then_append, Callers, is_terminal
  <2>2. \A w \in Workers : (has(w, q)' => has(w, q)) /\ (taking(w, q)' => taking(w, q))
    BY <1>0, <2>1
  <2>3. CASE r # q
    BY <1>0, <1>q, <2>1, <2>2, <2>3
  <2>4. CASE r = q
    BY <1>0, <1>0b, <2>1, <2>2, <2>4 DEF P, Q, is_terminal
  <2> QED BY <2>3, <2>4
<1>4. ASSUME NEW v \in Workers, Ack(v) \/ FailRun(v) \/ Park(v) \/ Nack(v)
      PROVE  P
  <2>1. PICK to \in DurableAgentRunStatus : LetGo(v, to)
    BY <1>4 DEF Ack, FailRun, Park, Nack, DurableAgentRunStatus
  <2>2. held' = [held EXCEPT ![v] = 0] /\ call[v] = Idle
    BY <2>1 DEF LetGo, idle
  <2>3. CASE can_transition(held[v], to)
    <3>1. /\ records' = [records EXCEPT ![held[v]] = to]
          /\ call' = [call EXCEPT ![v] = [step |-> "record", run |-> held[v], line |-> to, ret |-> "return"]]
      BY <2>1, <2>3 DEF LetGo, transition, then_append
    <3>2. \A w \in Workers : (has(w, q)' => has(w, q) /\ w # v) /\ (taking(w, q)' => taking(w, q))
      BY <1>0, <2>2, <3>1
    <3>3. CASE held[v] # q
      BY <1>0, <1>q, <3>1, <3>2, <3>3
    <3>4. CASE held[v] = q
      <4>1. \A w \in Workers : ~has(w, q)'
        BY <1>0b, <3>2, <3>4 DEF Q
      <4>2. ASSUME NEW w \in Workers, taking(w, q)'
            PROVE  is_terminal(records'[q])
        <5>1. is_terminal(records[q])
          BY <1>0b, <3>2, <3>4, <4>2 DEF Q, is_terminal
        <5>2. to = records[q]
          BY <2>3, <3>4, <5>1 DEF can_transition, is_valid_transition, Transitions, is_terminal
        <5> QED BY <1>0, <3>1, <3>4, <5>1, <5>2
      <4> QED BY <4>1, <4>2 DEF P
    <3> QED BY <3>3, <3>4
  <2>4. CASE ~can_transition(held[v], to)
    BY <1>0, <1>q, <2>1, <2>2, <2>4 DEF LetGo
  <2> QED BY <2>3, <2>4
<1>5. ASSUME NEW v \in Workers, LeaseBegin(v) \/ LoseWorker(v)
      PROVE  P
  BY <1>0, <1>q, <1>5 DEF LeaseBegin, LoseWorker
<1>6. ASSUME NEW c \in Recoverers, RecoverBegin(c)
      PROVE  P
  BY <1>0, <1>q, <1>6 DEF RecoverBegin
<1>7. ASSUME NEW v \in Workers, LeaseList(v)
      PROVE  P
  <2>1. CASE queued # {} /\ Min(queued) = q
    <3>1. records[q] = "Queued"
      BY <2>1, MinIn DEF queued
    <3>2. records' = records /\ held' = held /\ call' = [call EXCEPT ![v].step = "take", ![v].run = q]
      BY <1>7, <2>1 DEF LeaseList
    <3>3. \A w \in Workers : has(w, q)' => has(w, q)
      BY <1>0, <3>2
    <3> QED BY <1>0b, <3>1, <3>2, <3>3 DEF P, Q
  <2>2. CASE queued # {} /\ Min(queued) # q
    BY <1>0, <1>q, <1>7, <2>2 DEF LeaseList
  <2>3. CASE queued = {}
    BY <1>0, <1>q, <1>7, <2>3 DEF LeaseList, Idle
  <2> QED BY <2>1, <2>2, <2>3
<1>8. ASSUME NEW v \in Workers, LeaseTake(v)
      PROVE  P
  <2>0. v \in Callers /\ call[v].run \in Runs /\ lock = v
    BY <1>0, <1>8 DEF LeaseTake
  <2>1. CASE can_transition(call[v].run, "Running")
    <3>1. /\ records' = [records EXCEPT ![call[v].run] = "Running"] /\ held' = held
          /\ call' = [call EXCEPT ![v] = [step |-> "record", run |-> call[v].run, line |-> "Running", ret |-> "leased"]]
      BY <1>8, <2>1 DEF LeaseTake, transition, then_append
    <3>2. CASE call[v].run # q
      BY <1>0, <1>q, <3>1, <3>2
    <3>3. CASE call[v].run = q
      <4>1. records[q] = "Queued"
        BY <1>0b, <1>8, <2>1, <3>3
           DEF Q, LeaseTake, can_transition, is_valid_transition, Transitions, is_terminal
      <4>2. \A w \in Workers : ~has(w, q)
        BY <1>0b, <4>1 DEF Q, is_terminal
      <4>3. \A w \in Workers : ~taking(w, q)'
        BY <1>0, <2>0, <3>1
      <4>4. \A w \in Workers : has(w, q)' => w = v
        BY <1>0, <3>1, <4>2
      <4> QED BY <1>0, <3>1, <3>3, <4>3, <4>4 DEF P
    <3> QED BY <3>2, <3>3
  <2>2. CASE ~can_transition(call[v].run, "Running")
    BY <1>0, <1>q, <1>8, <2>2 DEF LeaseTake, Idle
  <2> QED BY <2>1, <2>2
<1>9. ASSUME NEW c \in Recoverers, RecoverNext(c)
      PROVE  P
  <2>0. c \in Callers
    BY DEF Callers
  <2>1. CASE todo[c] # {} /\ can_transition(Min(todo[c]), "Queued")
    <3>1. /\ records' = [records EXCEPT ![Min(todo[c])] = "Queued"] /\ held' = held
          /\ call' = [call EXCEPT ![c] = [step |-> "record", run |-> Min(todo[c]), line |-> "Queued", ret |-> "recover"]]
          /\ Min(todo[c]) # q
      BY <1>9, <2>1 DEF RecoverNext, transition, then_append
    <3> QED BY <1>0, <1>q, <2>0, <3>1
  <2>2. CASE ~(todo[c] # {} /\ can_transition(Min(todo[c]), "Queued"))
    BY <1>0, <1>q, <1>9, <2>0, <2>2 DEF RecoverNext, Idle
  <2> QED BY <2>1, <2>2
<1>10. ASSUME NEW c \in Callers, WriteRecord(c)
       PROVE  P
  BY <1>0, <1>q, <1>10 DEF WriteRecord, Idle
<1>11. ASSUME NEW c \in Callers, WriteNewline(c)
       PROVE  P
  <2>1. /\ call' = [call EXCEPT ![c] = IF @.ret = "recover" THEN [Idle EXCEPT !.step = "recover"] ELSE Idle]
        /\ records' = records
    BY <1>11 DEF WriteNewline
  <2>2. ~owes(c)' /\ call'[c].step # "take" /\ \A d \in Callers \ {c} : call'[d] = call[d]
    BY <1>0, <2>1 DEF Idle
  <2>3. CASE call[c].ret = "leased"
    <3>1. c \in Workers /\ held' = [held EXCEPT ![c] = call[c].run]
      BY <1>0, <1>11, <2>3 DEF WriteNewline
    <3> QED BY <1>0, <1>q, <1>11, <2>1, <2>2, <2>3, <3>1 DEF WriteNewline
  <2>4. CASE call[c].ret # "leased"
    BY <1>0, <1>q, <1>11, <2>1, <2>2, <2>4 DEF WriteNewline
  <2> QED BY <2>3, <2>4
<1>12. CASE Tick
  <2>1. records' = records /\ call' = call /\ held' = held
    BY <1>12 DEF Tick
  <2>2. \A w \in Workers : (has(w, q)' => has(w, q)) /\ (taking(w, q)' => taking(w, q))
    BY <2>1
  <2> QED BY <1>q, <2>1, <2>2 DEF P
<1>13. CASE Restart
  BY <1>0, <1>13 DEF Restart, Idle, P
<1>14. ASSUME NEW c \in Callers, WriteFails(c) \/ DropCall(c)
       PROVE  P
  <2>1. /\ call[c].step \in {"record", "newline"} /\ records' = records /\ held' = held
        /\ call' = [call EXCEPT ![c] = Idle] \/ call' = [call EXCEPT ![c].ret = "gone"]
    BY <1>14 DEF WriteFails, DropCall, leave
  <2>2. \A w \in Workers : (has(w, q)' => has(w, q)) /\ (taking(w, q)' => taking(w, q))
    BY <1>0, <2>1 DEF Idle
  <2> QED BY <1>q, <2>1, <2>2
<1> QED BY <1>1, <1>2, <1>3, <1>4, <1>5, <1>6, <1>7, <1>8, <1>9, <1>10, <1>11, <1>12, <1>13, <1>14
        DEF Next, CallStep, P

-----------------------------------------------------------------------------
(* What a step may do to the map and to the lines owed to the file.        *)

\* Caller c changes the status of r, along a valid transition or by creating r,
\* and owes the file the new one.
changes(c, r, to, next) ==
  /\ opened
  /\ records[r] = Absent \/ can_transition(r, to)
  /\ ~owes(c)
  /\ transition(r, to)
  /\ then_append(c, r, to, next)
  /\ UNCHANGED <<file, opened, ended, unwritten>>

\* The map, the file and the lines owed stay as they are.
quiet ==
  /\ \A c \in Callers :
       \/ call'[c] = call[c]
       \/ ~owes(c) /\ ~owes(c)'
       \/ call'[c].step = call[c].step /\ call'[c].run = call[c].run /\ call'[c].line = call[c].line
  /\ UNCHANGED <<records, file, opened, ended, raced, unwritten>>

\* Every step is of one of these kinds.
LEMMA Kinds ==
  ASSUME IInv, [Next]_vars
  PROVE  \/ quiet
         \/ \E c \in Callers, r \in Runs, to \in DurableAgentRunStatus,
               next \in {"return", "leased", "recover"} : changes(c, r, to, next)
         \/ \E c \in Callers : WriteRecord(c) \/ WriteNewline(c) \/ WriteFails(c)
         \/ Restart
<1> DEFINE K == \/ quiet
                \/ \E c \in Callers, r \in Runs, to \in DurableAgentRunStatus,
                      next \in {"return", "leased", "recover"} : changes(c, r, to, next)
<1>0. /\ TypeOK /\ CallInv /\ Workers \subseteq Callers /\ Hosts \subseteq Callers
      /\ Recoverers \subseteq Callers
  BY DEF IInv, Callers
<1>a. \A s \in {"Queued", "Running", "Cancelled", "TimedOut", "Completed", "Failed", "WaitingForApproval"} :
        s \in DurableAgentRunStatus
  BY DEF DurableAgentRunStatus
<1>b. \A c \in Callers : call[c].step # "idle" => opened
  BY <1>0 DEF CallInv, Idle
<1> USE DEF history, store, owes
<1>1. ASSUME UNCHANGED vars PROVE K
  <2>1. quiet
    BY <1>1 DEF vars, quiet
  <2> QED BY <2>1
<1>2. ASSUME NEW h \in Hosts, NEW r \in Runs, Enqueue(h, r)
      PROVE  K
  <2>1. changes(h, r, "Queued", "return")
    BY <1>2 DEF Enqueue, changes, idle, Idle
  <2> QED BY <1>0, <1>a, <2>1
<1>3. ASSUME NEW h \in Hosts, NEW r \in Runs, NEW to \in {"Running"} \cup HostEnds,
             HostTransition(h, r, to)
      PROVE  K
  <2>1. changes(h, r, to, "return") /\ to \in DurableAgentRunStatus
    BY <1>3, <1>a, QueueAssumption DEF HostTransition, changes, idle, Idle
  <2> QED BY <1>0, <2>1
<1>4. ASSUME NEW w \in Workers, Ack(w) \/ FailRun(w) \/ Park(w) \/ Nack(w)
      PROVE  K
  <2>1. PICK to \in DurableAgentRunStatus : LetGo(w, to)
    BY <1>4 DEF Ack, FailRun, Park, Nack, DurableAgentRunStatus
  <2>2. held[w] \in Runs
    BY <1>0, <2>1 DEF LetGo, TypeOK
  <2>3. CASE can_transition(held[w], to)
    <3>1. changes(w, held[w], to, "return")
      BY <2>1, <2>3 DEF LetGo, changes, idle, Idle
    <3> QED BY <1>0, <2>2, <3>1
  <2>4. CASE ~can_transition(held[w], to)
    <3>1. quiet
      BY <2>1, <2>4 DEF LetGo, quiet
    <3> QED BY <3>1
  <2> QED BY <2>3, <2>4
<1>5. ASSUME NEW w \in Workers, LeaseBegin(w) \/ LoseWorker(w) \/ LeaseList(w)
      PROVE  K
  <2>1. /\ ~owes(w) /\ UNCHANGED <<records, file, opened, ended, raced, unwritten>>
        /\ \A c \in Callers \ {w} : call'[c] = call[c]
        /\ call'[w] = call[w] \/ ~owes(w)'
    BY <1>0, <1>5 DEF LeaseBegin, LoseWorker, LeaseList, idle, Idle, TypeOK
  <2>2. quiet
    BY <2>1 DEF quiet
  <2> QED BY <2>2
<1>6. ASSUME NEW c \in Recoverers, RecoverBegin(c)
      PROVE  K
  <2>1. /\ ~owes(c) /\ ~owes(c)' /\ UNCHANGED <<records, file, opened, ended, raced, unwritten>>
        /\ \A d \in Callers \ {c} : call'[d] = call[d]
    BY <1>0, <1>6 DEF RecoverBegin, idle, Idle, TypeOK
  <2>2. quiet
    BY <2>1 DEF quiet
  <2> QED BY <2>2
<1>7. ASSUME NEW w \in Workers, LeaseTake(w)
      PROVE  K
  <2>0. w \in Callers /\ call[w].run \in Runs /\ ~owes(w) /\ opened
    BY <1>0, <1>b, <1>7 DEF LeaseTake, CallInv
  <2>1. CASE can_transition(call[w].run, "Running")
    <3>1. changes(w, call[w].run, "Running", "leased")
      BY <1>7, <2>0, <2>1 DEF LeaseTake, changes
    <3> QED BY <1>a, <2>0, <3>1
  <2>2. CASE ~can_transition(call[w].run, "Running")
    <3>1. /\ ~owes(w)' /\ UNCHANGED <<records, file, opened, ended, raced, unwritten>>
          /\ \A d \in Callers \ {w} : call'[d] = call[d]
      BY <1>0, <1>7, <2>0, <2>2 DEF LeaseTake, Idle, TypeOK
    <3>2. quiet
      BY <2>0, <3>1 DEF quiet
    <3> QED BY <3>2
  <2> QED BY <2>1, <2>2
<1>8. ASSUME NEW c \in Recoverers, RecoverNext(c)
      PROVE  K
  <2>0. c \in Callers /\ ~owes(c) /\ opened
    BY <1>0, <1>b, <1>8 DEF RecoverNext
  <2>1. CASE todo[c] # {} /\ can_transition(Min(todo[c]), "Queued")
    <3>1. changes(c, Min(todo[c]), "Queued", "recover")
      BY <1>8, <2>0, <2>1 DEF RecoverNext, changes
    <3>2. Min(todo[c]) \in Runs
      BY <1>0, <2>0, <2>1, MinIn DEF TypeOK
    <3> QED BY <1>a, <2>0, <3>1, <3>2
  <2>2. CASE ~(todo[c] # {} /\ can_transition(Min(todo[c]), "Queued"))
    <3>1. /\ ~owes(c)' /\ UNCHANGED <<records, file, opened, ended, raced, unwritten>>
          /\ \A d \in Callers \ {c} : call'[d] = call[d]
      BY <1>0, <1>8, <2>0, <2>2 DEF RecoverNext, Idle, TypeOK
    <3>2. quiet
      BY <2>0, <3>1 DEF quiet
    <3> QED BY <3>2
  <2> QED BY <2>1, <2>2
<1>9. ASSUME Tick PROVE K
  <2>1. quiet
    BY <1>9 DEF Tick, quiet
  <2> QED BY <2>1
<1>10. ASSUME NEW c \in Callers, DropCall(c)
       PROVE  K
  <2>1. quiet
    BY <1>0, <1>10 DEF DropCall, leave, quiet, TypeOK
  <2> QED BY <2>1
<1> HIDE DEF K
<1>11. K \/ (\E c \in Callers : WriteRecord(c) \/ WriteNewline(c) \/ WriteFails(c)) \/ Restart
  BY <1>1, <1>2, <1>3, <1>4, <1>5, <1>6, <1>7, <1>8, <1>9, <1>10 DEF Next, CallStep
<1> QED BY <1>11 DEF K

\* A valid transition does not leave a terminal status.
LEMMA TerminalStays ==
  ASSUME NEW s \in Statuses, NEW t, is_terminal(s), is_valid_transition(s, t)
  PROVE  t = s
BY DEF is_terminal, is_valid_transition, Transitions

\* Where two changes of a run do not overlap, its line is its status, before and
\* after it is written.
LEMMA FileNext == IInv /\ FileInv /\ [Next]_vars => FileInv'
<1> SUFFICES ASSUME IInv, FileInv, [Next]_vars, opened', NEW q \in Runs \ raced'
             PROVE  /\ \A c \in Callers : call'[c].step = "record" /\ call'[c].run = q => call'[c].line = records'[q]
                    /\ \A c, d \in Callers : call'[c].step = "record" /\ call'[d].step = "record"
                                               /\ call'[c].run = q /\ call'[d].run = q => c = d
                    /\ q \notin unwritten' /\ ~writing(q)' => file'.last[q] = records'[q]
  BY DEF FileInv
<1> DEFINE P == /\ \A c \in Callers : call'[c].step = "record" /\ call'[c].run = q => call'[c].line = records'[q]
                /\ \A c, d \in Callers : call'[c].step = "record" /\ call'[d].step = "record"
                                           /\ call'[c].run = q /\ call'[d].run = q => c = d
                /\ q \notin unwritten' /\ ~writing(q)' => file'.last[q] = records'[q]
<1>0. TypeOK /\ CallInv
  BY DEF IInv
<1> USE DEF TypeOK, writing, owes
<1>1. ASSUME quiet
      PROVE  P
  BY <1>0, <1>1 DEF FileInv, quiet
<1>2. ASSUME NEW c \in Callers, NEW r \in Runs, NEW to \in DurableAgentRunStatus,
             NEW next \in {"return", "leased", "recover"}, changes(c, r, to, next)
      PROVE  P
  <2>1. /\ opened /\ file' = file
        /\ records' = [records EXCEPT ![r] = to]
        /\ call' = [call EXCEPT ![c] = [step |-> "record", run |-> r, line |-> to, ret |-> next]]
        /\ raced' = raced \cup {q1 \in {r} : writing(q1)} /\ unwritten' = unwritten
    BY <1>2 DEF changes, transition, then_append
  <2>2. q \notin raced /\ (r = q => ~writing(q))
    BY <2>1
  <2>3. CASE r = q
    BY <1>0, <2>1, <2>2, <2>3
  <2>4. CASE r # q
    <3>1. ~owes(c) /\ records'[q] = records[q]
      BY <1>0, <1>2, <2>1, <2>4 DEF changes
    <3> QED BY <1>0, <2>1, <2>2, <2>4, <3>1 DEF FileInv
  <2> QED BY <2>3, <2>4
<1>3. ASSUME NEW c \in Callers, WriteRecord(c)
      PROVE  P
  <2>1. /\ call[c].step = "record" /\ call[c].run \in Runs /\ opened
        /\ call'[c].step # "record" /\ \A d \in Callers \ {c} : call'[d] = call[d]
        /\ UNCHANGED <<records, raced>> /\ unwritten' = unwritten \ {call[c].run}
        /\ file'.last = [file.last EXCEPT ![call[c].run] = call[c].line]
    BY <1>0, <1>3 DEF WriteRecord, write_record, CallInv, history, Idle
  <2>2. q \notin raced /\ file.last \in [Runs -> DurableAgentRunStatus \cup {Absent}]
    BY <1>0, <2>1 DEF FileType
  <2>3. CASE call[c].run = q
    <3>1. call[c].line = records[q] /\ \A d \in Callers \ {c} : ~(call[d].step = "record" /\ call[d].run = q)
      BY <2>1, <2>2, <2>3 DEF FileInv
    <3> QED BY <1>0, <2>1, <2>2, <2>3, <3>1
  <2>4. CASE call[c].run # q
    <3>1. file'.last[q] = file.last[q]
      BY <2>1, <2>2, <2>4
    <3>2. \A d \in Callers : call'[d].step = "record" /\ call'[d].run = q
                             <=> call[d].step = "record" /\ call[d].run = q
      BY <2>1, <2>4
    <3>3. \A d \in Callers : call'[d].step = "record" => call'[d].line = call[d].line
      BY <2>1
    <3>4. q \notin unwritten' => q \notin unwritten
      BY <2>1, <2>4
    <3> QED BY <2>1, <2>2, <3>1, <3>2, <3>3, <3>4 DEF FileInv
  <2> QED BY <2>3, <2>4
<1>4. ASSUME NEW c \in Callers, WriteNewline(c)
      PROVE  P
  <2>1. /\ call[c].step = "newline" /\ opened
        /\ call'[c].step # "record" /\ \A d \in Callers \ {c} : call'[d] = call[d]
        /\ UNCHANGED <<records, raced, unwritten>>
        /\ file'.last = file.last
    BY <1>0, <1>4 DEF WriteNewline, write_newline, Idle, FileType
  <2> QED BY <2>1 DEF FileInv
<1>6. ASSUME NEW c \in Callers, WriteFails(c)
      PROVE  P
  <2>1. /\ call[c].step \in {"record", "newline"} /\ opened
        /\ call'[c].step # "record" /\ \A d \in Callers \ {c} : call'[d] = call[d]
        /\ UNCHANGED <<records, raced>>
        /\ unwritten' = IF call[c].step = "record" THEN unwritten \cup {call[c].run} ELSE unwritten
    BY <1>0, <1>6 DEF WriteFails, leave, Idle, CallInv
  <2>2. file'.last = file.last
    BY <1>0, <1>6 DEF WriteFails, write_torn, FileType
  <2>3. q \notin unwritten' => q \notin unwritten /\ (writing(q) => writing(q)')
    BY <2>1
  <2> QED BY <2>1, <2>2, <2>3 DEF FileInv
<1>5. ASSUME Restart
      PROVE  P
  <2>1. records' = file'.last
    BY <1>5 DEF Restart
  <2>2. \A c \in Callers : call'[c].step = "idle"
    BY <1>5 DEF Restart, Idle
  <2> QED BY <2>1, <2>2
<1> HIDE DEF P
<1>7. P
  BY <1>1, <1>2, <1>3, <1>4, <1>5, <1>6, Kinds
<1> QED BY <1>7 DEF P

\* What is terminal in the map stays, and the line of a run that ended is
\* terminal in the file, where no other call raced on the run.
LEMMA EndNext == IInv /\ FileInv /\ EndInv /\ [Next]_vars => EndInv'
<1> SUFFICES ASSUME IInv, FileInv, EndInv, [Next]_vars, opened'
             PROVE  EndInv'
  BY DEF EndInv
<1>0. TypeOK /\ CallInv
  BY DEF IInv
<1>t. ASSUME NEW r \in Runs, NEW to, is_terminal(records[r]), can_transition(r, to)
      PROVE  to = records[r]
  BY <1>0, <1>t, TerminalStays DEF can_transition, TypeOK, Statuses
<1>a. ~is_terminal(Absent)
  BY DEF is_terminal, Absent
<1>1. ASSUME quiet
      PROVE  EndInv'
  BY <1>0, <1>1 DEF EndInv, quiet, owes
<1>2. ASSUME NEW c \in Callers, NEW r \in Runs, NEW to \in DurableAgentRunStatus,
             NEW next \in {"return", "leased", "recover"}, changes(c, r, to, next)
      PROVE  EndInv'
  <2>1. /\ opened /\ file' = file /\ ended' = ended /\ raced \subseteq raced'
        /\ records' = [records EXCEPT ![r] = to]
        /\ call' = [call EXCEPT ![c] = [step |-> "record", run |-> r, line |-> to, ret |-> next]]
    BY <1>2 DEF changes, transition, then_append
  <2>2. \A q \in Runs : is_terminal(records[q]) => records'[q] = records[q]
    BY <1>0, <1>2, <1>t, <1>a, <2>1 DEF changes, TypeOK
  <2>3. \A d \in Callers : owes(d)' /\ is_terminal(call'[d].line) => records'[call'[d].run] = call'[d].line
    <3> SUFFICES ASSUME NEW d \in Callers, owes(d)', is_terminal(call'[d].line)
                 PROVE  records'[call'[d].run] = call'[d].line
      OBVIOUS
    <3>1. CASE d = c
      BY <1>0, <2>1, <3>1 DEF TypeOK
    <3>2. CASE d # c
      <4>1. call'[d] = call[d] /\ owes(d) /\ is_terminal(call[d].line) /\ call[d].run \in Runs
        BY <1>0, <2>1, <3>2 DEF TypeOK, owes, CallInv
      <4>2. records[call[d].run] = call[d].line
        BY <2>1, <4>1 DEF EndInv
      <4> QED BY <2>2, <4>1, <4>2
    <3> QED BY <3>1, <3>2
  <2>4. \A d \in Callers : call'[d].step = "newline" => call'[d] = call[d]
    BY <1>0, <2>1 DEF TypeOK
  <2>5. \A q \in ended : q \in Runs /\ is_terminal(records[q])
    BY <1>0, <2>1 DEF EndInv, TypeOK
  <2> QED BY <2>1, <2>2, <2>3, <2>4, <2>5 DEF EndInv
<1>3. ASSUME NEW c \in Callers, WriteRecord(c)
      PROVE  EndInv'
  <2>1. /\ call[c].step = "record" /\ call[c].run \in Runs /\ opened
        /\ call' = [call EXCEPT ![c] = IF @.ret = "gone" THEN Idle ELSE [@ EXCEPT !.step = "newline"]]
        /\ UNCHANGED <<records, raced, ended>>
        /\ file'.last = [file.last EXCEPT ![call[c].run] = call[c].line]
    BY <1>0, <1>3 DEF WriteRecord, write_record, CallInv, history, owes
  <2>2. file.last \in [Runs -> DurableAgentRunStatus \cup {Absent}] /\ ended \subseteq Runs
    BY <1>0 DEF TypeOK, FileType
  <2>3. \A d \in Callers : /\ owes(d)' => /\ owes(d) /\ call'[d].run = call[d].run
                                        /\ call'[d].line = call[d].line
                           /\ call'[d].step = "newline" => call[d].step = "newline" \/ d = c
                           /\ owes(d) => call[d].run \in Runs
    BY <1>0, <2>1 DEF TypeOK, owes, CallInv, Idle
  <2>4. call[c].run \notin raced => call[c].line = records[call[c].run]
    BY <2>1 DEF FileInv
  <2>5. \A d \in Callers : owes(d) /\ is_terminal(call[d].line) => records[call[d].run] = call[d].line
    BY <2>1 DEF EndInv
  <2>6. ASSUME NEW d \in Callers, call'[d].step = "newline", is_terminal(call'[d].line), call'[d].run \notin raced'
        PROVE  file'.last[call'[d].run] = call'[d].line
    <3>0. owes(d)' /\ owes(d) /\ call[d].run \in Runs
      BY <2>1, <2>3, <2>6 DEF owes
    <3>1. CASE call[d].run = call[c].run
      <4>1. call[c].line = call[d].line
        BY <2>1, <2>3, <2>4, <2>5, <2>6, <3>0, <3>1
      <4> QED BY <2>1, <2>2, <2>3, <3>0, <3>1, <4>1
    <3>2. CASE call[d].run # call[c].run
      <4>1. call[d].step = "newline"
        BY <2>3, <2>6, <3>2
      <4>2. file.last[call[d].run] = call[d].line
        BY <2>1, <2>3, <2>6, <4>1 DEF EndInv
      <4> QED BY <2>1, <2>2, <2>3, <3>0, <3>2, <4>2
    <3> QED BY <3>1, <3>2
  <2>7. ASSUME NEW q \in ended \ raced
        PROVE  file'.last[q] = records[q]
    <3>1. file.last[q] = records[q] /\ q \in Runs
      BY <2>1, <2>2 DEF EndInv
    <3>2. CASE q = call[c].run
      BY <2>1, <2>2, <2>4, <3>1, <3>2
    <3>3. CASE q # call[c].run
      BY <2>1, <2>2, <3>1, <3>3
    <3> QED BY <3>2, <3>3
  <2> QED BY <2>1, <2>3, <2>5, <2>6, <2>7 DEF EndInv
<1>4. ASSUME NEW c \in Callers, WriteNewline(c)
      PROVE  EndInv'
  <2>1. /\ call[c].step = "newline" /\ call[c].run \in Runs /\ opened
        /\ ~owes(c)' /\ call'[c].step # "newline" /\ \A d \in Callers \ {c} : call'[d] = call[d]
        /\ UNCHANGED <<records, raced>>
        /\ file'.last = file.last
        /\ ended' \subseteq ended \cup {q \in {call[c].run} : is_terminal(call[c].line)}
    BY <1>0, <1>4 DEF WriteNewline, write_newline, Idle, FileType, TypeOK, CallInv, owes
  <2>2. is_terminal(call[c].line) => /\ records[call[c].run] = call[c].line
                                     /\ call[c].run \notin raced => file.last[call[c].run] = call[c].line
    BY <2>1 DEF EndInv, owes
  <2>3. \A q \in ended' : is_terminal(records[q])
    BY <2>1, <2>2 DEF EndInv
  <2>4. \A q \in ended' \ raced : file.last[q] = records[q]
    BY <2>1, <2>2 DEF EndInv
  <2>5. \A d \in Callers : owes(d)' => d # c /\ call'[d] = call[d] /\ owes(d)
    BY <2>1 DEF owes
  <2> QED BY <2>1, <2>3, <2>4, <2>5 DEF EndInv, owes
<1>6. ASSUME NEW c \in Callers, WriteFails(c)
      PROVE  EndInv'
  <2>1. /\ opened /\ ~owes(c)' /\ \A d \in Callers \ {c} : call'[d] = call[d]
        /\ UNCHANGED <<records, raced, ended>>
    BY <1>0, <1>6 DEF WriteFails, leave, Idle, CallInv, TypeOK, owes
  <2>2. file'.last = file.last
    BY <1>0, <1>6 DEF WriteFails, write_torn, TypeOK, FileType
  <2>3. \A d \in Callers : owes(d)' => call'[d] = call[d] /\ owes(d)
    BY <2>1 DEF owes
  <2> QED BY <2>1, <2>2, <2>3 DEF EndInv, owes
<1>5. ASSUME Restart
      PROVE  EndInv'
  <2>1. records' = file'.last /\ ended' = ended \ raced /\ raced' = raced /\ opened
    BY <1>5 DEF Restart
  <2>2. \A c \in Callers : call'[c].step = "idle"
    BY <1>5 DEF Restart, Idle
  <2>3. file'.last = file.last
    <3>1. file' \in {file, write_torn(file)}
      BY <1>5 DEF Restart
    <3>2. write_torn(file).last = file.last
      BY <1>0 DEF write_torn, TypeOK, FileType
    <3> QED BY <3>1, <3>2
  <2>4. \A q \in ended \ raced : is_terminal(file.last[q])
    BY <2>1 DEF EndInv
  <2> QED BY <2>1, <2>2, <2>3, <2>4 DEF EndInv, owes
<1> QED BY <1>1, <1>2, <1>3, <1>4, <1>5, <1>6, Kinds

-----------------------------------------------------------------------------
\* The inductive invariant of the types and of the calls in progress.
THEOREM Invariant == Spec => []IInv
<1>1. Init => IInv
  BY InitInv
<1>2. IInv /\ [Next]_vars => IInv'
  BY TypeNext, CallNext DEF IInv
<1> QED BY <1>1, <1>2, PTL DEF Spec

\* The variables of the run queue keep their types, whatever crashes come.
THEOREM TypeCorrect == Spec => []TypeOK
<1>1. IInv => TypeOK
  BY DEF IInv
<1> QED BY <1>1, Invariant, PTL

\* lease() hands a run to one worker, for any number of workers, hosts and
\* recoverers, unless recover_expired_leases took the run away from one.
THEOREM LeasesExclude == Spec => []LeaseExclusive
<1>1. Init => LeaseInv
  BY InitInv
<1>2. IInv /\ LeaseInv /\ [Next]_vars => LeaseInv'
  BY LeaseNext
<1>3. IInv /\ LeaseInv => LeaseExclusive
  BY DEF IInv, TypeOK, LeaseInv, LeaseExclusive, has
<1> QED BY <1>1, <1>2, <1>3, Invariant, PTL DEF Spec

\* The file says what the map says of every run whose changes did not overlap and
\* whose latest line could be written, between any two crashes, whatever other
\* appends failed and whatever calls were dropped.
THEOREM FileFaithful == Spec => []FileHoldsStore
<1>1. Init => FileInv
  BY InitInv
<1>2. IInv /\ FileInv /\ [Next]_vars => FileInv'
  BY FileNext
<1>3. FileInv => FileHoldsStore
  BY DEF FileInv, FileHoldsStore
<1> QED BY <1>1, <1>2, <1>3, Invariant, PTL DEF Spec

\* A run that a call ended for good, and said so, stays ended across stale
\* acks, nacks, leases, recoveries, failing appends, dropped calls and crashes.
THEOREM EndIsFinal == Spec => []EndedStaysEnded
<1>1. Init => FileInv /\ EndInv
  BY InitInv
<1>2. IInv /\ FileInv /\ EndInv /\ [Next]_vars => FileInv' /\ EndInv'
  BY FileNext, EndNext
<1>3. EndInv => EndedStaysEnded
  BY DEF EndInv, EndedStaysEnded
<1> QED BY <1>1, <1>2, <1>3, Invariant, PTL DEF Spec

-----------------------------------------------------------------------------
(* AuditLog.                                                               *)

\* The modules count the elements of a set alike.
LEMMA SameCount == \A S : Audit!Cardinality(S) = Cardinality(S)
BY DEF Cardinality, Audit!Cardinality

\* A sequence of numbers that grow is the set of them in the order of their times.
LEMMA InOrder ==
  ASSUME NEW q \in Seq(Nat), \A i, j \in 1 .. Len(q) : i < j => q[i] < q[j]
  PROVE  Audit!by_time(Audit!ToSet(q)) = q
<1> DEFINE S == Audit!ToSet(q)
           n == Len(q)
           First(k) == {q[j] : j \in 1 .. k}
<1>1. n \in Nat /\ DOMAIN q = 1 .. n /\ \A i \in 1 .. n : q[i] \in Nat
  OBVIOUS
<1>2. S = First(n)
  BY <1>1 DEF Audit!ToSet
<1>3. ASSUME NEW i \in 1 .. n, NEW j \in 1 .. n, q[i] = q[j] PROVE i = j
  <2>1. ~(i < j) /\ ~(j < i)
    BY <1>1, <1>3
  <2> QED BY <2>1
<1>4. ASSUME NEW k \in 0 .. n PROVE Cardinality(First(k)) = k
  <2> DEFINE f == [j \in 1 .. k |-> q[j]]
  <2>1. k \in Nat /\ \A j \in 1 .. k : j \in 1 .. n
    BY <1>1
  <2>2. f \in Bijection(1 .. k, First(k))
    <3>1. f \in [1 .. k -> First(k)]
      OBVIOUS
    <3>2. \A i, j \in 1 .. k : f[i] = f[j] => i = j
      BY <1>3, <2>1
    <3>3. \A x \in First(k) : \E j \in 1 .. k : f[j] = x
      OBVIOUS
    <3> HIDE DEF f, First
    <3> QED BY <3>1, <3>2, <3>3 DEF Bijection, Injection, IsInjective, Surjection
  <2>3. IsFiniteSet(1 .. k) /\ Cardinality(1 .. k) = k
    BY <2>1, FS_Interval
  <2> HIDE DEF f, First
  <2>4. ExistsBijection(1 .. k, First(k))
    BY <2>2 DEF ExistsBijection
  <2> QED BY <2>3, <2>4, FS_Bijection
<1>5. ASSUME NEW k \in 1 .. n PROVE {f \in S : f <= q[k]} = First(k)
  <2>1. \A j \in 1 .. n : q[j] <= q[k] <=> j <= k
    <3> TAKE j \in 1 .. n
    <3>1. q[j] \in Nat /\ q[k] \in Nat
      BY <1>1
    <3>2. CASE j < k
      BY <1>1, <3>1, <3>2
    <3>3. CASE j = k
      BY <3>1, <3>3
    <3>4. CASE k < j
      <4>1. q[k] < q[j]
        BY <1>1, <3>4
      <4> QED BY <3>1, <3>4, <4>1
    <3> QED BY <3>2, <3>3, <3>4
  <2>2. \A j \in 1 .. k : j \in 1 .. n /\ j <= k
    BY <1>1
  <2>3. \A j \in 1 .. n : j <= k => j \in 1 .. k
    BY <1>1
  <2> HIDE DEF S
  <2> QED BY <1>2, <2>1, <2>2, <2>3
<1> HIDE DEF S, First
<1>6. \A k \in 1 .. n : Cardinality({f \in S : f <= q[k]}) = k
  <2> TAKE k \in 1 .. n
  <2>1. k \in 0 .. n
    BY <1>1
  <2>2. Cardinality(First(k)) = k
    BY <1>4, <2>1
  <2> QED BY <1>5, <2>2
<1>7. Cardinality(S) = n
  <2>1. n \in 0 .. n
    BY <1>1
  <2>2. Cardinality(First(n)) = n
    BY <1>4, <2>1
  <2> QED BY <1>2, <2>2
<1>8. ASSUME NEW k \in 1 .. n PROVE (CHOOSE e \in S : Cardinality({f \in S : f <= e}) = k) = q[k]
  <2>1. q[k] \in S
    BY <1>2 DEF First
  <2>2. ASSUME NEW e \in S, Cardinality({f \in S : f <= e}) = k PROVE e = q[k]
    <3>1. PICK j \in 1 .. n : e = q[j]
      BY <1>2 DEF First
    <3> QED BY <1>6, <2>2, <3>1
  <2> QED BY <1>6, <2>1, <2>2
<1>9. Audit!by_time(S) = [k \in 1 .. n |-> CHOOSE e \in S : Cardinality({f \in S : f <= e}) = k]
  <2>1. Audit!by_time(S) = [k \in 1 .. Audit!Cardinality(S) |-> CHOOSE e \in S : Audit!Cardinality({f \in S : f <= e}) = k]
    BY DEF Audit!by_time
  <2>2. \A e : Audit!Cardinality({f \in S : f <= e}) = Cardinality({f \in S : f <= e})
    BY SameCount
  <2>3. Audit!Cardinality(S) = n
    BY <1>7, SameCount
  <2> DEFINE at(k) == CHOOSE e \in S : Audit!Cardinality({f \in S : f <= e}) = k
             as(k) == CHOOSE e \in S : Cardinality({f \in S : f <= e}) = k
  <2>4. \A k : at(k) = as(k)
    <3> TAKE k
    <3>1. \A e : Audit!Cardinality({f \in S : f <= e}) = k <=> Cardinality({f \in S : f <= e}) = k
      BY <2>2
    <3> QED BY <3>1, Zenon
  <2>5. Audit!by_time(S) = [k \in 1 .. n |-> at(k)]
    BY <2>1, <2>3
  <2> HIDE DEF at, as
  <2>6. [k \in 1 .. n |-> at(k)] = [k \in 1 .. n |-> as(k)]
    BY <2>4
  <2> QED BY <2>5, <2>6 DEF as
<1>10. Audit!by_time(S) = [k \in 1 .. n |-> q[k]]
  BY <1>8, <1>9
<1> QED BY <1>1, <1>10 DEF S

\* A line of the log, and a task that records an event.
LogLine == [kind : {"envelope", "garbage"}, event : Nat, previous : Seq(Nat), chain : Seq(Nat), cut : BOOLEAN]
RecordCall == [at : {"idle", "append", "mirror", "sent"}, event : Nat, head : Seq(Nat), batch : Seq(Nat)]

\* The log, the tasks and the mirror are of the types of the code; only a task that sends has a batch.
AuditTypes ==
  /\ lines \in Seq(LogLine)
  /\ recording \in [Tasks -> RecordCall]
  /\ pending \in Seq(Nat) /\ sent \in Seq(Seq(Nat)) /\ failures \in SUBSET Nat
  /\ events \in [next : Nat, acked : SUBSET Nat, dropped : SUBSET Nat, crossed : BOOLEAN, crashes : Nat]
  /\ \A w \in Tasks : recording[w].at # "sent" => recording[w].batch = <<>>

\* Where the mirror may have an event.
Covered == Audit!ToSet(pending) \cup Audit!batched \cup failures \cup (UNION {Audit!ToSet(recording[w].batch) : w \in Tasks})
             \cup events.dropped

\* Without a crash, what was mirrored is somewhere.
CoverInv ==
  events.crashes = 0 =>
    /\ events.acked \subseteq Covered
    /\ \A w \in Tasks : recording[w].at = "sent" => recording[w].event \in Covered

\* The events in the log.
Logged == {lines[i].event : i \in 1 .. Len(lines)}

\* As long as no two records overlapped and every line is an envelope, the log is one chain
\* of growing events, whoever appends has its head, and a reader is at some place of it.
ChainInv ==
  ~events.crossed /\ Audit!readable =>
    /\ \A v, w \in Tasks : recording[v].at = "append" /\ recording[w].at = "append" => v = w
    /\ \A w \in Tasks : recording[w].at = "append" =>
         /\ recording[w].head = Audit!previous_chain_hash
         /\ recording[w].event <= events.next
         /\ \A i \in 1 .. Len(lines) : lines[i].event < recording[w].event
    /\ \A w \in Tasks : recording[w].at \in {"mirror", "sent"} => recording[w].event \in Logged
    /\ events.acked \subseteq Logged
    /\ \A i \in 1 .. Len(lines) : lines[i].event <= events.next
    /\ \A i \in 1 .. Len(lines) : lines[i].previous = IF i = 1 THEN <<>> ELSE lines[i - 1].chain
    /\ \A i, j \in 1 .. Len(lines) : i < j => lines[i].event < lines[j].event
    /\ reader.got \in Seq(Nat) /\ Len(reader.got) <= Len(lines)
    /\ \A i \in 1 .. Len(reader.got) : reader.got[i] = lines[i].event

\* The invariant of the audit log.
AuditInv == AuditTypes /\ CoverInv /\ ChainInv

\* Nothing is recorded at first.
LEMMA AuditStarts == Audit!Init => AuditInv
<1> SUFFICES ASSUME Audit!Init PROVE AuditInv
  OBVIOUS
<1>1. /\ lines = <<>> /\ pending = <<>> /\ sent = <<>> /\ failures = {}
      /\ \A w \in Tasks : recording[w] = [at |-> "idle", event |-> 0, head |-> <<>>, batch |-> <<>>]
      /\ reader.got = <<>> /\ events = [next |-> 0, acked |-> {}, dropped |-> {}, crossed |-> FALSE, crashes |-> 0]
  BY DEF Audit!Init, Audit!Idle, Audit!Reader
<1>2. recording = [w \in Tasks |-> Audit!Idle] /\ Audit!Idle \in RecordCall
  BY DEF Audit!Init, Audit!Idle, RecordCall
<1>3. AuditTypes
  <2>1. recording \in [Tasks -> RecordCall]
    BY <1>2
  <2> QED BY <1>1, <2>1 DEF AuditTypes
<1>4. CoverInv
  BY <1>1 DEF CoverInv
<1>5. ChainInv
  <2>1. Len(lines) = 0 /\ Len(reader.got) = 0 /\ reader.got \in Seq(Nat)
    BY <1>1
  <2> QED BY <1>1, <2>1 DEF ChainInv
<1> QED BY <1>3, <1>4, <1>5 DEF AuditInv

\* What a record call does with a task and the counter.
LEMMA RecordStep == ASSUME AuditInv, NEW w \in Tasks, Audit!record(w) PROVE AuditInv'
<1> DEFINE head == Audit!previous_chain_hash
           n == events.next
           crosses == events.crossed \/ \E v \in Tasks : recording[v].at = "append"
<1>0. AuditTypes /\ CoverInv /\ ChainInv
  BY DEF AuditInv
<1>1. /\ recording[w].at = "idle" /\ recording[w].batch = <<>> /\ UNCHANGED <<lines, pending, sent, failures, reader>>
      /\ recording' = [recording EXCEPT ![w] = [at |-> "append", event |-> n + 1, head |-> head, batch |-> <<>>]]
      /\ events' = [events EXCEPT !.next = n + 1, !.crossed = crosses]
  <2>1. /\ recording[w] = Audit!Idle /\ UNCHANGED <<lines, pending, sent, failures, reader>>
        /\ recording' = [recording EXCEPT ![w] = [at |-> "append", event |-> n + 1, head |-> head, batch |-> <<>>]]
    BY DEF Audit!record
  <2>2. events' = [events EXCEPT !.next = n + 1, !.crossed = crosses]
    BY Zenon DEF Audit!record
  <2>3. recording[w].at = "idle" /\ recording[w].batch = <<>>
    BY <2>1 DEF Audit!Idle
  <2> HIDE DEF n, head, crosses
  <2> QED BY <2>1, <2>2, <2>3
<1>2. head \in Seq(Nat) /\ n \in Nat /\ crosses \in BOOLEAN
  <2>1. lines # <<>> => lines[Len(lines)] \in LogLine
    BY <1>0 DEF AuditTypes
  <2> QED BY <1>0, <2>1 DEF AuditTypes, Audit!previous_chain_hash, LogLine
<1>3. Audit!previous_chain_hash' = head
  BY <1>1 DEF Audit!previous_chain_hash
<1> HIDE DEF head, crosses
<1>4. /\ events' \in [next : Nat, acked : SUBSET Nat, dropped : SUBSET Nat, crossed : BOOLEAN, crashes : Nat]
      /\ events'.next = n + 1 /\ events'.acked = events.acked /\ events'.crossed = crosses
      /\ events'.crashes = events.crashes /\ events'.dropped = events.dropped
  <2>1. events \in [next : Nat, acked : SUBSET Nat, dropped : SUBSET Nat, crossed : BOOLEAN, crashes : Nat] /\ n + 1 \in Nat
    BY <1>0, <1>2 DEF AuditTypes
  <2> HIDE DEF n
  <2> QED BY <1>1, <1>2, <2>1
<1>5. recording' \in [Tasks -> RecordCall]
  <2>1. [at |-> "append", event |-> n + 1, head |-> head, batch |-> <<>>] \in RecordCall
    BY <1>2 DEF RecordCall
  <2> QED BY <1>0, <1>1, <2>1 DEF AuditTypes
<1>6. /\ recording'[w] = [at |-> "append", event |-> n + 1, head |-> head, batch |-> <<>>]
      /\ \A v \in Tasks : v # w => recording'[v] = recording[v]
  BY <1>0, <1>1 DEF AuditTypes
<1>7. AuditTypes'
  BY <1>0, <1>1, <1>4, <1>5, <1>6 DEF AuditTypes
<1>8. CoverInv'
  <2>1. \A v \in Tasks : recording'[v].batch = recording[v].batch
    BY <1>1, <1>6
  <2>2. Covered' = Covered
    <3>1. Audit!batched' = Audit!batched
      BY <1>1 DEF Audit!batched, Audit!ToSet
    <3> QED BY <1>1, <1>4, <2>1, <3>1 DEF Covered, Audit!ToSet
  <2> QED BY <1>0, <1>4, <1>6, <2>2 DEF CoverInv
<1>9. ChainInv'
  <2> SUFFICES ASSUME ~events'.crossed, Audit!readable' PROVE ChainInv'
    BY DEF ChainInv
  <2>1. ~events.crossed /\ Audit!readable /\ \A v \in Tasks : recording[v].at # "append"
    BY <1>1, <1>4 DEF Audit!readable, crosses
  <2>2. \A i \in 1 .. Len(lines) : lines[i].event \in Nat /\ lines[i].event <= n
    <3>1. \A i \in 1 .. Len(lines) : lines[i] \in LogLine
      BY <1>0 DEF AuditTypes
    <3>2. \A i \in 1 .. Len(lines) : lines[i].event <= n
      BY <1>0, <2>1 DEF ChainInv
    <3> QED BY <3>1, <3>2 DEF LogLine
  <2>3. \A i \in 1 .. Len(lines) : lines[i].event < n + 1 /\ lines[i].event <= n + 1
    BY <1>2, <2>2
  <2>4. n + 1 <= n + 1
    BY <1>2
  <2>5. Logged' = Logged
    BY <1>1 DEF Logged
  <2> HIDE DEF n
  <2>6. \A v \in Tasks : recording'[v].at = "append" => v = w
    BY <1>6, <2>1
  <2>7. \A v \in Tasks : recording'[v].at = "append" =>
          /\ recording'[v].head = Audit!previous_chain_hash'
          /\ recording'[v].event <= events'.next
          /\ \A i \in 1 .. Len(lines') : lines'[i].event < recording'[v].event
    BY <1>1, <1>3, <1>4, <1>6, <2>3, <2>4, <2>6
  <2>8. \A v \in Tasks : recording'[v].at \in {"mirror", "sent"} => recording'[v].event \in Logged'
    BY <1>0, <1>6, <2>1, <2>5 DEF ChainInv
  <2>9. \A i \in 1 .. Len(lines') : lines'[i].event <= events'.next
    BY <1>1, <1>4, <2>3
  <2> QED BY <1>0, <1>1, <1>4, <2>1, <2>5, <2>6, <2>7, <2>8, <2>9 DEF ChainInv
<1> QED BY <1>7, <1>8, <1>9 DEF AuditInv

\* The line of an event, which an event recorded alone adds to the chain.
LEMMA LineStep == ASSUME AuditInv, NEW w \in Tasks, Audit!append(w) PROVE AuditInv'
<1> DEFINE e == recording[w].event
           h == recording[w].head
           line == [kind |-> "envelope", event |-> e, previous |-> h, chain |-> Append(h, e), cut |-> FALSE]
           mark == [kind |-> "garbage", event |-> 0, previous |-> <<>>, chain |-> <<>>, cut |-> FALSE]
           n == Len(lines)
           rest == [at |-> "idle", event |-> 0, head |-> <<>>, batch |-> <<>>]
<1>0. AuditTypes /\ CoverInv /\ ChainInv /\ recording[w] \in RecordCall
  BY DEF AuditInv, AuditTypes
<1>1. /\ recording[w].at = "append" /\ UNCHANGED <<pending, sent, failures, reader, events>>
      /\ \/ recording' = [recording EXCEPT ![w].at = "mirror"]
         \/ recording' = [recording EXCEPT ![w] = rest]
      /\ \/ n # 0 /\ lines' = [lines EXCEPT ![n] = mark]
         \/ lines' = Append(lines, line)
  <2>1. lines # <<>> => n # 0
    BY <1>0 DEF AuditTypes
  <2> QED BY <2>1 DEF Audit!append, Audit!garbage, Audit!envelope, Audit!Idle
<1>2. e \in Nat /\ h \in Seq(Nat) /\ line \in LogLine /\ mark \in LogLine /\ n \in Nat /\ line.event = e
      /\ mark.kind = "garbage" /\ line.previous = h
  BY <1>0 DEF AuditTypes, RecordCall, LogLine
<1>3. /\ recording' \in [Tasks -> RecordCall]
      /\ recording'[w].at \in {"mirror", "idle"} /\ (recording'[w].at = "mirror" => recording'[w].event = e)
      /\ recording'[w].batch = recording[w].batch /\ \A v \in Tasks : v # w => recording'[v] = recording[v]
  <2>1. recording[w].batch = <<>> /\ recording \in [Tasks -> RecordCall] /\ rest \in RecordCall
    BY <1>0, <1>1 DEF AuditTypes, RecordCall
  <2>2. CASE recording' = [recording EXCEPT ![w].at = "mirror"]
    BY <2>1, <2>2 DEF RecordCall
  <2>3. CASE recording' = [recording EXCEPT ![w] = rest]
    BY <2>1, <2>3
  <2> QED BY <1>1, <2>2, <2>3
<1> HIDE DEF line, mark
<1>4. lines' \in Seq(LogLine)
  <2>1. CASE n # 0 /\ lines' = [lines EXCEPT ![n] = mark]
    BY <1>0, <1>2, <2>1 DEF AuditTypes
  <2>2. CASE lines' = Append(lines, line)
    BY <1>0, <1>2, <2>2 DEF AuditTypes
  <2> QED BY <1>1, <2>1, <2>2
<1>5. AuditTypes'
  <2>1. \A v \in Tasks : recording'[v].at # "sent" => recording'[v].batch = <<>>
    BY <1>0, <1>1, <1>3 DEF AuditTypes
  <2> QED BY <1>0, <1>1, <1>3, <1>4, <2>1 DEF AuditTypes
<1>6. CoverInv'
  <2>1. \A v \in Tasks : recording'[v].batch = recording[v].batch
    BY <1>3
  <2>2. Covered' = Covered
    <3>1. Audit!batched' = Audit!batched
      BY <1>1 DEF Audit!batched, Audit!ToSet
    <3> QED BY <1>1, <2>1, <3>1 DEF Covered, Audit!ToSet
  <2> QED BY <1>0, <1>1, <1>3, <2>2 DEF CoverInv
<1>7. ChainInv'
  <2> SUFFICES ASSUME ~events'.crossed, Audit!readable' PROVE ChainInv'
    BY DEF ChainInv
  <2>1. lines' = Append(lines, line)
    <3>1. SUFFICES ASSUME n # 0, lines' = [lines EXCEPT ![n] = mark] PROVE FALSE
      BY <1>1
    <3>2. n \in 1 .. Len(lines') /\ lines'[n] = mark
      BY <1>0, <1>2, <3>1 DEF AuditTypes
    <3> QED BY <1>2, <3>2 DEF Audit!readable
  <2>2. /\ Len(lines') = n + 1 /\ lines'[n + 1] = line /\ \A i \in 1 .. n : lines'[i] = lines[i]
        /\ lines \in Seq(LogLine)
    BY <1>0, <1>2, <2>1 DEF AuditTypes
  <2>3. ~events.crossed /\ Audit!readable
    <3>1. \A i \in 1 .. n : i \in 1 .. Len(lines')
      BY <1>2, <2>2
    <3> QED BY <1>1, <2>2, <3>1 DEF Audit!readable
  <2>4. /\ \A v \in Tasks : recording[v].at = "append" => v = w
        /\ h = Audit!previous_chain_hash /\ e <= events.next /\ \A i \in 1 .. n : lines[i].event < e
        /\ \A v \in Tasks : recording[v].at \in {"mirror", "sent"} => recording[v].event \in Logged
        /\ events.acked \subseteq Logged
        /\ \A i \in 1 .. n : lines[i].event <= events.next
        /\ \A i \in 1 .. n : lines[i].previous = IF i = 1 THEN <<>> ELSE lines[i - 1].chain
        /\ \A i, j \in 1 .. n : i < j => lines[i].event < lines[j].event
        /\ reader.got \in Seq(Nat) /\ Len(reader.got) <= n
        /\ \A i \in 1 .. Len(reader.got) : reader.got[i] = lines[i].event
    BY <1>0, <1>1, <2>3 DEF ChainInv
  <2> HIDE DEF n, e, h
  <2>5. \A i \in 1 .. (n + 1) : i \in 1 .. n \/ i = n + 1
    BY <1>2
  <2>6. Logged' = Logged \cup {e}
    <3>1. \A i \in 1 .. n : i \in 1 .. (n + 1)
      BY <1>2
    <3>2. n + 1 \in 1 .. (n + 1)
      BY <1>2
    <3> QED BY <1>2, <2>2, <2>5, <3>1, <3>2 DEF Logged, n
  <2>7. \A v \in Tasks : recording'[v].at # "append"
    BY <1>3, <2>4
  <2>8. \A v \in Tasks : recording'[v].at \in {"mirror", "sent"} => recording'[v].event \in Logged'
    BY <1>3, <2>4, <2>6
  <2>9. \A i \in 1 .. (n + 1) : lines'[i].event <= events.next
    BY <1>2, <2>2, <2>4, <2>5
  <2>10. \A i \in 1 .. (n + 1) : lines'[i].previous = IF i = 1 THEN <<>> ELSE lines'[i - 1].chain
    <3>1. ASSUME NEW i \in 1 .. n PROVE lines'[i].previous = IF i = 1 THEN <<>> ELSE lines'[i - 1].chain
      <4>1. i # 1 => i - 1 \in 1 .. n
        BY <1>2
      <4>2. lines'[i] = lines[i] /\ (i # 1 => lines'[i - 1] = lines[i - 1])
        BY <2>2, <4>1
      <4> QED BY <2>4, <4>2
    <3>2. h = IF n + 1 = 1 THEN <<>> ELSE lines'[(n + 1) - 1].chain
      <4>1. CASE n = 0
        <5>1. lines = <<>>
          BY <2>2, <4>1 DEF n
        <5> QED BY <2>4, <4>1, <5>1 DEF Audit!previous_chain_hash
      <4>2. CASE n # 0
        <5>1. lines # <<>> /\ n \in 1 .. n /\ (n + 1) - 1 = n /\ n + 1 # 1
          BY <1>2, <4>2 DEF n
        <5>2. Audit!previous_chain_hash = lines[n].chain
          BY <5>1 DEF Audit!previous_chain_hash, n
        <5> QED BY <2>2, <2>4, <5>1, <5>2
      <4> QED BY <4>1, <4>2
    <3> QED BY <1>2, <2>2, <2>5, <3>1, <3>2
  <2>11. \A i, j \in 1 .. (n + 1) : i < j => lines'[i].event < lines'[j].event
    <3> SUFFICES ASSUME NEW i \in 1 .. (n + 1), NEW j \in 1 .. (n + 1), i < j PROVE lines'[i].event < lines'[j].event
      OBVIOUS
    <3>1. i \in 1 .. n
      BY <1>2
    <3> QED BY <1>2, <2>2, <2>4, <2>5, <3>1
  <2>12. Len(reader.got) <= n + 1 /\ \A i \in 1 .. Len(reader.got) : reader.got[i] = lines'[i].event
    <3>1. Len(reader.got) \in Nat
      BY <2>4
    <3>2. Len(reader.got) <= n + 1
      BY <1>2, <2>4, <3>1
    <3>3. ASSUME NEW i \in 1 .. Len(reader.got) PROVE reader.got[i] = lines'[i].event
      <4>1. i \in 1 .. n
        BY <1>2, <2>4, <3>1
      <4>2. lines'[i] = lines[i]
        BY <2>2, <4>1
      <4> QED BY <2>4, <4>2
    <3> QED BY <3>2, <3>3
  <2>13. \A i \in 1 .. Len(lines') : i \in 1 .. (n + 1)
    BY <2>2
  <2> QED BY <1>1, <2>2, <2>4, <2>6, <2>7, <2>8, <2>9, <2>10, <2>11, <2>12 DEF ChainInv
<1> QED BY <1>5, <1>6, <1>7 DEF AuditInv

\* A step that leaves the log alone and adds no task that appends keeps the chain.
LEMMA ChainKept ==
  ASSUME ChainInv, UNCHANGED <<lines, reader>>, events'.crossed = events.crossed, events'.next = events.next,
         \A v \in Tasks : recording'[v].at = "append" => recording'[v] = recording[v],
         \A v \in Tasks : recording'[v].at \in {"mirror", "sent"} =>
            recording[v].at \in {"mirror", "sent"} /\ recording'[v].event = recording[v].event,
         ~events.crossed /\ Audit!readable => events'.acked \subseteq Logged
  PROVE  ChainInv'
<1> SUFFICES ASSUME ~events'.crossed, Audit!readable' PROVE ChainInv'
  BY DEF ChainInv
<1>1. ~events.crossed /\ Audit!readable
  BY DEF Audit!readable
<1>2. Logged' = Logged /\ Audit!previous_chain_hash' = Audit!previous_chain_hash
  BY DEF Logged, Audit!previous_chain_hash
<1>3. \A v \in Tasks : recording'[v].at = "append" =>
        /\ recording'[v].head = Audit!previous_chain_hash'
        /\ recording'[v].event <= events'.next
        /\ \A i \in 1 .. Len(lines') : lines'[i].event < recording'[v].event
  BY <1>1, <1>2 DEF ChainInv
<1>4. \A v, w \in Tasks : recording'[v].at = "append" /\ recording'[w].at = "append" => v = w
  BY <1>1 DEF ChainInv
<1>5. \A v \in Tasks : recording'[v].at \in {"mirror", "sent"} => recording'[v].event \in Logged'
  BY <1>1, <1>2 DEF ChainInv
<1> QED BY <1>1, <1>2, <1>3, <1>4, <1>5 DEF ChainInv

\* One more element.
LEMMA OneMore == ASSUME NEW T, NEW s \in Seq(T), NEW e \in T PROVE Audit!ToSet(Append(s, e)) = Audit!ToSet(s) \cup {e}
<1> DEFINE n == Len(s)
           q == Append(s, e)
<1>1. n \in Nat /\ DOMAIN s = 1 .. n /\ DOMAIN q = 1 .. (n + 1) /\ q[n + 1] = e /\ \A i \in 1 .. n : q[i] = s[i]
  OBVIOUS
<1> HIDE DEF q, n
<1>2. \A i \in 1 .. (n + 1) : i \in 1 .. n \/ i = n + 1
  BY <1>1
<1>3. (\A i \in 1 .. n : i \in 1 .. (n + 1)) /\ n + 1 \in 1 .. (n + 1)
  BY <1>1
<1>4. Audit!ToSet(q) = {q[i] : i \in 1 .. (n + 1)} /\ Audit!ToSet(s) = {s[i] : i \in 1 .. n}
  BY <1>1 DEF Audit!ToSet
<1>5. {q[i] : i \in 1 .. (n + 1)} = {s[i] : i \in 1 .. n} \cup {e}
  BY <1>1, <1>2, <1>3
<1> QED BY <1>4, <1>5 DEF q

\* What a write leaves that does not get through cannot be read.
LEMMA CutLine ==
  ASSUME lines \in Seq(LogLine), lines' \in Audit!cut_short
  PROVE  lines' \in Seq(LogLine) /\ (UNCHANGED lines \/ ~Audit!readable')
<1> DEFINE cut == [kind |-> "garbage", event |-> 0, previous |-> <<>>, chain |-> <<>>, cut |-> TRUE]
<1>1. UNCHANGED lines \/ lines' = Append(lines, cut)
  BY DEF Audit!cut_short, Audit!garbage
<1>2. cut \in LogLine /\ cut.kind = "garbage"
  BY DEF LogLine
<1> HIDE DEF cut
<1>3. CASE lines' = Append(lines, cut)
  <2>1. Len(lines') \in 1 .. Len(lines') /\ lines'[Len(lines')] = cut /\ lines' \in Seq(LogLine)
    BY <1>2, <1>3
  <2> QED BY <1>2, <2>1 DEF Audit!readable
<1> QED BY <1>1, <1>3

\* A local record fails.
LEMMA FailStep == ASSUME AuditInv, NEW w \in Tasks, Audit!fails(w) PROVE AuditInv'
<1> DEFINE rest == [at |-> "idle", event |-> 0, head |-> <<>>, batch |-> <<>>]
<1>0. AuditTypes /\ CoverInv /\ ChainInv
  BY DEF AuditInv
<1>1. /\ recording[w].at = "append" /\ UNCHANGED <<pending, sent, failures, reader, events>>
      /\ recording' = [recording EXCEPT ![w] = rest] /\ lines' \in Audit!cut_short
  BY DEF Audit!fails, Audit!Idle
<1>2. rest \in RecordCall /\ rest.at = "idle" /\ rest.batch = <<>>
  BY DEF RecordCall
<1> HIDE DEF rest
<1>3. /\ recording' \in [Tasks -> RecordCall] /\ recording'[w] = rest
      /\ \A v \in Tasks : v # w => recording'[v] = recording[v]
  BY <1>0, <1>1, <1>2 DEF AuditTypes
<1>4. lines' \in Seq(LogLine) /\ (UNCHANGED lines \/ ~Audit!readable')
  BY <1>0, <1>1, CutLine DEF AuditTypes
<1>5. AuditTypes'
  BY <1>0, <1>1, <1>2, <1>3, <1>4 DEF AuditTypes
<1>6. CoverInv'
  <2>1. \A v \in Tasks : recording'[v].batch = recording[v].batch
    BY <1>0, <1>1, <1>2, <1>3 DEF AuditTypes
  <2>2. Covered' = Covered
    <3>1. Audit!batched' = Audit!batched
      BY <1>1 DEF Audit!batched, Audit!ToSet
    <3> QED BY <1>1, <2>1, <3>1 DEF Covered, Audit!ToSet
  <2> QED BY <1>0, <1>1, <1>2, <1>3, <2>2 DEF CoverInv
<1>7. ChainInv'
  <2> SUFFICES ASSUME UNCHANGED lines PROVE ChainInv'
    BY <1>4 DEF ChainInv
  <2>1. \A v \in Tasks : recording'[v].at = "append" => recording'[v] = recording[v]
    BY <1>2, <1>3
  <2>2. \A v \in Tasks : recording'[v].at \in {"mirror", "sent"} =>
          recording[v].at \in {"mirror", "sent"} /\ recording'[v].event = recording[v].event
    BY <1>2, <1>3
  <2>3. ~events.crossed /\ Audit!readable => events'.acked \subseteq Logged
    BY <1>0, <1>1 DEF ChainInv
  <2> QED BY <1>0, <1>1, <2>1, <2>2, <2>3, ChainKept
<1> QED BY <1>5, <1>6, <1>7 DEF AuditInv

\* The event joins the pending ones, which are a batch when they are full.
LEMMA MirrorStep == ASSUME AuditInv, NEW w \in Tasks, Audit!mirror(w) PROVE AuditInv'
<1> DEFINE e == recording[w].event
           queue == Append(pending, e)
<1>0. AuditTypes /\ CoverInv /\ ChainInv /\ recording[w] \in RecordCall
  BY DEF AuditInv, AuditTypes
<1>1. /\ recording[w].at = "mirror" /\ UNCHANGED <<lines, sent, failures, reader, events>>
      /\ \/ /\ pending' = <<>>
            /\ recording' = [recording EXCEPT ![w].at = "sent", ![w].batch = queue]
         \/ /\ pending' = queue
            /\ recording' = [recording EXCEPT ![w].at = "sent", ![w].batch = <<>>]
  BY DEF Audit!mirror
<1>2. e \in Nat /\ pending \in Seq(Nat) /\ queue \in Seq(Nat) /\ <<>> \in Seq(Nat) /\ recording[w].batch = <<>>
  <2>1. e \in Nat
    BY <1>0 DEF RecordCall
  <2>2. pending \in Seq(Nat) /\ recording[w].batch = <<>>
    BY <1>0, <1>1 DEF AuditTypes
  <2> HIDE DEF e
  <2>3. Append(pending, e) \in Seq(Nat)
    BY <2>1, <2>2
  <2> QED BY <2>1, <2>2, <2>3
<1>3. Audit!ToSet(queue) = Audit!ToSet(pending) \cup {e}
  <2> HIDE DEF e
  <2> QED BY <1>2, OneMore
<1>4. Audit!ToSet(<<>>) = {}
  BY DEF Audit!ToSet
<1> HIDE DEF queue
<1>5. \A b \in Seq(Nat) :
        recording' = [recording EXCEPT ![w].at = "sent", ![w].batch = b] =>
          /\ recording' \in [Tasks -> RecordCall]
          /\ recording'[w].at = "sent" /\ recording'[w].event = e /\ recording'[w].batch = b
          /\ \A v \in Tasks : v # w => recording'[v] = recording[v]
  <2> TAKE b \in Seq(Nat)
  <2> HAVE recording' = [recording EXCEPT ![w].at = "sent", ![w].batch = b]
  <2> DEFINE old == recording[w]
             new == [recording[w] EXCEPT !.at = "sent", !.batch = b]
  <2>1. recording \in [Tasks -> RecordCall]
    BY <1>0 DEF AuditTypes
  <2>2. recording' = [recording EXCEPT ![w] = new]
    BY <2>1
  <2>3. new \in RecordCall /\ new.at = "sent" /\ new.event = e /\ new.batch = b
    BY <1>0 DEF RecordCall
  <2> HIDE DEF new
  <2> QED BY <2>1, <2>2, <2>3
<1>6. PICK b \in Seq(Nat) :
        /\ recording' \in [Tasks -> RecordCall]
        /\ recording'[w].at = "sent" /\ recording'[w].event = e /\ recording'[w].batch = b
        /\ \A v \in Tasks : v # w => recording'[v] = recording[v]
        /\ pending' \in Seq(Nat)
        /\ \/ pending' = <<>> /\ b = queue
           \/ pending' = queue /\ b = <<>>
  BY <1>1, <1>2, <1>5
<1>7. AuditTypes'
  <2>1. UNCHANGED <<lines, sent, failures, events>>
    BY <1>1
  <2>2. ASSUME NEW v \in Tasks, recording'[v].at # "sent" PROVE recording'[v].batch = <<>>
    <3>1. recording'[v] = recording[v]
      BY <1>6, <2>2
    <3> QED BY <1>0, <2>2, <3>1 DEF AuditTypes
  <2> QED BY <1>0, <1>6, <2>1, <2>2 DEF AuditTypes
<1>8. CoverInv'
  <2>1. Audit!batched' = Audit!batched
    BY <1>1 DEF Audit!batched, Audit!ToSet
  <2> DEFINE before(v) == Audit!ToSet(recording[v].batch)
             after(v) == Audit!ToSet(recording'[v].batch)
  <2>2. \A v \in Tasks : v # w => after(v) = before(v)
    BY <1>6
  <2>3. before(w) = {} /\ after(w) = Audit!ToSet(b)
    BY <1>2, <1>4, <1>6
  <2>4. Audit!ToSet(pending') \cup Audit!ToSet(b) = Audit!ToSet(pending) \cup {e}
    BY <1>3, <1>4, <1>6
  <2>5. Covered = Audit!ToSet(pending) \cup Audit!batched \cup failures \cup (UNION {before(v) : v \in Tasks}) \cup events.dropped
    BY DEF Covered
  <2>6. Covered' = Audit!ToSet(pending') \cup Audit!batched \cup failures \cup (UNION {after(v) : v \in Tasks}) \cup events.dropped
    <3>1. Covered' = Audit!ToSet(pending') \cup Audit!batched' \cup failures' \cup (UNION {after(v) : v \in Tasks}) \cup events'.dropped
      BY DEF Covered, Audit!ToSet
    <3> QED BY <1>1, <2>1, <3>1
  <2> HIDE DEF before, after
  <2>7. Covered \subseteq Covered' /\ e \in Covered'
    BY <2>2, <2>3, <2>4, <2>5, <2>6
  <2> QED BY <1>0, <1>1, <1>6, <2>7 DEF CoverInv
<1>9. ChainInv'
  <2>1. \A v \in Tasks : recording'[v].at = "append" => recording'[v] = recording[v]
    BY <1>6
  <2>2. \A v \in Tasks : recording'[v].at \in {"mirror", "sent"} =>
          recording[v].at \in {"mirror", "sent"} /\ recording'[v].event = recording[v].event
    BY <1>1, <1>6
  <2>3. ~events.crossed /\ Audit!readable => events'.acked \subseteq Logged
    BY <1>0, <1>1 DEF ChainInv
  <2> QED BY <1>0, <1>1, <2>1, <2>2, <2>3, ChainKept
<1> QED BY <1>7, <1>8, <1>9 DEF AuditInv

\* A batch is sent or becomes a delivery failure, and the record has succeeded.
LEMMA BatchStep == ASSUME AuditInv, NEW w \in Tasks, Audit!send_enterprise_batch(w) PROVE AuditInv'
<1> DEFINE e == recording[w].event
           b == recording[w].batch
           rest == [at |-> "idle", event |-> 0, head |-> <<>>, batch |-> <<>>]
           acks == events.acked \cup {e}
<1>0. AuditTypes /\ CoverInv /\ ChainInv /\ recording[w] \in RecordCall
  BY DEF AuditInv, AuditTypes
<1>1. /\ recording[w].at = "sent" /\ UNCHANGED <<lines, pending, reader>>
      /\ recording' = [recording EXCEPT ![w] = rest] /\ events' = [events EXCEPT !.acked = acks]
      /\ \/ b = <<>> /\ sent' = sent /\ UNCHANGED failures
         \/ sent' = Append(sent, b) /\ UNCHANGED failures
         \/ failures' = failures \cup Audit!ToSet(b) /\ UNCHANGED sent
  BY DEF Audit!send_enterprise_batch, Audit!Idle
<1>2. rest \in RecordCall /\ rest.at = "idle" /\ rest.batch = <<>>
  BY DEF RecordCall
<1>3. e \in Nat /\ b \in Seq(Nat) /\ acks \in SUBSET Nat
  BY <1>0 DEF AuditTypes, RecordCall
<1> HIDE DEF rest, acks
<1>4. /\ recording' \in [Tasks -> RecordCall] /\ recording'[w] = rest
      /\ \A v \in Tasks : v # w => recording'[v] = recording[v]
  BY <1>0, <1>1, <1>2 DEF AuditTypes
<1>5. /\ events' \in [next : Nat, acked : SUBSET Nat, dropped : SUBSET Nat, crossed : BOOLEAN, crashes : Nat]
      /\ events'.acked = acks /\ events'.next = events.next /\ events'.crossed = events.crossed
      /\ events'.crashes = events.crashes /\ events'.dropped = events.dropped
  BY <1>0, <1>1, <1>3 DEF AuditTypes
<1>6. Audit!ToSet(b) \in SUBSET Nat
  BY <1>3 DEF Audit!ToSet
<1>7. sent' \in Seq(Seq(Nat)) /\ failures' \in SUBSET Nat
  <2>0. sent \in Seq(Seq(Nat)) /\ failures \in SUBSET Nat
    BY <1>0 DEF AuditTypes
  <2> HIDE DEF b
  <2>1. Append(sent, b) \in Seq(Seq(Nat))
    BY <1>3, <2>0
  <2>2. failures \cup Audit!ToSet(b) \in SUBSET Nat
    BY <1>6, <2>0
  <2> QED BY <1>1, <2>0, <2>1, <2>2
<1>8. AuditTypes'
  BY <1>0, <1>1, <1>2, <1>4, <1>5, <1>7 DEF AuditTypes
<1>9. CoverInv'
  <2> DEFINE before(v) == Audit!ToSet(recording[v].batch)
             after(v) == Audit!ToSet(recording'[v].batch)
  <2>1. Audit!batched \cup failures \cup Audit!ToSet(b) \subseteq Audit!batched' \cup failures'
    <3>1. Audit!batched' = UNION {Audit!ToSet(sent'[i]) : i \in 1 .. Len(sent')}
      BY DEF Audit!batched, Audit!ToSet
    <3>2. Audit!batched = UNION {Audit!ToSet(sent[i]) : i \in 1 .. Len(sent)}
      BY DEF Audit!batched
    <3>3. CASE b = <<>> /\ sent' = sent /\ UNCHANGED failures
      <4>1. Audit!ToSet(<<>>) = {}
        BY DEF Audit!ToSet
      <4>2. Audit!ToSet(b) = {}
        BY <3>3, <4>1
      <4> QED BY <3>1, <3>2, <3>3, <4>2
    <3>4. CASE sent' = Append(sent, b) /\ UNCHANGED failures
      <4> DEFINE n == Len(sent)
      <4>1. /\ n \in Nat /\ Len(sent') = n + 1 /\ sent'[n + 1] = b /\ \A i \in 1 .. n : sent'[i] = sent[i]
        BY <1>0, <1>3, <3>4 DEF AuditTypes
      <4>2. (\A i \in 1 .. n : i \in 1 .. (n + 1)) /\ n + 1 \in 1 .. (n + 1)
        BY <4>1
      <4> HIDE DEF n, b
      <4>3. Audit!batched \subseteq Audit!batched'
        BY <3>1, <3>2, <4>1, <4>2 DEF n
      <4>4. Audit!ToSet(b) \subseteq Audit!batched'
        BY <3>1, <4>1, <4>2
      <4> QED BY <3>4, <4>3, <4>4
    <3>5. CASE failures' = failures \cup Audit!ToSet(b) /\ UNCHANGED sent
      BY <3>1, <3>2, <3>5
    <3> QED BY <1>1, <3>3, <3>4, <3>5
  <2>2. \A v \in Tasks : v # w => after(v) = before(v)
    BY <1>4
  <2>3. before(w) = Audit!ToSet(b)
    OBVIOUS
  <2>4. Covered = Audit!ToSet(pending) \cup Audit!batched \cup failures \cup (UNION {before(v) : v \in Tasks}) \cup events.dropped
    BY DEF Covered
  <2>5. Covered' = Audit!ToSet(pending) \cup Audit!batched' \cup failures' \cup (UNION {after(v) : v \in Tasks}) \cup events.dropped
    BY <1>1, <1>5 DEF Covered, Audit!ToSet
  <2> HIDE DEF before, after
  <2>6. Covered \subseteq Covered'
    BY <2>1, <2>2, <2>3, <2>4, <2>5
  <2>7. events.crashes = 0 => acks \subseteq Covered'
    BY <1>0, <1>1, <2>6 DEF CoverInv, acks
  <2> QED BY <1>0, <1>2, <1>4, <1>5, <2>6, <2>7 DEF CoverInv
<1>10. ChainInv'
  <2>1. \A v \in Tasks : recording'[v].at = "append" => recording'[v] = recording[v]
    BY <1>2, <1>4
  <2>2. \A v \in Tasks : recording'[v].at \in {"mirror", "sent"} =>
          recording[v].at \in {"mirror", "sent"} /\ recording'[v].event = recording[v].event
    BY <1>2, <1>4
  <2>3. ~events.crossed /\ Audit!readable => events'.acked \subseteq Logged
    BY <1>0, <1>1, <1>5 DEF ChainInv, acks
  <2> QED BY <1>0, <1>1, <1>5, <2>1, <2>2, <2>3, ChainKept
<1> QED BY <1>8, <1>9, <1>10 DEF AuditInv

\* A batch whose call is dropped is in a batch that was dropped.
LEMMA DropStep == ASSUME AuditInv, NEW w \in Tasks, Audit!send_dropped(w) PROVE AuditInv'
<1> DEFINE b == recording[w].batch
           rest == [at |-> "idle", event |-> 0, head |-> <<>>, batch |-> <<>>]
           gone == events.dropped \cup Audit!ToSet(b)
<1>0. AuditTypes /\ CoverInv /\ ChainInv /\ recording[w] \in RecordCall
  BY DEF AuditInv, AuditTypes
<1>1. /\ recording[w].at = "sent" /\ UNCHANGED <<lines, pending, failures, reader>>
      /\ recording' = [recording EXCEPT ![w] = rest] /\ events' = [events EXCEPT !.dropped = gone]
      /\ sent' = sent \/ sent' = Append(sent, b)
  BY DEF Audit!send_dropped, Audit!Idle
<1>2. rest \in RecordCall /\ rest.at = "idle" /\ rest.batch = <<>>
  BY DEF RecordCall
<1>3. b \in Seq(Nat) /\ Audit!ToSet(b) \in SUBSET Nat
  BY <1>0 DEF RecordCall, Audit!ToSet
<1>4. gone \in SUBSET Nat
  BY <1>0, <1>3 DEF AuditTypes
<1> HIDE DEF rest, gone
<1>5. /\ recording' \in [Tasks -> RecordCall] /\ recording'[w] = rest
      /\ \A v \in Tasks : v # w => recording'[v] = recording[v]
  BY <1>0, <1>1, <1>2 DEF AuditTypes
<1>6. /\ events' \in [next : Nat, acked : SUBSET Nat, dropped : SUBSET Nat, crossed : BOOLEAN, crashes : Nat]
      /\ events'.acked = events.acked /\ events'.next = events.next /\ events'.crossed = events.crossed
      /\ events'.crashes = events.crashes /\ events'.dropped = gone
  BY <1>0, <1>1, <1>4 DEF AuditTypes
<1>7. sent' \in Seq(Seq(Nat))
  <2>1. sent \in Seq(Seq(Nat))
    BY <1>0 DEF AuditTypes
  <2> HIDE DEF b
  <2>2. Append(sent, b) \in Seq(Seq(Nat))
    BY <1>3, <2>1
  <2> QED BY <1>1, <2>1, <2>2
<1>8. AuditTypes'
  BY <1>0, <1>1, <1>2, <1>5, <1>6, <1>7 DEF AuditTypes
<1>9. CoverInv'
  <2>1. Audit!batched \subseteq Audit!batched'
    <3>1. Audit!batched' = UNION {Audit!ToSet(sent'[i]) : i \in 1 .. Len(sent')}
      BY DEF Audit!batched, Audit!ToSet
    <3>2. Audit!batched = UNION {Audit!ToSet(sent[i]) : i \in 1 .. Len(sent)}
      BY DEF Audit!batched
    <3>3. CASE sent' = sent
      BY <3>1, <3>2, <3>3
    <3>4. CASE sent' = Append(sent, b)
      <4> DEFINE n == Len(sent)
      <4>1. n \in Nat /\ Len(sent') = n + 1 /\ \A i \in 1 .. n : sent'[i] = sent[i]
        BY <1>0, <1>3, <3>4 DEF AuditTypes
      <4>2. \A i \in 1 .. n : i \in 1 .. (n + 1)
        BY <4>1
      <4> HIDE DEF n, b
      <4> QED BY <3>1, <3>2, <4>1, <4>2 DEF n
    <3> QED BY <1>1, <3>3, <3>4
  <2> DEFINE before(v) == Audit!ToSet(recording[v].batch)
             after(v) == Audit!ToSet(recording'[v].batch)
  <2>2. \A v \in Tasks : v # w => after(v) = before(v)
    BY <1>5
  <2>3. before(w) \subseteq gone /\ events.dropped \subseteq gone
    BY DEF gone
  <2>4. Covered = Audit!ToSet(pending) \cup Audit!batched \cup failures \cup (UNION {before(v) : v \in Tasks})
                    \cup events.dropped
    BY DEF Covered
  <2>5. Covered' = Audit!ToSet(pending) \cup Audit!batched' \cup failures \cup (UNION {after(v) : v \in Tasks})
                     \cup gone
    BY <1>1, <1>6 DEF Covered, Audit!ToSet
  <2> HIDE DEF before, after
  <2>6. UNION {before(v) : v \in Tasks} \subseteq (UNION {after(v) : v \in Tasks}) \cup gone
    <3> SUFFICES ASSUME NEW v \in Tasks PROVE before(v) \subseteq (UNION {after(u) : u \in Tasks}) \cup gone
      OBVIOUS
    <3>1. CASE v = w
      BY <2>3, <3>1
    <3>2. CASE v # w
      <4>1. after(v) = before(v)
        BY <2>2, <3>2
      <4>2. after(v) \in {after(u) : u \in Tasks}
        OBVIOUS
      <4> QED BY <4>1, <4>2
    <3> QED BY <3>1, <3>2
  <2>7. Covered \subseteq Covered'
    BY <2>1, <2>3, <2>4, <2>5, <2>6
  <2> QED BY <1>0, <1>2, <1>5, <1>6, <2>7 DEF CoverInv
<1>10. ChainInv'
  <2>1. \A v \in Tasks : recording'[v].at = "append" => recording'[v] = recording[v]
    BY <1>2, <1>5
  <2>2. \A v \in Tasks : recording'[v].at \in {"mirror", "sent"} =>
          recording[v].at \in {"mirror", "sent"} /\ recording'[v].event = recording[v].event
    BY <1>2, <1>5
  <2>3. ~events.crossed /\ Audit!readable => events'.acked \subseteq Logged
    BY <1>0, <1>6 DEF ChainInv
  <2> QED BY <1>0, <1>1, <1>6, <2>1, <2>2, <2>3, ChainKept
<1> QED BY <1>8, <1>9, <1>10 DEF AuditInv

\* After a crash nothing is said of the mirror, and a line that was cut off cannot be read.
LEMMA CrashStep == ASSUME AuditInv, Audit!crash PROVE AuditInv'
<1> DEFINE rest == [at |-> "idle", event |-> 0, head |-> <<>>, batch |-> <<>>]
<1>0. AuditTypes /\ CoverInv /\ ChainInv
  BY DEF AuditInv
<1>1. /\ UNCHANGED lines \/ lines' \in Audit!cut_short
      /\ recording' = [w \in Tasks |-> rest] /\ pending' = <<>> /\ reader'.got = <<>>
      /\ events' = [events EXCEPT !.crashes = events.crashes + 1] /\ UNCHANGED <<sent, failures>>
  BY DEF Audit!crash, Audit!Idle, Audit!Reader
<1>2. rest \in RecordCall /\ rest.at = "idle" /\ rest.batch = <<>>
  BY DEF RecordCall
<1>c. lines' \in Seq(LogLine) /\ (UNCHANGED lines \/ ~Audit!readable')
  BY <1>0, <1>1, CutLine DEF AuditTypes
<1> HIDE DEF rest
<1>3. /\ events' \in [next : Nat, acked : SUBSET Nat, dropped : SUBSET Nat, crossed : BOOLEAN, crashes : Nat]
      /\ events'.acked = events.acked /\ events'.next = events.next /\ events'.crossed = events.crossed
      /\ events'.crashes # 0
  <2>1. events \in [next : Nat, acked : SUBSET Nat, dropped : SUBSET Nat, crossed : BOOLEAN, crashes : Nat]
    BY <1>0 DEF AuditTypes
  <2> DEFINE more == events.crashes + 1
  <2>2. more \in Nat /\ more # 0
    BY <2>1
  <2>3. events' = [events EXCEPT !.crashes = more]
    BY <1>1
  <2> HIDE DEF more
  <2> QED BY <2>1, <2>2, <2>3
<1>4. AuditTypes'
  <2>1. lines' \in Seq(LogLine)
    BY <1>c
  <2>2. recording' \in [Tasks -> RecordCall] /\ \A w \in Tasks : recording'[w].batch = <<>>
    BY <1>1, <1>2
  <2>3. pending' \in Seq(Nat) /\ sent' \in Seq(Seq(Nat)) /\ failures' \in SUBSET Nat
    BY <1>0, <1>1 DEF AuditTypes
  <2> QED BY <1>3, <2>1, <2>2, <2>3 DEF AuditTypes
<1>5. CoverInv'
  BY <1>3 DEF CoverInv
<1>6. ChainInv'
  <2> SUFFICES ASSUME ~events'.crossed, Audit!readable' PROVE ChainInv'
    BY DEF ChainInv
  <2>1. UNCHANGED lines
    BY <1>c
  <2>2. ~events.crossed /\ Audit!readable
    BY <1>3, <2>1 DEF Audit!readable
  <2>3. Logged' = Logged
    BY <2>1 DEF Logged
  <2>4. \A w \in Tasks : recording'[w].at = "idle"
    BY <1>1, <1>2
  <2>5. reader'.got \in Seq(Nat) /\ Len(reader'.got) = 0 /\ Len(lines) \in Nat
    BY <1>0, <1>1 DEF AuditTypes
  <2>6. events'.acked = events.acked /\ events'.next = events.next
    BY <1>3
  <2>7. /\ events.acked \subseteq Logged
        /\ \A i \in 1 .. Len(lines) : lines[i].event <= events.next
        /\ \A i \in 1 .. Len(lines) : lines[i].previous = IF i = 1 THEN <<>> ELSE lines[i - 1].chain
        /\ \A i, j \in 1 .. Len(lines) : i < j => lines[i].event < lines[j].event
    BY <1>0, <2>2 DEF ChainInv
  <2>8. \A w \in Tasks : recording'[w].at \notin {"append", "mirror", "sent"}
    BY <2>4
  <2> QED BY <2>1, <2>3, <2>5, <2>6, <2>7, <2>8 DEF ChainInv
<1> QED BY <1>4, <1>5, <1>6 DEF AuditInv

\* A step that touches nothing but the reader keeps the rest.
LEMMA OthersKept ==
  ASSUME AuditTypes, CoverInv, UNCHANGED <<lines, recording, pending, sent, failures, events>>
  PROVE  AuditTypes' /\ CoverInv'
<1>1. Audit!batched' = Audit!batched
  BY DEF Audit!batched, Audit!ToSet
<1>2. Covered' = Covered
  BY <1>1 DEF Covered, Audit!ToSet
<1> QED BY <1>2 DEF AuditTypes, CoverInv

\* A step of the reader that leaves it at some place of the log keeps the chain.
LEMMA ReaderMoves ==
  ASSUME ChainInv, UNCHANGED <<lines, recording, events>>,
         ~events.crossed /\ Audit!readable =>
           /\ reader'.got \in Seq(Nat) /\ Len(reader'.got) <= Len(lines)
           /\ \A i \in 1 .. Len(reader'.got) : reader'.got[i] = lines[i].event
  PROVE  ChainInv'
<1> SUFFICES ASSUME ~events'.crossed, Audit!readable' PROVE ChainInv'
  BY DEF ChainInv
<1>1. ~events.crossed /\ Audit!readable
  BY DEF Audit!readable
<1>2. Logged' = Logged /\ Audit!previous_chain_hash' = Audit!previous_chain_hash
  BY DEF Logged, Audit!previous_chain_hash
<1> QED BY <1>1, <1>2 DEF ChainInv

\* A page of a query is the next piece of the log.
LEMMA QueryStep == ASSUME AuditInv, NEW limit \in Nat, Audit!query(limit) PROVE AuditInv'
<1> DEFINE q == Audit!listed
           got == reader.got
           n == Len(lines)
           found == Audit!by_time(Audit!ToSet(q))
           end == IF Len(got) + limit < Len(found) THEN Len(got) + limit ELSE Len(found)
<1>0. AuditTypes /\ CoverInv /\ ChainInv
  BY DEF AuditInv
<1>1. /\ UNCHANGED <<lines, recording, pending, sent, failures, events>>
      /\ reader'.got = got \o SubSeq(found, Len(got) + 1, end)
  BY DEF Audit!query
<1>2. ASSUME ~events.crossed, Audit!readable
      PROVE  /\ reader'.got \in Seq(Nat) /\ Len(reader'.got) <= n
             /\ \A i \in 1 .. Len(reader'.got) : reader'.got[i] = lines[i].event
  <2>1. n \in Nat /\ \A i \in 1 .. n : lines[i].event \in Nat
    <3>1. n \in Nat /\ \A i \in 1 .. n : lines[i] \in LogLine
      BY <1>0 DEF AuditTypes
    <3> QED BY <3>1 DEF LogLine
  <2>2. q \in Seq(Nat) /\ Len(q) = n /\ \A i \in 1 .. n : q[i] = lines[i].event
    BY <2>1 DEF Audit!listed
  <2>3. /\ \A i, j \in 1 .. n : i < j => lines[i].event < lines[j].event
        /\ got \in Seq(Nat) /\ Len(got) <= n
        /\ \A i \in 1 .. Len(got) : got[i] = lines[i].event
    BY <1>0, <1>2 DEF ChainInv
  <2> HIDE DEF q, got, n
  <2>4. \A i, j \in 1 .. Len(q) : i < j => q[i] < q[j]
    BY <2>2, <2>3
  <2>5. found = q
    BY <2>2, <2>4, InOrder
  <2> DEFINE k == Len(got)
             page == SubSeq(q, k + 1, end)
  <2>6. k \in Nat /\ k <= n /\ end \in k .. n
    BY <2>1, <2>2, <2>3, <2>5
  <2>7. page \in Seq(Nat) /\ Len(page) = end - k /\ \A i \in 1 .. (end - k) : page[i] = q[k + i]
    <3> HIDE DEF end
    <3> QED BY <2>2, <2>6
  <2>8. reader'.got = got \o page
    BY <1>1, <2>5
  <2> HIDE DEF page, end
  <2>9. reader'.got \in Seq(Nat) /\ Len(reader'.got) = end
    BY <2>3, <2>6, <2>7, <2>8
  <2>10. ASSUME NEW i \in 1 .. end PROVE reader'.got[i] = lines[i].event
    <3>1. CASE i <= k
      <4>1. i \in 1 .. k /\ reader'.got[i] = got[i]
        BY <2>3, <2>6, <2>7, <2>8, <3>1
      <4> QED BY <2>3, <4>1
    <3>2. CASE ~(i <= k)
      <4>1. i - k \in 1 .. (end - k) /\ k + (i - k) = i /\ i \in 1 .. n
        BY <2>1, <2>6, <3>2
      <4>2. reader'.got[i] = page[i - k]
        BY <2>3, <2>6, <2>7, <2>8, <3>2
      <4> QED BY <2>2, <2>7, <4>1, <4>2
    <3> QED BY <3>1, <3>2
  <2> QED BY <2>6, <2>9, <2>10
<1> QED BY <1>0, <1>1, <1>2, OthersKept, ReaderMoves DEF AuditInv

\* The reader begins again.
LEMMA FinishStep == ASSUME AuditInv, Audit!finish PROVE AuditInv'
<1>1. /\ UNCHANGED <<lines, recording, pending, sent, failures, events>>
      /\ reader'.got = <<>>
  BY DEF Audit!finish, Audit!Reader
<1>2. Len(lines) \in Nat
  BY DEF AuditInv, AuditTypes
<1>3. reader'.got \in Seq(Nat) /\ Len(reader'.got) = 0
  BY <1>1
<1>4. Len(reader'.got) <= Len(lines) /\ \A i \in 1 .. Len(reader'.got) : reader'.got[i] = lines[i].event
  BY <1>2, <1>3
<1> QED BY <1>1, <1>3, <1>4, OthersKept, ReaderMoves DEF AuditInv

\* What the invariant says of the log.
LEMMA AuditFollows == AuditInv => Audit!AuditLogSound
<1> SUFFICES ASSUME AuditInv PROVE Audit!AuditLogSound
  OBVIOUS
<1>0. AuditTypes /\ CoverInv /\ ChainInv
  BY DEF AuditInv
<1>1. events.crashes = 0 => events.acked \subseteq Audit!ToSet(pending) \cup Audit!batched \cup failures
                              \cup (UNION {Audit!ToSet(recording[w].batch) : w \in Tasks}) \cup events.dropped
  BY <1>0 DEF CoverInv, Covered
<1>2. ASSUME ~events.crossed, Audit!readable
      PROVE  /\ Audit!verified
             /\ events.acked \subseteq Audit!ToSet(Audit!listed)
             /\ \A i, j \in 1 .. Len(Audit!listed) : i < j => Audit!listed[i] < Audit!listed[j]
             /\ Audit!IsPrefix(reader.got, Audit!listed)
  <2> DEFINE n == Len(lines)
             q == Audit!listed
             got == reader.got
  <2>1. n \in Nat /\ \A i \in 1 .. n : lines[i].event \in Nat
    <3>1. n \in Nat /\ \A i \in 1 .. n : lines[i] \in LogLine
      BY <1>0 DEF AuditTypes
    <3> QED BY <3>1 DEF LogLine
  <2>2. q \in Seq(Nat) /\ Len(q) = n /\ DOMAIN q = 1 .. n /\ \A i \in 1 .. n : q[i] = lines[i].event
    BY <2>1 DEF Audit!listed
  <2>3. /\ \A i, j \in 1 .. n : i < j => lines[i].event < lines[j].event
        /\ got \in Seq(Nat) /\ Len(got) <= n
        /\ \A i \in 1 .. Len(got) : got[i] = lines[i].event
        /\ events.acked \subseteq Logged
        /\ \A i \in 1 .. n : lines[i].previous = IF i = 1 THEN <<>> ELSE lines[i - 1].chain
    BY <1>0, <1>2 DEF ChainInv
  <2>4. Audit!verified
    BY <1>2, <2>3 DEF Audit!verified, Audit!readable
  <2>5. Audit!ToSet(q) = Logged
    <3>1. Audit!ToSet(q) = {q[i] : i \in 1 .. n}
      BY <2>2 DEF Audit!ToSet
    <3> HIDE DEF q
    <3> QED BY <2>2, <3>1 DEF Logged
  <2> HIDE DEF q, n, got
  <2>6. Audit!IsPrefix(got, q)
    <3> DEFINE k == Len(got)
    <3>1. k \in Nat /\ k <= Len(q) /\ \A i \in 1 .. k : got[i] = q[i]
      <4>1. k \in Nat /\ \A i \in 1 .. k : i \in 1 .. n
        BY <2>1, <2>3
      <4> QED BY <2>2, <2>3, <4>1
    <3>2. /\ SubSeq(got, 1, k) \in Seq(Nat) /\ Len(SubSeq(got, 1, k)) = k
          /\ \A i \in 1 .. k : SubSeq(got, 1, k)[i] = got[i]
      BY <2>3, <3>1
    <3>3. /\ SubSeq(q, 1, k) \in Seq(Nat) /\ Len(SubSeq(q, 1, k)) = k
          /\ \A i \in 1 .. k : SubSeq(q, 1, k)[i] = q[i]
      BY <2>2, <3>1
    <3>4. SubSeq(got, 1, k) = SubSeq(q, 1, k)
      <4> DEFINE a == SubSeq(got, 1, k)
                 b == SubSeq(q, 1, k)
      <4>1. a \in Seq(Nat) /\ b \in Seq(Nat) /\ Len(a) = Len(b) /\ \A i \in 1 .. Len(a) : a[i] = b[i]
        BY <3>1, <3>2, <3>3
      <4> HIDE DEF a, b
      <4>2. a = b
        BY <4>1, SeqEqual
      <4> QED BY <4>2 DEF a, b
    <3> QED BY <3>1, <3>4 DEF Audit!IsPrefix
  <2>7. \A i, j \in 1 .. Len(q) : i < j => q[i] < q[j]
    BY <2>2, <2>3
  <2> QED BY <2>3, <2>4, <2>5, <2>6, <2>7 DEF q, got
<1> QED BY <1>1, <1>2 DEF Audit!AuditLogSound

\* AuditLogSound (the part "audit" of FilesSound): without a crash an event whose record
\* succeeded is pending, in a batch that the sink accepted or that is on its way, in a
\* delivery failure, or in a batch whose call was dropped while it was sent; as long as no
\* two records overlapped and every line can be read, the chain verifies, the log has every
\* acknowledged event in its order, the dropped ones included, and the pages of a reader are
\* a prefix of it.
THEOREM AuditIsSound == Audit!Spec => []Audit!AuditLogSound
<1>1. Audit!Init => AuditInv
  BY AuditStarts
<1>2. ASSUME AuditInv, [Audit!Next]_Audit!lvars PROVE AuditInv'
  <2>1. ASSUME NEW w \in Tasks,
               \/ Audit!record(w) \/ Audit!append(w) \/ Audit!fails(w)
               \/ Audit!mirror(w) \/ Audit!send_enterprise_batch(w) \/ Audit!send_dropped(w)
        PROVE  AuditInv'
    BY <1>2, <2>1, RecordStep, LineStep, FailStep, MirrorStep, BatchStep, DropStep
  <2>2. CASE Audit!crash
    BY <1>2, <2>2, CrashStep
  <2>3. ASSUME NEW limit \in 1 .. 2, Audit!query(limit) PROVE AuditInv'
    <3>1. limit \in Nat
      OBVIOUS
    <3> QED BY <1>2, <2>3, <3>1, QueryStep
  <2>4. CASE Audit!finish
    BY <1>2, <2>4, FinishStep
  <2>5. CASE UNCHANGED Audit!lvars
    <3>1. UNCHANGED <<lines, recording, pending, sent, failures, reader, events>>
      BY <2>5 DEF Audit!lvars
    <3>2. AuditTypes' /\ CoverInv'
      BY <1>2, <3>1, OthersKept DEF AuditInv
    <3>3. ChainInv'
      <4>1. ~events.crossed /\ Audit!readable =>
              /\ reader'.got \in Seq(Nat) /\ Len(reader'.got) <= Len(lines)
              /\ \A i \in 1 .. Len(reader'.got) : reader'.got[i] = lines[i].event
        BY <1>2, <3>1 DEF AuditInv, ChainInv
      <4> QED BY <1>2, <3>1, <4>1, ReaderMoves DEF AuditInv
    <3> QED BY <3>2, <3>3 DEF AuditInv
  <2> QED BY <1>2, <2>1, <2>2, <2>3, <2>4, <2>5 DEF Audit!Next
<1>3. AuditInv => Audit!AuditLogSound
  BY AuditFollows
<1> QED BY <1>1, <1>2, <1>3, PTL DEF Audit!Spec
=============================================================================

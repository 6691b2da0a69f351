--------------------------------- MODULE Timers ---------------------------------
(***************************************************************************)
(* scheduler, reminder-core, notification-core: the in-process scheduler   *)
(* and its pollers, the bridge that turns due jobs into notifications, the *)
(* reminders behind the reminder actions, and the scheduler's JSONL store. *)
(*                                                                         *)
(* Every store operation takes the store's lock once; a poll is a listing  *)
(* followed by one update for each due job.  No reminder action reaches    *)
(* the scheduler: the host schedules and cancels jobs itself.              *)
(***************************************************************************)
EXTENDS Naturals, FiniteSets

CONSTANTS Callers, Jobs, Reminders,
          MaxTime,  \* bound of the clock
          MaxArms   \* how often a job is scheduled

VARIABLES clock,
          jobs,       \* job id -> its status, due time and which scheduling it is; Absent before the first
          polls,      \* of every poller: the due jobs it has listed, those it has marked, and the one it emits
          notified,   \* notification store (id -> unread, read) and, per scheduling of a job, how often the sink had it
          reminders,  \* MemoryReminderRepository
          actions,    \* of every caller: the reminder action it runs
          store,      \* FsJsonlSchedulerStore: map in memory, file on disk, and whether a write was cut
          saves       \* of every caller: where its save is

ivars == <<clock, jobs, polls, notified, reminders, actions, store, saves>>
jobVars == <<clock, jobs, polls, notified>>
reminderVars == <<reminders, actions>>
storeVars == <<store, saves>>

Absent == [status |-> "Absent", due |-> 0, arm |-> 0]
NoPoll == [listed |-> {}, due |-> {}, emitting |-> {}]
with(f, key, value) == [k \in DOMAIN f \cup {key} |-> IF k = key THEN value ELSE f[k]]

(* ---- scheduler ---- *)

\* Saving replaces a job of the same id whatever its status.
schedule(j) ==
    /\ jobs[j].arm < MaxArms
    /\ \E due \in clock .. MaxTime : jobs' = [jobs EXCEPT ![j] = [status |-> "Pending", due |-> due, arm |-> @.arm + 1]]
    /\ notified' = [notified EXCEPT !.overlapped = @ \cup {j : p \in {p \in Callers : \E job \in polls[p].listed : job.id = j}}]
    /\ UNCHANGED <<clock, polls>>

\* The status is overwritten, a fired job's too.
cancel(j) ==
    /\ jobs[j] # Absent
    /\ jobs' = [jobs EXCEPT ![j].status = "Cancelled"]
    /\ notified' = [notified EXCEPT
            !.cancelled = IF jobs[j].status = "Pending" THEN @ \cup {<<j, jobs[j].arm>>} ELSE @,
            !.overlapped = @ \cup {j : p \in {p \in Callers : \E job \in polls[p].listed : job.id = j}}]
    /\ UNCHANGED <<clock, polls>>

\* Faulty variant: the status of a due job is not asked.
is_due_unasked(job) == job.status # "Absent" /\ job.due <= clock

is_due(job) == job.status = "Pending" /\ job.due <= clock

\* poll_due_jobs lists all jobs under the lock and looks for the due ones in the list.
list(p) ==
    /\ polls[p] = NoPoll
    /\ LET due == {j \in Jobs : is_due(jobs[j])} IN
       /\ due # {}
       /\ polls' = [polls EXCEPT ![p].listed = {[id |-> j, arm |-> jobs[j].arm] : j \in due}]
       /\ notified' = [notified EXCEPT !.overlapped =
                @ \cup {j \in due : \E q \in Callers : \E job \in polls[q].listed : job.id = j}]
    /\ UNCHANGED <<clock, jobs>>

\* Whatever the job has become since the listing, it is marked as fired and returned as it was listed.
mark_fired(p) ==
    /\ \E job \in polls[p].listed :
         /\ jobs' = [jobs EXCEPT ![job.id].status = "Fired"]
         /\ polls' = [polls EXCEPT ![p].listed = @ \ {job}, ![p].due = @ \cup {job}]
    /\ UNCHANGED <<clock, notified>>

(* ---- bridge and notifications ---- *)

\* process_due goes on when the sink or the store fails.
emit(p) ==
    /\ polls[p].listed = {} /\ polls[p].emitting = {}
    /\ \E job \in polls[p].due :
         /\ polls' = [polls EXCEPT ![p].due = @ \ {job}, ![p].emitting = {job}]
         /\ \E sent \in BOOLEAN :
              notified' = [notified EXCEPT !.emitted[job.id][job.arm] = IF sent THEN @ + 1 ELSE @,
                                           !.failed = IF sent THEN @ ELSE @ \cup {<<job.id, job.arm>>}]
    /\ UNCHANGED <<clock, jobs>>

\* The notification's id is made of the job's: a job that fires again replaces its notification, a read one too.
save_notification(p) ==
    /\ \E job \in polls[p].emitting :
         /\ polls' = [polls EXCEPT ![p].emitting = {}]
         /\ \E saved \in BOOLEAN : notified' = [notified EXCEPT !.store = IF saved THEN with(@, job.id, "unread") ELSE @]
    /\ UNCHANGED <<clock, jobs>>

\* The call is dropped at an await of the sink or the store.  The jobs it has not come to stay fired, and
\* nothing emits them again.
drop_poll(p) ==
    /\ polls[p].listed = {} /\ polls[p] # NoPoll
    /\ polls' = [polls EXCEPT ![p] = NoPoll]
    /\ notified' = [notified EXCEPT !.dropped = @ \cup {<<job.id, job.arm>> : job \in polls[p].due}]
    /\ UNCHANGED <<clock, jobs>>

mark_read(j) ==
    /\ j \in DOMAIN notified.store
    /\ notified' = [notified EXCEPT !.store[j] = "read"]
    /\ UNCHANGED <<clock, jobs, polls>>

advance == clock < MaxTime /\ clock' = clock + 1 /\ UNCHANGED <<jobs, polls, notified>>

JobNext ==
    /\ \/ \E j \in Jobs : schedule(j) \/ cancel(j) \/ mark_read(j)
       \/ \E p \in Callers : list(p) \/ mark_fired(p) \/ emit(p) \/ save_notification(p) \/ drop_poll(p)
       \/ advance
    /\ UNCHANGED <<reminderVars, storeVars>>

(* ---- reminder actions ---- *)

\* The id of a new reminder is its action's; nothing ever makes a reminder Due.
create(r) ==
    /\ reminders' = with(reminders, r, "Pending")
    /\ UNCHANGED actions

\* Any status may follow any other: no transition is refused.
update_status(p, r) ==
    /\ actions[p] = <<>>
    /\ r \in DOMAIN reminders
    /\ \E status \in {"Completed", "Cancelled", "Snoozed"} :
         /\ reminders' = with(reminders, r, status)
         /\ actions' = [q \in Callers |->
                CASE q = p -> [of |-> r, wrote |-> {status}]
                  [] q # p /\ actions[q] # <<>> /\ actions[q].of = r -> [actions[q] EXCEPT !.wrote = @ \cup {status}]
                  [] OTHER -> actions[q]]

\* The answer is the reminder as it is read back, which another action may have changed again.
read_back(p) ==
    /\ actions[p] # <<>> /\ actions[p].of \in DOMAIN reminders
    /\ actions' = [actions EXCEPT ![p] = <<>>]
    /\ UNCHANGED reminders

list_due == {r \in DOMAIN reminders : reminders[r] = "Due"}

ReminderNext ==
    /\ \/ \E r \in Reminders \ DOMAIN reminders : create(r)
       \/ \E p \in Callers : (\E r \in Reminders : update_status(p, r)) \/ read_back(p)
    /\ UNCHANGED <<jobVars, storeVars>>

(* ---- FsJsonlSchedulerStore: the map changes under the lock, then the whole file is written under it again ---- *)

change(p) ==
    /\ saves[p] = "idle" /\ store.open
    /\ \A q \in Callers : saves[q] # "writing"
    /\ saves' = [saves EXCEPT ![p] = "changed"]
    /\ \E j \in Jobs :
         \/ \E status \in {"Pending", "Fired", "Cancelled"} : store' = [store EXCEPT !.memory = with(@, j, status)]
         \/ store' = [store EXCEPT !.memory = [k \in DOMAIN @ \ {j} |-> @[k]]]

truncate(p) ==
    /\ saves[p] = "changed"
    /\ \A q \in Callers : saves[q] # "writing"
    /\ saves' = [saves EXCEPT ![p] = "writing"]
    /\ store' = [store EXCEPT !.disk = <<>>, !.cut = TRUE]

write_all(p) ==
    /\ saves[p] = "writing"
    /\ saves' = [saves EXCEPT ![p] = "idle"]
    /\ store' = [store EXCEPT !.disk = store.memory, !.cut = FALSE, !.torn = FALSE]

\* A write that fails, or a crash: some lines are written, the last one in part or not.  The lines are in no order.
cut_short(p) ==
    /\ saves[p] = "writing"
    /\ \E written \in SUBSET DOMAIN store.memory, torn \in BOOLEAN, crashed \in BOOLEAN :
         /\ store' = [store EXCEPT !.disk = [j \in written |-> store.memory[j]], !.torn = torn, !.open = ~ crashed]
         /\ saves' = IF crashed THEN [q \in Callers |-> "idle"] ELSE [saves EXCEPT ![p] = "idle"]

crash ==
    /\ store.open /\ \A q \in Callers : saves[q] # "writing"
    /\ store' = [store EXCEPT !.open = FALSE]
    /\ saves' = [q \in Callers |-> "idle"]

\* A line that does not parse keeps the store from opening at all.
load_from_file ==
    /\ ~ store.open /\ ~ store.torn
    /\ store' = [store EXCEPT !.open = TRUE, !.memory = store.disk, !.cut = FALSE]
    /\ UNCHANGED saves

StoreNext ==
    /\ \/ \E p \in Callers : change(p) \/ truncate(p) \/ write_all(p) \/ cut_short(p)
       \/ crash \/ load_from_file
    /\ UNCHANGED <<jobVars, reminderVars>>

Init ==
    /\ clock = 0
    /\ jobs = [j \in Jobs |-> Absent]
    /\ polls = [p \in Callers |-> NoPoll]
    /\ notified = [store |-> <<>>, emitted |-> [j \in Jobs |-> [a \in 1 .. MaxArms |-> 0]],
                   failed |-> {}, dropped |-> {}, cancelled |-> {}, overlapped |-> {}]
    /\ reminders = <<>>
    /\ actions = [p \in Callers |-> <<>>]
    /\ store = [memory |-> <<>>, disk |-> <<>>, cut |-> FALSE, torn |-> FALSE, open |-> TRUE]
    /\ saves = [p \in Callers |-> "idle"]

Next == JobNext \/ ReminderNext \/ StoreNext

Spec == Init /\ [][Next]_ivars

(* ---- properties ---- *)

pending_in(p, j) == \E job \in polls[p].listed \cup polls[p].due \cup polls[p].emitting : job.id = j

\* A job nobody touched between a poll's listing and its update is notified at most once for every time it was
\* scheduled and not before it is due; never once it was cancelled while it waited; and when it has fired, its
\* notification was emitted, or is about to be, or the sink refused it, or the call that was to emit it was
\* dropped, and a call that is dropped leaves no job to be emitted a second time.  Actions answer with a status somebody
\* wrote since, and no reminder is ever listed as due.  With every save answered and none cut short the file
\* holds the map.
TimersSound ==
    /\ \A j \in Jobs \ notified.overlapped :
         /\ \A arm \in 1 .. jobs[j].arm :
              /\ notified.emitted[j][arm] <= 1
              /\ <<j, arm>> \in notified.cancelled => notified.emitted[j][arm] = 0
         /\ jobs[j].arm > 0 =>
              /\ notified.emitted[j][jobs[j].arm] > 0 => jobs[j].due <= clock /\ jobs[j].status # "Pending"
              /\ jobs[j].status = "Fired" =>
                   \/ notified.emitted[j][jobs[j].arm] = 1
                   \/ <<j, jobs[j].arm>> \in notified.failed \cup notified.dropped
                   \/ \E p \in Callers : pending_in(p, j)
    /\ \A p \in Callers : actions[p] # <<>> => reminders[actions[p].of] \in actions[p].wrote
    /\ list_due = {}
    /\ (\A p \in Callers : saves[p] = "idle") /\ store.open /\ ~ store.cut => store.disk = store.memory

================================================================================
